-------------------------- MODULE AtlasStoreProofs --------------------------
(***************************************************************************)
(* For every set of processes and files and every bound: what a load       *)
(* answers with is one build in all its parts, also while several          *)
(* processes build.  If builds do not overlap, that build was committed    *)
(* since the load began; the segments that the committed meta names are    *)
(* there, wherever a build is broken off; a build that was written to its  *)
(* end can be loaded, with a card for each file it saw; and, unless root   *)
(* metadata change at the wrong moment or a segment cannot be written, the *)
(* index has the text of every card.                                       *)
(***************************************************************************)
EXTENDS AtlasStore, TLAPS

\* ---------------------------------------------------------- a load's parts
\* A load that has not read meta yet watches the one it may find there.
WatchesMeta(p) == pc[p] \in {"meta", "readMeta"} => disk.meta.build \in since[p]

\* What it took from meta, or the whole entry of its cache, was committed, if
\* builds do not overlap.
HasCommitted(p) ==
    ~SideBySide /\ pc[p] \in {"cached", "nodes", "edges", "index", "keep", "query", "preflight"}
    /\ got[p].meta.build # 0 => got[p].meta.build \in since[p]

\* The parts were compared; so were those of the cache, when it was filled.
HasOneBuild(p) ==
    pc[p] \in {"keep", "query", "preflight"} /\ got[p].meta.build # 0 => OneBuild(got[p])
CacheHasOneBuild(p) == cache[p].atlas.meta.build # 0 => OneBuild(cache[p].atlas)

Loads == \A p \in Procs :
    WatchesMeta(p) /\ HasCommitted(p) /\ HasOneBuild(p) /\ CacheHasOneBuild(p)

\* ------------------------------------------------------- builds one by one
\* Who builds, by the plan and by its place.
PlanFollowsPlace == \A p \in Procs :
    /\ plan[p].build \in {0} \union Builds
    /\ pc[p] \in Building => plan[p].build # 0
    /\ pc[p] \in {"idle", "query"} => plan[p].build = 0
OneBuilder == \A p, q \in Procs : plan[p].build # 0 /\ plan[q].build # 0 => p = q

\* Numbers of builds are not used again, and that of a build under way is
\* its own until meta is written.
NumbersKnown ==
    /\ disk.meta.build <= count.builds
    /\ \A p \in Procs : /\ plan[p].build <= count.builds
                        /\ got[p].meta.build <= count.builds
                        /\ cache[p].atlas.meta.build <= count.builds
                        /\ cache[p].key <= count.builds
NotYetKnown(p) == plan[p].build # 0 /\ pc[p] \notin {"prune", "seed"} =>
    /\ disk.meta.build # plan[p].build
    /\ \A q \in Procs : /\ got[q].meta.build # plan[p].build
                        /\ cache[q].atlas.meta.build # plan[p].build
                        /\ cache[q].key # plan[p].build

\* So a meta that has the number of the committed one is the committed one.
SameMeta(m) == m.build # 0 /\ m.build = disk.meta.build => m = disk.meta
\* And the meta a process keeps under the stat of the committed one is that one.
KeyTells(p) ==
    cache[p].key # 0 /\ cache[p].key = disk.meta.build /\ pc[p] # "readMeta" =>
        cache[p].meta = disk.meta
KnownMetas == \A p \in Procs :
    SameMeta(got[p].meta) /\ SameMeta(cache[p].atlas.meta) /\ KeyTells(p)

\* A builder starts from the committed meta, unless it starts from nothing,
\* and names the segments it found there and those it has finished.
StartsFromMeta(p) ==
    /\ plan[p].build # 0 /\ got[p].meta.build # 0
       /\ pc[p] \in {"cached", "nodes", "edges", "index", "keep", "preflight", "scan", "rescan", "extract"}
       => got[p].meta = disk.meta
    /\ pc[p] = "extract" /\ plan[p].whole => got[p].meta.build # 0
NamesWhatIsThere(p) ==
    pc[p] \in {"segment", "pack"} \union Writing => plan[p].segs \subseteq terms.whole \union lost
CommittedIsIts(p) == pc[p] \in {"prune", "seed"} => disk.meta = NewMeta(p)

Numbering ==
    OneBuilder /\ NumbersKnown /\ KnownMetas /\ \A p \in Procs : NotYetKnown(p)
Sources == \A p \in Procs : StartsFromMeta(p)
Committed ==
    /\ \A p \in Procs : NamesWhatIsThere(p) /\ CommittedIsIts(p)
    /\ CommittedSegmentsStay
Commits == Numbering /\ Sources /\ Committed

\* ------------------------------------------------------------------ types
TermsOf == [dirs : SUBSET Segments, whole : SUBSET Segments, has : [Segments -> SUBSET Texts]]
TypeInv == TypeOK /\ PlanFollowsPlace

\* The values of one who has read, kept and planned nothing, and of one who begins.
LEMMA BlankValues ==
    NoDisk \in Atlases /\ NoAtlas \in Atlases /\ NoEntry \in Entries /\ NoPlan \in Plans
    BY DEF NoDisk, NoAtlas, NoEntry, NoKeys, NoPlan, NoMeta, NoNodes, Atlases, Metas, Nodes, Entries, Plans

LEMMA JustMeta == \A m \in Metas : [NoAtlas EXCEPT !.meta = m] \in Atlases
    BY DEF NoAtlas, NoMeta, NoNodes, Atlases, Nodes

LEMMA NewPlan ==
    \A n \in Nat, forced \in BOOLEAN : [NoPlan EXCEPT !.build = n, !.forced = forced] \in Plans
    BY DEF NoPlan, Plans

\* A plan stays the plan of its build.
GoesOn(x) == {y \in Plans : y.build = x.build}
LEMMA PlanSteps ==
    ASSUME NEW x \in Plans, NEW a \in BOOLEAN, NEW b \in BOOLEAN, NEW old \in SUBSET Cards,
           NEW seen \in [Files -> Nat], NEW n \in Nat, NEW texts \in SUBSET Texts,
           NEW segs \in SUBSET Segments
    PROVE  /\ [x EXCEPT !.pre = a, !.prev = old, !.gap = b] \in GoesOn(x)
           /\ [x EXCEPT !.seen = seen, !.hints = n, !.whole = a, !.prev = old] \in GoesOn(x)
           /\ [x EXCEPT !.seen = seen, !.hints = n, !.whole = a] \in GoesOn(x)
           /\ [x EXCEPT !.cards = old, !.texts = texts, !.segs = segs] \in GoesOn(x)
           /\ [x EXCEPT !.segs = segs] \in GoesOn(x)
  <1>1. x \in [build : Nat, forced : BOOLEAN, pre : BOOLEAN, gap : BOOLEAN, whole : BOOLEAN,
               prev : SUBSET Cards, seen : [Files -> Nat], hints : Nat, cards : SUBSET Cards,
               texts : SUBSET Texts, segs : SUBSET Segments]
    BY DEF Plans
  <1>2. /\ [x EXCEPT !.pre = a, !.prev = old, !.gap = b] \in Plans
        /\ [x EXCEPT !.seen = seen, !.hints = n, !.whole = a, !.prev = old] \in Plans
        /\ [x EXCEPT !.seen = seen, !.hints = n, !.whole = a] \in Plans
        /\ [x EXCEPT !.cards = old, !.texts = texts, !.segs = segs] \in Plans
        /\ [x EXCEPT !.segs = segs] \in Plans
    BY ZenonT(60) DEF Plans
  <1> QED
    BY <1>1, <1>2 DEF GoesOn

\* The last of them, for a list of segments alone.
LEMMA SegmentStep ==
    ASSUME NEW x \in Plans, NEW segs \in SUBSET Segments
    PROVE  [x EXCEPT !.segs = segs] \in GoesOn(x)
  <1>1. TRUE \in BOOLEAN /\ {} \in SUBSET Cards /\ {} \in SUBSET Texts
        /\ x.seen \in [Files -> Nat] /\ x.hints \in Nat
    BY DEF Plans
  <1> QED
    BY ZenonT(40), <1>1, PlanSteps


\* What a build hands to the cache, and the segments that carry its number.
LEMMA ResultIsAtlas ==
    ASSUME TypeOK, NEW p \in Procs PROVE Result(p) \in Atlases
    BY DEF TypeOK, Result, NewMeta, Plans, Atlases, Metas, Nodes

LEMMA BuildsOwnSegments ==
    ASSUME TypeInv, NEW p \in Procs, pc[p] \in Building
    PROVE  FreshSegment(p) \in Segments /\ PackedSegment(p) \in Segments
    BY DEF TypeInv, TypeOK, PlanFollowsPlace, Plans, FreshSegment, PackedSegment, Segments

LEMMA InitTypes == Init => TypeInv
    BY BlankValues, BoundAssumption
       DEF Init, TypeInv, TypeOK, PlanFollowsPlace, Places, Loading, Building, Writing, NoPlan, Segments

LEMMA TypeStep == TypeInv /\ [Next]_vars => TypeInv'
  <1> SUFFICES ASSUME TypeInv, [Next]_vars PROVE TypeInv'
    OBVIOUS
  <1> USE DEF TypeInv, TypeOK, Step, Shared, Own
  <1>1. ASSUME NEW p \in Procs, BeginQuery(p) PROVE TypeInv'
    <2>1. pc' \in [Procs -> Places]
      BY <1>1 DEF BeginQuery, Opened, Places, Loading, Building, Writing, Publish, Order, Goal
    <2>2. got' \in [Procs -> Atlases]
      BY <1>1, BlankValues DEF BeginQuery, Opened
    <2>3. plan' \in [Procs -> Plans]
      BY <1>1, BlankValues DEF BeginQuery, Opened, Plans
    <2>4. since' \in [Procs -> SUBSET Nat]
      BY <1>1 DEF BeginQuery, Opened, Atlases, Metas, Nodes
    <2>5. count' \in [builds : Nat, queries : Nat, edits : Nat, trouble : Nat]
      BY <1>1 DEF BeginQuery, Opened
    <2>6. PlanFollowsPlace'
      BY <1>1, BoundAssumption DEF BeginQuery, Opened, PlanFollowsPlace, Loading, Building, Writing, Publish, Order, Goal, NoPlan
    <2> QED
      BY <1>1, <2>1, <2>2, <2>3, <2>4, <2>5, <2>6 DEF BeginQuery, Opened, TermsOf
  <1>2. ASSUME NEW p \in Procs, BeginBuild(p) PROVE TypeInv'
    <2>1. PICK x \in Plans : /\ plan' = [plan EXCEPT ![p] = x]
                             /\ x.build = count.builds + 1
      <3>1. PICK forced \in BOOLEAN : plan' = [plan EXCEPT ![p] =
                   [NoPlan EXCEPT !.build = count.builds + 1, !.forced = forced]]
        BY <1>2 DEF BeginBuild, Opened
      <3>2. count.builds + 1 \in Nat
        OBVIOUS
      <3>3. [NoPlan EXCEPT !.build = count.builds + 1, !.forced = forced].build = count.builds + 1
        BY DEF NoPlan
      <3> QED
        BY <3>1, <3>2, <3>3, NewPlan
    <2>2. pc' \in [Procs -> Places]
      BY <1>2 DEF BeginBuild, Places, Loading, Building, Writing
    <2>3. got' \in [Procs -> Atlases]
      BY <1>2, BlankValues DEF BeginBuild, Opened
    <2>4. since' \in [Procs -> SUBSET Nat]
      BY <1>2 DEF BeginBuild, Opened, Atlases, Metas, Nodes
    <2>5. count' \in [builds : Nat, queries : Nat, edits : Nat, trouble : Nat]
      BY <1>2 DEF BeginBuild
    <2>6. PlanFollowsPlace'
      <3>1. count.builds + 1 \in Builds /\ count.builds + 1 # 0
        BY <1>2, BoundAssumption DEF BeginBuild, Builds
      <3> QED
        BY <1>2, <2>1, <3>1 DEF BeginBuild, PlanFollowsPlace, Loading, Building, Writing
    <2> QED
      BY <1>2, <2>1, <2>2, <2>3, <2>4, <2>5, <2>6 DEF BeginBuild, Opened
  <1>3. ASSUME NEW p \in Procs, StatMeta(p) PROVE TypeInv'
    <2>1. pc' \in [Procs -> Places]
      BY <1>3 DEF StatMeta, Reads, Goal, Places, Loading, Building, Writing, Publish, Order
    <2>2. got' \in [Procs -> Atlases]
      <3>1. cache[p].meta \in Metas
        BY DEF Entries
      <3> QED
        BY <1>3, <3>1, BlankValues, JustMeta DEF StatMeta, Reads
    <2>3. cache' \in [Procs -> Entries]
      <3>1. disk.meta.build \in Nat /\ NoMeta \in Metas
        BY DEF Atlases, Metas, NoMeta
      <3>2. [cache[p] EXCEPT !.meta = NoMeta, !.key = disk.meta.build] \in Entries
        BY <3>1 DEF Entries
      <3>3. \/ UNCHANGED cache
            \/ cache' = [cache EXCEPT ![p] = [cache[p] EXCEPT !.meta = NoMeta, !.key = disk.meta.build]]
        BY <1>3 DEF StatMeta, Reads
      <3> QED
        BY <3>2, <3>3
    <2>4. PlanFollowsPlace'
      BY <1>3 DEF StatMeta, Reads, Goal, PlanFollowsPlace, Loading, Building, Writing, Publish, Order
    <2>5. UNCHANGED <<work, hints, disk, terms, plan, since, lost, count>>
      BY <1>3 DEF StatMeta, Reads
    <2> QED
      BY <2>1, <2>2, <2>3, <2>4, <2>5 DEF TermsOf
  <1>33. ASSUME NEW p \in Procs, ReadMeta(p) PROVE TypeInv'
    <2>1. pc' \in [Procs -> Places]
      BY <1>33 DEF ReadMeta, Places, Loading, Building, Writing, Publish, Order
    <2>2. got' \in [Procs -> Atlases]
      <3>1. disk.meta \in Metas
        BY DEF Atlases
      <3> QED
        BY <1>33, <3>1, JustMeta DEF ReadMeta
    <2>3. cache' \in [Procs -> Entries]
      <3>1. [cache[p] EXCEPT !.meta = disk.meta] \in Entries
        BY ZenonT(40) DEF Entries, Atlases
      <3> QED
        BY <1>33, <3>1 DEF ReadMeta
    <2>4. PlanFollowsPlace'
      BY <1>33 DEF ReadMeta, PlanFollowsPlace, Loading, Building, Writing, Publish, Order
    <2> QED
      BY <1>33, <2>1, <2>2, <2>3, <2>4 DEF ReadMeta, TermsOf
  <1>4. ASSUME NEW p \in Procs, UseCached(p) PROVE TypeInv'
    <2>1. pc' \in [Procs -> Places]
      BY <1>4 DEF UseCached, Reads, Goal, Places, Loading, Building, Writing, Publish, Order, Goal
    <2>2. got' \in [Procs -> Atlases]
      BY <1>4 DEF UseCached, Reads, Goal, Entries
    <2>3. PlanFollowsPlace'
      BY <1>4 DEF UseCached, Reads, Goal, PlanFollowsPlace, Loading, Building, Writing, Publish, Order, Goal
    <2> QED
      BY <1>4, <2>1, <2>2, <2>3 DEF UseCached, Reads, Goal, TermsOf
  <1>5. ASSUME NEW p \in Procs, ReadOn(p) PROVE TypeInv'
    <2>1. pc' \in [Procs -> Places]
      BY <1>5 DEF ReadOn, Reads, Places, Loading, Building, Writing, Publish, Order, Goal
    <2>2. got' \in [Procs -> Atlases]
      BY <1>5 DEF ReadOn, Reads
    <2>3. PlanFollowsPlace'
      BY <1>5 DEF ReadOn, Reads, PlanFollowsPlace, Loading, Building, Writing, Publish, Order, Goal
    <2> QED
      BY <1>5, <2>1, <2>2, <2>3 DEF ReadOn, Reads, TermsOf
  <1>6. ASSUME NEW p \in Procs, ReadNodes(p) PROVE TypeInv'
    <2>1. pc' \in [Procs -> Places]
      BY <1>6 DEF ReadNodes, Reads, Places, Loading, Building, Writing, Publish, Order, Goal
    <2>2. got' \in [Procs -> Atlases]
      BY <1>6 DEF ReadNodes, Reads, Atlases, Metas, Nodes
    <2>3. PlanFollowsPlace'
      BY <1>6 DEF ReadNodes, Reads, PlanFollowsPlace, Loading, Building, Writing, Publish, Order, Goal
    <2> QED
      BY <1>6, <2>1, <2>2, <2>3 DEF ReadNodes, Reads, TermsOf
  <1>7. ASSUME NEW p \in Procs, ReadEdges(p) PROVE TypeInv'
    <2>1. pc' \in [Procs -> Places]
      BY <1>7 DEF ReadEdges, Reads, Places, Loading, Building, Writing, Publish, Order, Goal
    <2>2. got' \in [Procs -> Atlases]
      BY <1>7 DEF ReadEdges, Reads, Atlases, Metas, Nodes
    <2>3. PlanFollowsPlace'
      BY <1>7 DEF ReadEdges, Reads, PlanFollowsPlace, Loading, Building, Writing, Publish, Order, Goal
    <2> QED
      BY <1>7, <2>1, <2>2, <2>3 DEF ReadEdges, Reads, TermsOf
  <1>8. ASSUME NEW p \in Procs, ReadIndex(p) PROVE TypeInv'
    <2>1. pc' \in [Procs -> Places]
      BY <1>8 DEF ReadIndex, Reads, Goal, Places, Loading, Building, Writing, Publish, Order, Goal
    <2>2. got' \in [Procs -> Atlases]
      <3>1. [got[p] EXCEPT !.index = disk.index] \in Atlases
        BY DEF Atlases
      <3> QED
        BY <1>8, <3>1, BlankValues DEF ReadIndex, Reads
    <2>3. PlanFollowsPlace'
      BY <1>8 DEF ReadIndex, Reads, Goal, PlanFollowsPlace, Loading, Building, Writing, Publish, Order, Goal
    <2> QED
      BY <1>8, <2>1, <2>2, <2>3 DEF ReadIndex, Reads, Goal, TermsOf
  <1>9. ASSUME NEW p \in Procs, Remember(p) PROVE TypeInv'
    <2>1. pc' \in [Procs -> Places]
      BY <1>9 DEF Remember, Goal, Places, Loading, Building, Writing, Publish, Order, Goal
    <2>2. cache' \in [Procs -> Entries]
      <3>1. got[p] \in Atlases /\ NoAtlas \in Atlases /\ StatKeys \in Nat \X Nat \X Nat
        BY BlankValues DEF StatKeys, Atlases, Nodes
      <3>2. /\ [cache[p] EXCEPT !.atlas = got[p], !.keys = StatKeys] \in Entries
            /\ [cache[p] EXCEPT !.atlas = NoAtlas, !.keys = NoKeys] \in Entries
        BY <3>1 DEF Entries, NoKeys
      <3>3. \/ cache' = [cache EXCEPT ![p] = [cache[p] EXCEPT !.atlas = got[p], !.keys = StatKeys]]
            \/ cache' = [cache EXCEPT ![p] = [cache[p] EXCEPT !.atlas = NoAtlas, !.keys = NoKeys]]
        BY <1>9 DEF Remember
      <3> QED
        BY <3>2, <3>3
    <2>3. PlanFollowsPlace'
      BY <1>9 DEF Remember, Goal, PlanFollowsPlace, Loading, Building, Writing, Publish, Order, Goal
    <2> QED
      BY <1>9, <2>1, <2>2, <2>3 DEF Remember, Goal, TermsOf
  <1>10. ASSUME NEW p \in Procs, JoinIncludes(p) PROVE TypeInv'
    <2>1. got' \in [Procs -> Atlases]
      BY <1>10 DEF JoinIncludes, Atlases, Metas, Nodes
    <2>2. cache' \in [Procs -> Entries]
      <3>1. [cache[p].atlas EXCEPT !.includes = disk.includes] \in Atlases
        BY DEF Entries, Atlases
      <3>2. [cache[p] EXCEPT !.atlas.includes = disk.includes] \in Entries
        BY <3>1 DEF Entries
      <3> QED
        BY <1>10, <3>2 DEF JoinIncludes
    <2>3. PlanFollowsPlace'
      BY <1>10 DEF JoinIncludes, PlanFollowsPlace, Loading, Building, Writing, Publish, Order, Goal
    <2> QED
      BY <1>10, <2>1, <2>2, <2>3 DEF JoinIncludes, TermsOf
  <1>11. ASSUME NEW p \in Procs, EndQuery(p) PROVE TypeInv'
    <2>1. pc' \in [Procs -> Places]
      BY <1>11 DEF EndQuery, Places, Loading, Building, Writing, Publish, Order, Goal
    <2>2. got' \in [Procs -> Atlases]
      BY <1>11, BlankValues DEF EndQuery
    <2>3. PlanFollowsPlace'
      BY <1>11 DEF EndQuery, PlanFollowsPlace, Loading, Building, Writing, Publish, Order, Goal
    <2> QED
      BY <1>11, <2>1, <2>2, <2>3 DEF EndQuery, TermsOf
  <1>12. ASSUME NEW p \in Procs, Preflight(p) PROVE TypeInv'
    <2>1. PICK x \in GoesOn(plan[p]) : plan' = [plan EXCEPT ![p] = x]
      <3> DEFINE prev == IF got[p].meta.build # 0 /\ got[p].meta.hints = hints
                         THEN got[p].nodes.cards ELSE {}
      <3>1. PICK pre \in BOOLEAN, gap \in BOOLEAN :
                pre = (got[p].meta.build # 0 /\ got[p].meta.hints = hints) /\ gap = Gap(p)
        BY DEF Gap
      <3>2. prev \in SUBSET Cards
        BY DEF Atlases, Nodes
      <3>3. plan' = [plan EXCEPT ![p] = [plan[p] EXCEPT !.pre = pre, !.prev = prev, !.gap = gap]]
        BY <1>12, <3>1 DEF Preflight
      <3> HIDE DEF prev
      <3> QED
        <4>1. [plan[p] EXCEPT !.pre = pre, !.prev = prev, !.gap = gap] \in GoesOn(plan[p])
          BY <3>2, PlanSteps
        <4> QED
          BY <3>3, <4>1
    <2>2. pc' \in [Procs -> Places]
      BY <1>12 DEF Preflight, Places, Loading, Building, Writing, Publish, Order, Goal
    <2>3. PlanFollowsPlace'
      BY <1>12, <2>1 DEF GoesOn, Preflight, PlanFollowsPlace, Places, Loading, Building, Writing, Publish, Order, Goal
    <2>5. UNCHANGED <<work, hints, disk, got, cache, since, lost, count>> /\ UNCHANGED terms
      BY <1>12 DEF Preflight
    <2> QED
      BY <2>1, <2>2, <2>3, <2>5 DEF GoesOn, TermsOf
  <1>13. ASSUME NEW p \in Procs, Scan(p) PROVE TypeInv'
    <2>1. PICK x \in GoesOn(plan[p]) : plan' = [plan EXCEPT ![p] = x]
      <3>1. PICK whole \in BOOLEAN : whole = Reusable(p)
        BY DEF Reusable
      <3>2. Left(p) \in SUBSET Cards
        BY DEF Left, Plans, Atlases, Nodes
      <3>3. plan' = [plan EXCEPT ![p] = [plan[p] EXCEPT !.seen = work, !.hints = hints,
                                                        !.whole = whole, !.prev = Left(p)]]
        BY <1>13, <3>1 DEF Scan, Scanned
      <3> QED
        <4>1. [plan[p] EXCEPT !.seen = work, !.hints = hints, !.whole = whole, !.prev = Left(p)] \in GoesOn(plan[p])
          BY <3>2, PlanSteps
        <4> QED
          BY <3>3, <4>1
    <2>2. pc' \in [Procs -> Places]
      BY <1>13 DEF Scan, Scanned, Places, Loading, Building, Writing, Publish, Order, Goal
    <2>3. PlanFollowsPlace'
      BY <1>13, <2>1 DEF GoesOn, Scan, Scanned, PlanFollowsPlace, Places, Loading, Building, Writing, Publish, Order, Goal
    <2>5. UNCHANGED <<work, hints, disk, got, cache, since, lost, count>> /\ UNCHANGED terms
      BY <1>13 DEF Scan, Scanned
    <2> QED
      BY <2>1, <2>2, <2>3, <2>5 DEF GoesOn, TermsOf
  <1>14. ASSUME NEW p \in Procs, Rescan(p) PROVE TypeInv'
    <2>1. PICK x \in GoesOn(plan[p]) : plan' = [plan EXCEPT ![p] = x]
      <3>1. PICK whole \in BOOLEAN : whole = Reusable(p)
        BY DEF Reusable
      <3>2. plan' = [plan EXCEPT ![p] = [plan[p] EXCEPT !.seen = work, !.hints = hints,
                                                        !.whole = whole]]
        BY <1>14, <3>1 DEF Rescan
      <3> QED
        <4>1. [plan[p] EXCEPT !.seen = work, !.hints = hints, !.whole = whole] \in GoesOn(plan[p])
          BY PlanSteps
        <4> QED
          BY <3>2, <4>1
    <2>2. pc' \in [Procs -> Places]
      BY <1>14 DEF Rescan, Places, Loading, Building, Writing, Publish, Order, Goal
    <2>3. PlanFollowsPlace'
      BY <1>14, <2>1 DEF GoesOn, Rescan, PlanFollowsPlace, Places, Loading, Building, Writing, Publish, Order, Goal
    <2>5. UNCHANGED <<work, hints, disk, got, cache, since, lost, count>> /\ UNCHANGED terms
      BY <1>14 DEF Rescan
    <2> QED
      BY <2>1, <2>2, <2>3, <2>5 DEF GoesOn, TermsOf
  <1>15. ASSUME NEW p \in Procs, GivesUp(p) PROVE TypeInv'
    <2>1. pc' \in [Procs -> Places]
      BY <1>15 DEF GivesUp, Places, Loading, Building, Writing, Publish, Order, Goal
    <2>2. plan' \in [Procs -> Plans]
      BY <1>15, BlankValues DEF GivesUp
    <2>3. PlanFollowsPlace'
      BY <1>15 DEF GivesUp, PlanFollowsPlace, Loading, Building, Writing, Publish, Order, Goal, NoPlan
    <2> QED
      BY <1>15, <2>1, <2>2, <2>3 DEF GivesUp, TermsOf
  <1>16. ASSUME NEW p \in Procs, Extract(p) PROVE TypeInv'
    <2>1. PICK x \in GoesOn(plan[p]) : plan' = [plan EXCEPT ![p] = x]
      <3> DEFINE texts == {<<f, work[f]>> : f \in {f \in Fresh(p) : work[f] # 0}}
                 old == UNION {OldCard(p, f) : f \in Present(p)}
                 new == {[file |-> f, stat |-> plan[p].seen[f], read |-> work[f]] : f \in Fresh(p)}
                 segs == IF plan[p].whole THEN got[p].meta.segs ELSE {}
      <3>1. texts \in SUBSET Texts
        BY DEF Texts, Fresh, Present
      <3>2. old \in SUBSET Cards
        BY DEF OldCard, Plans
      <3>3. new \in SUBSET Cards
        BY DEF Fresh, Present, Cards, Plans
      <3>4. segs \in SUBSET Segments
        BY DEF Atlases, Metas
      <3>5. plan' = [plan EXCEPT ![p] = [plan[p] EXCEPT !.cards = old \union new, !.texts = texts,
                                                        !.segs = segs]]
        BY <1>16 DEF Extract
      <3> HIDE DEF texts, old, new, segs
      <3>6. old \union new \in SUBSET Cards
        BY <3>2, <3>3
      <3> QED
        <4>1. [plan[p] EXCEPT !.cards = old \union new, !.texts = texts, !.segs = segs] \in GoesOn(plan[p])
          BY <3>1, <3>4, <3>6, PlanSteps
        <4> QED
          BY <3>5, <4>1
    <2>2. pc' \in [Procs -> Places]
      BY <1>16 DEF Extract, Places, Loading, Building, Writing, Publish, Order, Goal
    <2>3. PlanFollowsPlace'
      BY ZenonT(40), <1>16, <2>1 DEF GoesOn, Extract, PlanFollowsPlace, Places, Loading, Building, Writing, Publish, Order, Goal
    <2>4. terms' \in TermsOf /\ terms'.whole \subseteq terms'.dirs
      BY <1>16, BuildsOwnSegments DEF Extract, TermsOf, Building
    <2>5. UNCHANGED <<work, hints, disk, got, cache, since, lost, count>>
      BY <1>16 DEF Extract
    <2> QED
      BY <2>1, <2>2, <2>3, <2>4, <2>5 DEF GoesOn, TermsOf
  <1>17. ASSUME NEW p \in Procs, FinishSegment(p) PROVE TypeInv'
    <2>1. PICK x \in GoesOn(plan[p]) : plan' = [plan EXCEPT ![p] = x]
      <3>1. FreshSegment(p) \in Segments
        BY <1>17, BuildsOwnSegments DEF FinishSegment, Building
      <3> DEFINE segs == plan[p].segs \union {FreshSegment(p)}
      <3>2. segs \in SUBSET Segments
        BY <3>1 DEF Plans
      <3>3. CASE plan' = plan
        BY <3>3 DEF GoesOn
      <3> HIDE DEF segs
      <3>4. CASE plan' = [plan EXCEPT ![p] = [plan[p] EXCEPT !.segs = segs]]
        <4>1. [plan[p] EXCEPT !.segs = segs] \in GoesOn(plan[p])
          BY <3>2, SegmentStep
        <4> QED
          BY <3>4, <4>1
      <3> QED
        BY <1>17, <3>3, <3>4 DEF FinishSegment, segs
    <2>2. pc' \in [Procs -> Places]
      BY <1>17 DEF FinishSegment, Places, Loading, Building, Writing, Publish, Order, Goal
    <2>3. PlanFollowsPlace'
      BY <1>17, <2>1 DEF GoesOn, FinishSegment, PlanFollowsPlace, Places, Loading, Building, Writing, Publish, Order, Goal
    <2>4. terms' \in TermsOf /\ terms'.whole \subseteq terms'.dirs
      <3>1. FreshSegment(p) \in Segments /\ plan[p].texts \in SUBSET Texts
        BY <1>17, BuildsOwnSegments DEF FinishSegment, Building, Plans
      <3>2. CASE UNCHANGED terms
        BY <3>2 DEF TermsOf
      <3>3. CASE /\ FreshSegment(p) \in terms.dirs
                 /\ terms' = [terms EXCEPT !.whole = @ \union {FreshSegment(p)},
                                           !.has[FreshSegment(p)] = plan[p].texts]
        <4>1. terms'.dirs = terms.dirs /\ terms'.whole = terms.whole \union {FreshSegment(p)}
              /\ terms'.has = [terms.has EXCEPT ![FreshSegment(p)] = plan[p].texts]
              /\ terms' = [dirs |-> terms'.dirs, whole |-> terms'.whole, has |-> terms'.has]
          BY <3>3
        <4> QED
          BY <3>1, <3>3, <4>1 DEF TermsOf
      <3> QED
        BY <1>17, <3>2, <3>3 DEF FinishSegment
    <2>5. UNCHANGED <<work, hints, disk, got, cache, since, lost, count>>
      BY <1>17 DEF FinishSegment
    <2> QED
      BY <2>1, <2>2, <2>3, <2>4, <2>5 DEF GoesOn, TermsOf
  <1>18. ASSUME NEW p \in Procs, Pack(p) PROVE TypeInv'
    <2>1. PICK x \in GoesOn(plan[p]) : plan' = [plan EXCEPT ![p] = x]
      <3>1. {PackedSegment(p)} \in SUBSET Segments
        BY <1>18, BuildsOwnSegments DEF Pack, Building
      <3>2. CASE plan' = plan
        BY <3>2 DEF GoesOn
      <3>3. CASE plan' = [plan EXCEPT ![p] = [plan[p] EXCEPT !.segs = {PackedSegment(p)}]]
        <4>1. [plan[p] EXCEPT !.segs = {PackedSegment(p)}] \in GoesOn(plan[p])
          BY <3>1, SegmentStep
        <4> QED
          BY <3>3, <4>1
      <3> QED
        BY <1>18, <3>2, <3>3 DEF Pack
    <2>2. pc' \in [Procs -> Places]
      BY <1>18 DEF Pack, Places, Loading, Building, Writing, Publish, Order, Goal
    <2>3. PlanFollowsPlace'
      BY <1>18, <2>1 DEF GoesOn, Pack, PlanFollowsPlace, Places, Loading, Building, Writing, Publish, Order, Goal
    <2>4. terms' \in TermsOf /\ terms'.whole \subseteq terms'.dirs
      <3> DEFINE texts == UNION {terms.has[s] : s \in plan[p].segs \cap terms.whole}
      <3>1. PackedSegment(p) \in Segments
        BY <1>18, BuildsOwnSegments DEF Pack, Building
      <3>2. texts \in SUBSET Texts
        OBVIOUS
      <3>3. \/ terms' = [dirs |-> terms.dirs \union {PackedSegment(p)},
                         whole |-> terms.whole \union {PackedSegment(p)},
                         has |-> [terms.has EXCEPT ![PackedSegment(p)] = texts]]
            \/ terms' = terms
        BY <1>18 DEF Pack
      <3> HIDE DEF texts
      <3> QED
        BY <3>1, <3>2, <3>3 DEF TermsOf
    <2>5. UNCHANGED <<work, hints, disk, got, cache, since, lost, count>>
      BY <1>18 DEF Pack
    <2> QED
      BY <2>1, <2>2, <2>3, <2>4, <2>5 DEF GoesOn, TermsOf
  <1>19. ASSUME NEW p \in Procs, WriteNodes(p) PROVE TypeInv'
    <2>1. pc' \in [Procs -> Places]
      BY <1>19 DEF WriteNodes, Writes, Places, Loading, Building, Writing, Publish, Order, Goal
    <2>2. disk' \in Atlases
      BY <1>19 DEF WriteNodes, Writes, Plans, Atlases, Metas, Nodes
    <2>3. PlanFollowsPlace'
      BY <1>19 DEF WriteNodes, Writes, PlanFollowsPlace, Loading, Building, Writing, Publish, Order, Goal
    <2> QED
      BY <1>19, <2>1, <2>2, <2>3 DEF WriteNodes, Writes, TermsOf
  <1>20. ASSUME NEW p \in Procs, WriteIncludes(p) PROVE TypeInv'
    <2>1. pc' \in [Procs -> Places]
      BY <1>20 DEF WriteIncludes, Writes, Places, Loading, Building, Writing, Publish, Order, Goal
    <2>2. disk' \in Atlases
      BY <1>20 DEF WriteIncludes, Writes, Plans, Atlases, Metas, Nodes
    <2>3. PlanFollowsPlace'
      BY <1>20 DEF WriteIncludes, Writes, PlanFollowsPlace, Loading, Building, Writing, Publish, Order, Goal
    <2> QED
      BY <1>20, <2>1, <2>2, <2>3 DEF WriteIncludes, Writes, TermsOf
  <1>21. ASSUME NEW p \in Procs, WriteEdges(p) PROVE TypeInv'
    <2>1. pc' \in [Procs -> Places]
      BY <1>21 DEF WriteEdges, Writes, Places, Loading, Building, Writing, Publish, Order, Goal
    <2>2. disk' \in Atlases
      BY <1>21 DEF WriteEdges, Writes, Plans, Atlases, Metas, Nodes
    <2>3. PlanFollowsPlace'
      BY <1>21 DEF WriteEdges, Writes, PlanFollowsPlace, Loading, Building, Writing, Publish, Order, Goal
    <2> QED
      BY <1>21, <2>1, <2>2, <2>3 DEF WriteEdges, Writes, TermsOf
  <1>22. ASSUME NEW p \in Procs, WriteIndex(p) PROVE TypeInv'
    <2>1. pc' \in [Procs -> Places]
      BY <1>22 DEF WriteIndex, Writes, Places, Loading, Building, Writing, Publish, Order, Goal
    <2>2. disk' \in Atlases
      BY <1>22 DEF WriteIndex, Writes, Plans, Atlases, Metas, Nodes
    <2>3. PlanFollowsPlace'
      BY <1>22 DEF WriteIndex, Writes, PlanFollowsPlace, Loading, Building, Writing, Publish, Order, Goal
    <2> QED
      BY <1>22, <2>1, <2>2, <2>3 DEF WriteIndex, Writes, TermsOf
  <1>23. ASSUME NEW p \in Procs, WriteMeta(p) PROVE TypeInv'
    <2>1. pc' \in [Procs -> Places]
      BY <1>23 DEF WriteMeta, Writes, NewMeta, Places, Loading, Building, Writing, Publish, Order, Goal
    <2>2. disk' \in Atlases
      BY <1>23 DEF WriteMeta, Writes, NewMeta, Plans, Atlases, Metas, Nodes
    <2>3. since' \in [Procs -> SUBSET Nat]
      BY <1>23 DEF WriteMeta, Writes, NewMeta, Plans
    <2>4. PlanFollowsPlace'
      BY <1>23 DEF WriteMeta, Writes, NewMeta, PlanFollowsPlace, Loading, Building, Writing, Publish, Order, Goal
    <2> QED
      BY <1>23, <2>1, <2>2, <2>3, <2>4 DEF WriteMeta, Writes, NewMeta, TermsOf
  <1>24. ASSUME NEW p \in Procs, Prune(p) PROVE TypeInv'
    <2>1. pc' \in [Procs -> Places]
      BY <1>24 DEF Prune, Places, Loading, Building, Writing, Publish, Order, Goal
    <2>2. terms' \in TermsOf /\ terms'.whole \subseteq terms'.dirs
      BY <1>24 DEF Prune, TermsOf
    <2>3. PlanFollowsPlace'
      BY <1>24 DEF Prune, PlanFollowsPlace, Loading, Building, Writing, Publish, Order, Goal
    <2> QED
      BY <1>24, <2>1, <2>2, <2>3 DEF Prune, TermsOf
  <1>25. ASSUME NEW p \in Procs, PrunesSome(p) PROVE TypeInv'
    <2>1. pc' \in [Procs -> Places]
      BY <1>25 DEF PrunesSome, Trouble, Places, Loading, Building, Writing, Publish, Order, Goal
    <2>2. terms' \in TermsOf /\ terms'.whole \subseteq terms'.dirs
      BY ZenonT(40), <1>25 DEF PrunesSome, Trouble, TermsOf
    <2>3. count' \in [builds : Nat, queries : Nat, edits : Nat, trouble : Nat]
      BY <1>25 DEF PrunesSome, Trouble
    <2>4. PlanFollowsPlace'
      BY <1>25 DEF PrunesSome, Trouble, PlanFollowsPlace, Loading, Building, Writing, Publish, Order, Goal
    <2> QED
      BY <1>25, <2>1, <2>2, <2>3, <2>4 DEF PrunesSome, Trouble, TermsOf
  <1>26. ASSUME NEW p \in Procs, Seed(p) PROVE TypeInv'
    <2>1. pc' \in [Procs -> Places]
      BY <1>26 DEF Seed, Places, Loading, Building, Writing, Publish, Order, Goal
    <2>2. cache' \in [Procs -> Entries]
      <3>1. /\ Result(p) \in Atlases /\ NoAtlas \in Atlases /\ StatKeys \in Nat \X Nat \X Nat
            /\ NewMeta(p) \in Metas /\ disk.meta.build \in Nat
        BY BlankValues, ResultIsAtlas DEF StatKeys, Atlases, Metas, Nodes, Plans, NewMeta
      <3>2. Seeded(p, Result(p), StatKeys) \in Entries /\ Seeded(p, NoAtlas, NoKeys) \in Entries
        BY <3>1 DEF Seeded, Entries, NoKeys
      <3> QED
        BY <1>26, <3>2 DEF Seed
    <2>3. plan' \in [Procs -> Plans]
      BY <1>26, BlankValues DEF Seed
    <2>4. got' \in [Procs -> Atlases]
      BY <1>26, BlankValues DEF Seed
    <2>5. PlanFollowsPlace'
      BY <1>26 DEF Seed, PlanFollowsPlace, Loading, Building, Writing, Publish, Order, Goal, NoPlan
    <2> QED
      BY <1>26, <2>1, <2>2, <2>3, <2>4, <2>5 DEF Seed, TermsOf
  <1>27. ASSUME NEW p \in Procs, Throws(p) PROVE TypeInv'
    <2>1. pc' \in [Procs -> Places]
      BY <1>27 DEF Throws, Trouble, Places, Loading, Building, Writing, Publish, Order, Goal
    <2>2. plan' \in [Procs -> Plans]
      BY <1>27, BlankValues DEF Throws, Trouble
    <2>3. count' \in [builds : Nat, queries : Nat, edits : Nat, trouble : Nat]
      BY <1>27 DEF Throws, Trouble
    <2>4. PlanFollowsPlace'
      BY <1>27 DEF Throws, Trouble, PlanFollowsPlace, Loading, Building, Writing, Publish, Order, Goal, NoPlan
    <2> QED
      BY <1>27, <2>1, <2>2, <2>3, <2>4 DEF Throws, Trouble, TermsOf
  <1>28. ASSUME NEW p \in Procs, Dies(p) PROVE TypeInv'
    <2>1. pc' \in [Procs -> Places]
      BY <1>28 DEF Dies, Trouble, Places, Loading, Building, Writing, Publish, Order, Goal
    <2>2. plan' \in [Procs -> Plans]
      BY <1>28, BlankValues DEF Dies, Trouble
    <2>3. got' \in [Procs -> Atlases]
      BY <1>28, BlankValues DEF Dies, Trouble
    <2>4. cache' \in [Procs -> Entries]
      BY <1>28, BlankValues DEF Dies, Trouble
    <2>5. count' \in [builds : Nat, queries : Nat, edits : Nat, trouble : Nat]
      BY <1>28 DEF Dies, Trouble
    <2>6. PlanFollowsPlace'
      BY <1>28 DEF Dies, Trouble, PlanFollowsPlace, Loading, Building, Writing, Publish, Order, Goal, NoPlan
    <2> QED
      BY <1>28, <2>1, <2>2, <2>3, <2>4, <2>5, <2>6 DEF Dies, Trouble, TermsOf
  <1>29. CASE Deletes
    <2>1. PICK s \in terms.whole :
              /\ terms' = [terms EXCEPT !.dirs = @ \ {s}, !.whole = @ \ {s}]
              /\ lost' = lost \union {s}
      BY <1>29 DEF Deletes
    <2>2. count' \in [builds : Nat, queries : Nat, edits : Nat, trouble : Nat]
      BY <1>29 DEF Deletes, Trouble
    <2> QED
      BY <1>29, <2>1, <2>2 DEF Deletes, PlanFollowsPlace
  <1>30. CASE EditFile
    BY <1>30 DEF EditFile, Edit, PlanFollowsPlace
  <1>31. CASE EditHints
    BY <1>31 DEF EditHints, Edit, PlanFollowsPlace
  <1>32. CASE UNCHANGED vars
    BY <1>32 DEF vars, PlanFollowsPlace
  <1> QED
    BY <1>1, <1>2, <1>3, <1>4, <1>5, <1>6, <1>7, <1>8, <1>9, <1>10, <1>11, <1>12, <1>13, <1>14, <1>15, <1>16, <1>17, <1>18, <1>19, <1>20, <1>21, <1>22, <1>23, <1>24, <1>25, <1>26, <1>27, <1>28, <1>29, <1>30, <1>31, <1>32,
       <1>33 DEF Next, Load, Query, Build, Publishing

\* TypeOK holds: every value a process reads, keeps, plans or writes has its type; in particular
\* each segment carries the number of a build.
THEOREM AtlasTypeCorrect == Spec => []TypeOK
  <1> QED
    BY InitTypes, TypeStep, PTL DEF Spec, TypeInv

\* ------------------------------------------------------------------ loads
LEMMA LoadsStep == TypeInv /\ (~SideBySide => Commits) /\ Loads /\ [Next]_vars => Loads'
  <1> SUFFICES ASSUME TypeInv, ~SideBySide => Commits, Loads, [Next]_vars PROVE Loads'
    OBVIOUS
  <1>0. /\ pc \in [Procs -> Places] /\ got \in [Procs -> Atlases] /\ cache \in [Procs -> Entries]
        /\ plan \in [Procs -> Plans] /\ since \in [Procs -> SUBSET Nat] /\ disk \in Atlases
    BY DEF TypeInv, TypeOK
  <1> USE DEF Loads, WatchesMeta, HasCommitted, HasOneBuild, CacheHasOneBuild, OneBuild, Step, Shared, Own
  <1>1. ASSUME NEW p \in Procs, BeginQuery(p) PROVE Loads'
    BY <1>0, <1>1 DEF BeginQuery, Opened, Writing, Publish, Order, Atlases, Entries
  <1>2. ASSUME NEW p \in Procs, BeginBuild(p) PROVE Loads'
    <2>1. NoAtlas.meta.build = 0
      BY DEF NoAtlas, NoMeta
    <2>2. /\ got' = [got EXCEPT ![p] = NoAtlas]
          /\ since' = [since EXCEPT ![p] = {disk.meta.build}]
          /\ UNCHANGED <<disk, cache>>
          /\ \A q \in Procs \ {p} : pc'[q] = pc[q]
      BY <1>0, <1>2 DEF BeginBuild, Opened
    <2> QED
      BY <1>0, <2>1, <2>2
  <1>3. ASSUME NEW p \in Procs, StatMeta(p) PROVE Loads'
    <2>1. NoAtlas.meta.build = 0 /\ \A x : [NoAtlas EXCEPT !.meta = x].meta = x
      BY DEF NoAtlas, NoMeta
    <2>2. /\ pc[p] = "meta" /\ UNCHANGED <<disk, since>>
          /\ \A q \in Procs \ {p} : pc'[q] = pc[q] /\ got'[q] = got[q]
          /\ \A q \in Procs : cache'[q].atlas = cache[q].atlas
      BY SMTT(40), <1>0, <1>3 DEF StatMeta, Reads, Entries
    <2>3. \/ got'[p] = NoAtlas /\ pc'[p] \in {"query", "preflight"}
          \/ /\ pc'[p] = "cached" /\ got'[p] = [NoAtlas EXCEPT !.meta = cache[p].meta]
             /\ disk.meta.build # 0 /\ cache[p].key = disk.meta.build
          \/ pc'[p] = "readMeta" /\ got'[p] = got[p]
      BY <1>0, <1>3 DEF StatMeta, MetaHits, Reads, Goal
    <2>4. ~SideBySide /\ pc'[p] = "cached" => got'[p].meta = disk.meta
      BY <2>1, <2>2, <2>3 DEF Commits, Numbering, KnownMetas, KeyTells
    <2> QED
      BY ZenonT(40), <1>0, <2>1, <2>2, <2>3, <2>4
  <1>33. ASSUME NEW p \in Procs, ReadMeta(p) PROVE Loads'
    <2>1. [NoAtlas EXCEPT !.meta = disk.meta].meta = disk.meta
      BY DEF NoAtlas
    <2>2. /\ pc[p] = "readMeta" /\ pc'[p] = "cached" /\ UNCHANGED <<disk, since>>
          /\ got'[p] = [NoAtlas EXCEPT !.meta = disk.meta]
          /\ \A q \in Procs \ {p} : pc'[q] = pc[q] /\ got'[q] = got[q]
          /\ \A q \in Procs : cache'[q].atlas = cache[q].atlas
      BY <1>0, <1>33 DEF ReadMeta, Entries
    <2>3. got'[p].meta = disk.meta /\ disk'.meta = disk.meta /\ since'[p] = since[p]
      BY <1>0, <2>1, <2>2
    <2>4. WatchesMeta(p)' /\ HasCommitted(p)' /\ HasOneBuild(p)'
      BY <2>2, <2>3
    <2>5. ASSUME NEW q \in Procs \ {p}
          PROVE  WatchesMeta(q)' /\ HasCommitted(q)' /\ HasOneBuild(q)'
      BY <2>2, <2>5
    <2>6. ASSUME NEW q \in Procs
          PROVE  CacheHasOneBuild(q)'
      BY <2>2, <2>6
    <2> QED
      BY <2>4, <2>5, <2>6
  <1>4. ASSUME NEW p \in Procs, UseCached(p) PROVE Loads'
    BY <1>0, <1>4 DEF UseCached, Reads, Goal, Writing, Publish, Order, Atlases, Entries, CacheHits
  <1>5. ASSUME NEW p \in Procs, ReadOn(p) PROVE Loads'
    BY <1>0, <1>5 DEF ReadOn, Reads, Writing, Publish, Order, Atlases, Entries
  <1>6. ASSUME NEW p \in Procs, ReadNodes(p) PROVE Loads'
    BY <1>0, <1>6 DEF ReadNodes, Reads, Writing, Publish, Order, Atlases, Entries
  <1>7. ASSUME NEW p \in Procs, ReadEdges(p) PROVE Loads'
    BY <1>0, <1>7 DEF ReadEdges, Reads, Writing, Publish, Order, Atlases, Entries
  <1>8. ASSUME NEW p \in Procs, ReadIndex(p) PROVE Loads'
    <2> DEFINE atlas == [got[p] EXCEPT !.index = disk.index]
    <2>1. NoAtlas.meta.build = 0 /\ atlas.meta = got[p].meta
      BY <1>0 DEF NoAtlas, NoMeta, Atlases
    <2>2. Agree(atlas) => OneBuild(atlas)
      BY DEF Agree
    <2>3. pc[p] = "index" /\ UNCHANGED <<disk, cache, since>>
      BY <1>8 DEF ReadIndex, Reads
    <2>4. \/ Agree(atlas) /\ Reads(p, "index", "keep", atlas)
          \/ Reads(p, "index", Goal(p), NoAtlas)
      BY <1>8 DEF ReadIndex
    <2> HIDE DEF atlas, OneBuild
    <2>5. /\ pc'[p] \in {"keep", "query", "preflight"}
          /\ got'[p] = NoAtlas \/ (got'[p] = atlas /\ Agree(atlas))
          /\ \A q \in Procs \ {p} : pc'[q] = pc[q] /\ got'[q] = got[q]
      <3>1. CASE Agree(atlas) /\ Reads(p, "index", "keep", atlas)
        BY <1>0, <3>1 DEF Reads
      <3>2. CASE Reads(p, "index", Goal(p), NoAtlas)
        <4>1. Goal(p) \in {"query", "preflight"}
          BY DEF Goal
        <4>2. got' = [got EXCEPT ![p] = NoAtlas] /\ pc' = [pc EXCEPT ![p] = Goal(p)]
          BY <3>2 DEF Reads
        <4> QED
          BY <1>0, <4>1, <4>2
      <3> QED
        BY <2>4, <3>1, <3>2
    <2> QED
      BY <1>0, <2>1, <2>2, <2>3, <2>5
  <1>9. ASSUME NEW p \in Procs, Remember(p) PROVE Loads'
    <2>1. NoAtlas.meta.build = 0
      BY DEF NoAtlas, NoMeta
    <2>2. /\ pc[p] = "keep" /\ UNCHANGED <<disk, got, since>>
          /\ pc'[p] \in {"query", "preflight"}
          /\ \A q \in Procs \ {p} : pc'[q] = pc[q] /\ cache'[q] = cache[q]
      BY <1>0, <1>9 DEF Remember, Goal
    <2>3. cache'[p].atlas \in {NoAtlas, got[p]}
      BY <1>0, <1>9 DEF Remember, Entries
    <2> QED
      BY ZenonT(40), <1>0, <2>1, <2>2, <2>3
  <1>10. ASSUME NEW p \in Procs, JoinIncludes(p) PROVE Loads'
    <2> DEFINE joined(a) == [a EXCEPT !.includes = disk.includes]
    <2>1. \A a \in Atlases : joined(a).meta = a.meta /\ (OneBuild(a) => OneBuild(joined(a)))
      BY DEF Atlases
    <2>2. UNCHANGED <<disk, pc, since>> /\ got' = [got EXCEPT ![p] = joined(got[p])]
      BY <1>10 DEF JoinIncludes
    <2>3. \A q \in Procs : cache'[q].atlas \in {cache[q].atlas, joined(cache[q].atlas)}
      BY <1>0, <1>10 DEF JoinIncludes, Entries
    <2>4. \A q \in Procs : cache[q].atlas \in Atlases
      BY <1>0 DEF Entries
    <2> HIDE DEF joined, OneBuild
    <2> QED
      BY <1>0, <2>1, <2>2, <2>3, <2>4
  <1>11. ASSUME NEW p \in Procs, EndQuery(p) PROVE Loads'
    BY <1>0, <1>11 DEF EndQuery, Writing, Publish, Order, Atlases, Entries
  <1>12. ASSUME NEW p \in Procs, Preflight(p) PROVE Loads'
    BY <1>0, <1>12 DEF Preflight, Writing, Publish, Order, Atlases, Entries
  <1>13. ASSUME NEW p \in Procs, Scan(p) PROVE Loads'
    BY <1>0, <1>13 DEF Scan, Scanned, Writing, Publish, Order, Atlases, Entries
  <1>14. ASSUME NEW p \in Procs, Rescan(p) PROVE Loads'
    BY <1>0, <1>14 DEF Rescan, Writing, Publish, Order, Atlases, Entries
  <1>15. ASSUME NEW p \in Procs, GivesUp(p) PROVE Loads'
    BY <1>0, <1>15 DEF GivesUp, Writing, Publish, Order, Atlases, Entries
  <1>16. ASSUME NEW p \in Procs, Extract(p) PROVE Loads'
    BY <1>0, <1>16 DEF Extract, Writing, Publish, Order, Atlases, Entries
  <1>17. ASSUME NEW p \in Procs, FinishSegment(p) PROVE Loads'
    BY <1>0, <1>17 DEF FinishSegment, Writing, Publish, Order, Atlases, Entries
  <1>18. ASSUME NEW p \in Procs, Pack(p) PROVE Loads'
    BY <1>0, <1>18 DEF Pack, Writing, Publish, Order, Atlases, Entries
  <1>19. ASSUME NEW p \in Procs, WriteNodes(p) PROVE Loads'
    BY <1>0, <1>19 DEF WriteNodes, Writes, Writing, Publish, Order, Atlases, Entries
  <1>20. ASSUME NEW p \in Procs, WriteIncludes(p) PROVE Loads'
    BY <1>0, <1>20 DEF WriteIncludes, Writes, Writing, Publish, Order, Atlases, Entries
  <1>21. ASSUME NEW p \in Procs, WriteEdges(p) PROVE Loads'
    BY <1>0, <1>21 DEF WriteEdges, Writes, Writing, Publish, Order, Atlases, Entries
  <1>22. ASSUME NEW p \in Procs, WriteIndex(p) PROVE Loads'
    BY <1>0, <1>22 DEF WriteIndex, Writes, Writing, Publish, Order, Atlases, Entries
  <1>23. ASSUME NEW p \in Procs, WriteMeta(p) PROVE Loads'
    BY <1>0, <1>23 DEF WriteMeta, Writes, NewMeta, Writing, Publish, Order, Atlases, Entries
  <1>24. ASSUME NEW p \in Procs, Prune(p) PROVE Loads'
    BY <1>0, <1>24 DEF Prune, Writing, Publish, Order, Atlases, Entries
  <1>25. ASSUME NEW p \in Procs, PrunesSome(p) PROVE Loads'
    BY <1>0, <1>25 DEF PrunesSome, Trouble, Writing, Publish, Order, Atlases, Entries
  <1>26. ASSUME NEW p \in Procs, Seed(p) PROVE Loads'
    <2>1. NoAtlas.meta.build = 0 /\ OneBuild(Result(p))
      BY DEF NoAtlas, NoMeta, Result, NewMeta
    <2>2. /\ UNCHANGED <<disk, since>> /\ pc'[p] = "idle"
          /\ \A q \in Procs \ {p} : pc'[q] = pc[q] /\ got'[q] = got[q] /\ cache'[q] = cache[q]
      BY <1>0, <1>26 DEF Seed, Publish, Order
    <2>3. cache'[p].atlas \in {NoAtlas, Result(p)}
      BY <1>0, <1>26 DEF Seed, Seeded
    <2> QED
      BY ZenonT(40), <1>0, <2>1, <2>2, <2>3
  <1>27. ASSUME NEW p \in Procs, Throws(p) PROVE Loads'
    BY <1>0, <1>27 DEF Throws, Trouble, Writing, Publish, Order, Atlases, Entries
  <1>28. ASSUME NEW p \in Procs, Dies(p) PROVE Loads'
    BY <1>0, <1>28 DEF Dies, Trouble, Writing, Publish, Order, Atlases, Entries, NoEntry, NoKeys, NoAtlas, NoMeta
  <1>29. CASE Deletes
    BY <1>29 DEF Deletes, Trouble
  <1>30. CASE EditFile
    BY <1>30 DEF EditFile, Edit
  <1>31. CASE EditHints
    BY <1>31 DEF EditHints, Edit
  <1>32. CASE UNCHANGED vars
    BY <1>32 DEF vars
  <1> QED
    BY <1>1, <1>2, <1>3, <1>4, <1>5, <1>6, <1>7, <1>8, <1>9, <1>10, <1>11, <1>12, <1>13, <1>14, <1>15, <1>16, <1>17, <1>18, <1>19, <1>20, <1>21, <1>22, <1>23, <1>24, <1>25, <1>26, <1>27, <1>28, <1>29, <1>30, <1>31, <1>32,
       <1>33 DEF Next, Load, Query, Build, Publishing

LEMMA LoadsStart == Init => Loads
    BY DEF Init, Loads, WatchesMeta, HasCommitted, HasOneBuild, CacheHasOneBuild,
           NoEntry, NoKeys, NoAtlas, NoMeta

\* ---------------------------------------------------------------- commits

LEMMA CommitsStep == TypeInv /\ Commits /\ ~SideBySide /\ [Next]_vars => Commits'
  <1> SUFFICES ASSUME TypeInv, Commits, ~SideBySide, [Next]_vars PROVE Commits'
    OBVIOUS
  <1>0. /\ pc \in [Procs -> Places] /\ got \in [Procs -> Atlases] /\ cache \in [Procs -> Entries]
        /\ plan \in [Procs -> Plans] /\ disk \in Atlases
        /\ terms \in TermsOf /\ terms.whole \subseteq terms.dirs
        /\ count \in [builds : Nat, queries : Nat, edits : Nat, trouble : Nat]
        /\ PlanFollowsPlace
    BY DEF TypeInv, TypeOK, TermsOf
  <1>a. /\ count.builds \in Nat /\ disk.meta.build \in Nat
        /\ \A q \in Procs : /\ plan[q].build \in Nat /\ got[q].meta.build \in Nat
                             /\ cache[q].atlas.meta.build \in Nat /\ cache[q].key \in Nat
    BY <1>0 DEF Atlases, Metas, Entries, Plans
  <1> USE DEF Commits, Step, Shared, Own
  <1>1. ASSUME NEW p \in Procs, BeginQuery(p) PROVE Commits'
    <2>1. Numbering'
      BY <1>0, <1>1 DEF BeginQuery, Opened, Numbering, OneBuilder, NumbersKnown, KnownMetas, SameMeta, KeyTells, NotYetKnown, NoAtlas, NoMeta, NoPlan, PlanFollowsPlace,
         Building, Writing, Publish, Order, Atlases, Entries, Plans
    <2>2. Sources'
      BY <1>0, <1>1 DEF BeginQuery, Opened, Sources, StartsFromMeta, Numbering, KnownMetas, SameMeta, KeyTells, NoAtlas, NoMeta, NoPlan, PlanFollowsPlace,
         Publish, Order, Atlases, Entries, Plans
    <2>3. Committed'
      BY <1>0, <1>1 DEF BeginQuery, Opened, Committed, NamesWhatIsThere, CommittedIsIts, NewMeta, CommittedSegmentsStay, NoAtlas, NoMeta, NoPlan,
         Writing, Publish, Order, Atlases, Plans
    <2> QED
      BY <2>1, <2>2, <2>3
  <1>2. ASSUME NEW p \in Procs, BeginBuild(p) PROVE Commits'
    <2>1. /\ plan'[p].build = count.builds + 1 /\ count'.builds = count.builds + 1
          /\ \A q \in Procs : plan[q].build = 0
          /\ \A q \in Procs \ {p} : plan'[q] = plan[q] /\ pc'[q] = pc[q] /\ got'[q] = got[q]
          /\ pc[p] = "idle" /\ pc'[p] \in {"preflight", "meta"}
          /\ got'[p].meta.build = 0
          /\ UNCHANGED <<disk, cache, terms, lost>>
      BY <1>0, <1>2 DEF BeginBuild, Opened, Alone, NoPlan, NoAtlas, NoMeta, Plans
    <2>2. Numbering'
      <3>1. NumbersKnown'
        BY <1>a, <2>1 DEF Numbering, NumbersKnown
      <3>2. OneBuilder' /\ KnownMetas'
        BY <2>1 DEF Numbering, OneBuilder, KnownMetas, SameMeta, KeyTells
      <3>3. \A q \in Procs : NotYetKnown(q)'
        BY <1>a, <2>1 DEF Numbering, OneBuilder, NumbersKnown, NotYetKnown
      <3> QED
        BY <3>1, <3>2, <3>3 DEF Numbering
    <2>3. Sources'
      BY <2>1 DEF Sources, StartsFromMeta, Numbering, KnownMetas, SameMeta, KeyTells
    <2>4. Committed'
      BY <2>1 DEF Committed, NamesWhatIsThere, CommittedIsIts, NewMeta, CommittedSegmentsStay, Building, Writing
    <2> QED
      BY <2>2, <2>3, <2>4
  <1>3. ASSUME NEW p \in Procs, StatMeta(p) PROVE Commits'
    <2>1. NoAtlas.meta.build = 0 /\ \A x : [NoAtlas EXCEPT !.meta = x].meta = x
      BY DEF NoAtlas, NoMeta
    <2>2. /\ UNCHANGED <<disk, plan, terms, lost, count>> /\ pc[p] = "meta"
          /\ pc'[p] \in {"readMeta", "cached", "query", "preflight"}
          /\ \A q \in Procs : cache'[q].atlas = cache[q].atlas
          /\ \A q \in Procs \ {p} : pc'[q] = pc[q] /\ got'[q] = got[q] /\ cache'[q] = cache[q]
          /\ \/ cache'[p] = cache[p]
             \/ cache'[p].key = disk.meta.build /\ pc'[p] = "readMeta"
      BY <1>0, <1>3 DEF StatMeta, Reads, Goal, Entries
    <2>3. \/ got'[p].meta.build = 0 \/ got'[p].meta = disk.meta
          \/ got'[p] = got[p] /\ pc'[p] = "readMeta"
      <3>1. \/ got'[p] = NoAtlas
            \/ /\ got'[p] = [NoAtlas EXCEPT !.meta = cache[p].meta]
               /\ disk.meta.build # 0 /\ cache[p].key = disk.meta.build
            \/ got'[p] = got[p] /\ pc'[p] = "readMeta"
        BY <1>0, <1>3 DEF StatMeta, MetaHits, Reads
      <3>2. cache[p].key # 0 /\ cache[p].key = disk.meta.build => cache[p].meta = disk.meta
        <4>1. KeyTells(p)
          BY DEF Commits, Numbering, KnownMetas
        <4> QED
          BY <2>2, <4>1 DEF KeyTells
      <3> QED
        BY <2>1, <3>1, <3>2
    <2>4. Numbering'
      <3>1. NumbersKnown'
        BY <1>a, <2>2, <2>3 DEF Numbering, NumbersKnown
      <3>2. OneBuilder' /\ KnownMetas'
        BY <2>2, <2>3 DEF Numbering, OneBuilder, KnownMetas, SameMeta, KeyTells
      <3>3. \A q \in Procs : NotYetKnown(q)'
        BY <1>a, <2>2, <2>3 DEF Numbering, OneBuilder, NumbersKnown, NotYetKnown
      <3> QED
        BY <3>1, <3>2, <3>3 DEF Numbering
    <2>5. Sources'
      BY <2>2, <2>3 DEF Sources, StartsFromMeta, Numbering, KnownMetas, SameMeta, KeyTells
    <2>6. Committed'
      BY <2>2 DEF Committed, NamesWhatIsThere, CommittedIsIts, NewMeta, CommittedSegmentsStay, Writing
    <2> QED
      BY <2>4, <2>5, <2>6
  <1>33. ASSUME NEW p \in Procs, ReadMeta(p) PROVE Commits'
    <2>1. [NoAtlas EXCEPT !.meta = disk.meta].meta = disk.meta
      BY DEF NoAtlas
    <2>2. /\ UNCHANGED <<disk, plan, terms, lost, count>>
          /\ pc[p] = "readMeta" /\ pc'[p] = "cached"
          /\ \A q \in Procs : cache'[q].atlas = cache[q].atlas /\ cache'[q].key = cache[q].key
          /\ \A q \in Procs \ {p} : pc'[q] = pc[q] /\ got'[q] = got[q] /\ cache'[q] = cache[q]
      BY <1>0, <1>33 DEF ReadMeta, Entries
    <2>3. got'[p].meta = disk.meta /\ cache'[p].meta = disk.meta
      BY <1>0, <1>33, <2>1 DEF ReadMeta, Entries
    <2>4. Numbering'
      <3>1. NumbersKnown'
        BY <1>a, <2>2, <2>3 DEF Numbering, NumbersKnown
      <3>2. OneBuilder' /\ KnownMetas'
        BY <2>2, <2>3 DEF Numbering, OneBuilder, KnownMetas, SameMeta, KeyTells
      <3>3. \A q \in Procs : NotYetKnown(q)'
        BY <1>a, <2>2, <2>3 DEF Numbering, OneBuilder, NumbersKnown, NotYetKnown
      <3> QED
        BY <3>1, <3>2, <3>3 DEF Numbering
    <2>5. Sources'
      BY <2>2, <2>3 DEF Sources, StartsFromMeta, Numbering, KnownMetas, SameMeta, KeyTells
    <2>6. Committed'
      BY <2>2 DEF Committed, NamesWhatIsThere, CommittedIsIts, NewMeta, CommittedSegmentsStay, Writing
    <2> QED
      BY <2>4, <2>5, <2>6
  <1>4. ASSUME NEW p \in Procs, UseCached(p) PROVE Commits'
    <2>1. Numbering'
      BY <1>0, <1>4 DEF UseCached, Reads, Goal, Numbering, OneBuilder, NumbersKnown, KnownMetas, SameMeta, KeyTells, NotYetKnown, CacheHits, PlanFollowsPlace,
         Building, Writing, Publish, Order, Atlases, Entries, Plans
    <2>2. Sources'
      BY <1>0, <1>4 DEF UseCached, Reads, Goal, Sources, StartsFromMeta, Numbering, KnownMetas, SameMeta, KeyTells, CacheHits, PlanFollowsPlace,
         Publish, Order, Atlases, Entries, Plans
    <2>3. Committed'
      BY <1>0, <1>4 DEF UseCached, Reads, Goal, Committed, NamesWhatIsThere, CommittedIsIts, NewMeta, CommittedSegmentsStay, CacheHits,
         Writing, Publish, Order, Atlases, Plans
    <2> QED
      BY <2>1, <2>2, <2>3
  <1>5. ASSUME NEW p \in Procs, ReadOn(p) PROVE Commits'
    <2>1. Numbering'
      BY <1>0, <1>5 DEF ReadOn, Reads, Numbering, OneBuilder, NumbersKnown, KnownMetas, SameMeta, KeyTells, NotYetKnown, PlanFollowsPlace,
         Building, Writing, Publish, Order, Atlases, Entries, Plans
    <2>2. Sources'
      BY <1>0, <1>5 DEF ReadOn, Reads, Sources, StartsFromMeta, Numbering, KnownMetas, SameMeta, KeyTells, PlanFollowsPlace,
         Publish, Order, Atlases, Entries, Plans
    <2>3. Committed'
      BY <1>0, <1>5 DEF ReadOn, Reads, Committed, NamesWhatIsThere, CommittedIsIts, NewMeta, CommittedSegmentsStay,
         Writing, Publish, Order, Atlases, Plans
    <2> QED
      BY <2>1, <2>2, <2>3
  <1>6. ASSUME NEW p \in Procs, ReadNodes(p) PROVE Commits'
    <2>1. Numbering'
      BY <1>0, <1>6 DEF ReadNodes, Reads, Numbering, OneBuilder, NumbersKnown, KnownMetas, SameMeta, KeyTells, NotYetKnown, PlanFollowsPlace,
         Building, Writing, Publish, Order, Atlases, Entries, Plans
    <2>2. Sources'
      BY <1>0, <1>6 DEF ReadNodes, Reads, Sources, StartsFromMeta, Numbering, KnownMetas, SameMeta, KeyTells, PlanFollowsPlace,
         Publish, Order, Atlases, Entries, Plans
    <2>3. Committed'
      BY <1>0, <1>6 DEF ReadNodes, Reads, Committed, NamesWhatIsThere, CommittedIsIts, NewMeta, CommittedSegmentsStay,
         Writing, Publish, Order, Atlases, Plans
    <2> QED
      BY <2>1, <2>2, <2>3
  <1>7. ASSUME NEW p \in Procs, ReadEdges(p) PROVE Commits'
    <2>1. Numbering'
      BY <1>0, <1>7 DEF ReadEdges, Reads, Numbering, OneBuilder, NumbersKnown, KnownMetas, SameMeta, KeyTells, NotYetKnown, PlanFollowsPlace,
         Building, Writing, Publish, Order, Atlases, Entries, Plans
    <2>2. Sources'
      BY <1>0, <1>7 DEF ReadEdges, Reads, Sources, StartsFromMeta, Numbering, KnownMetas, SameMeta, KeyTells, PlanFollowsPlace,
         Publish, Order, Atlases, Entries, Plans
    <2>3. Committed'
      BY <1>0, <1>7 DEF ReadEdges, Reads, Committed, NamesWhatIsThere, CommittedIsIts, NewMeta, CommittedSegmentsStay,
         Writing, Publish, Order, Atlases, Plans
    <2> QED
      BY <2>1, <2>2, <2>3
  <1>8. ASSUME NEW p \in Procs, ReadIndex(p) PROVE Commits'
    <2>1. NoAtlas.meta.build = 0 /\ [got[p] EXCEPT !.index = disk.index].meta = got[p].meta
      BY <1>0 DEF NoAtlas, NoMeta, Atlases
    <2>2. /\ UNCHANGED <<disk, cache, plan, terms, lost, count>> /\ pc[p] = "index"
          /\ pc'[p] \in {"keep", "query", "preflight"}
          /\ got'[p] \in {NoAtlas, [got[p] EXCEPT !.index = disk.index]}
          /\ \A q \in Procs \ {p} : pc'[q] = pc[q] /\ got'[q] = got[q]
      BY <1>0, <1>8 DEF ReadIndex, Reads, Goal
    <2>3. got'[p].meta.build = 0 \/ got'[p].meta = got[p].meta
      BY <2>1, <2>2
    <2>4. Numbering'
      <3>1. NumbersKnown'
        BY <1>a, <2>2, <2>3 DEF Numbering, NumbersKnown
      <3>2. OneBuilder' /\ KnownMetas'
        BY <2>2, <2>3 DEF Numbering, OneBuilder, KnownMetas, SameMeta, KeyTells
      <3>3. \A q \in Procs : NotYetKnown(q)'
        BY <1>a, <2>2, <2>3 DEF Numbering, OneBuilder, NumbersKnown, NotYetKnown
      <3> QED
        BY <3>1, <3>2, <3>3 DEF Numbering
    <2>5. Sources'
      BY <2>2, <2>3 DEF Sources, StartsFromMeta, Numbering, KnownMetas, SameMeta, KeyTells
    <2>6. Committed'
      BY <2>2 DEF Committed, NamesWhatIsThere, CommittedIsIts, NewMeta, CommittedSegmentsStay, Writing
    <2> QED
      BY <2>4, <2>5, <2>6
  <1>9. ASSUME NEW p \in Procs, Remember(p) PROVE Commits'
    <2>1. NoAtlas.meta.build = 0
      BY DEF NoAtlas, NoMeta
    <2>2. /\ UNCHANGED <<disk, got, plan, terms, lost, count>> /\ pc[p] = "keep"
          /\ pc'[p] \in {"query", "preflight"}
          /\ \A q \in Procs \ {p} : pc'[q] = pc[q]
      BY <1>0, <1>9 DEF Remember, Goal
    <2>7. /\ cache'[p].atlas \in {NoAtlas, got[p]}
          /\ \A q \in Procs : cache'[q].meta = cache[q].meta /\ cache'[q].key = cache[q].key
          /\ \A q \in Procs \ {p} : cache'[q] = cache[q]
      <3>1. PICK atlas \in {NoAtlas, got[p]}, keys \in {StatKeys, NoKeys} :
                cache' = [cache EXCEPT ![p].atlas = atlas, ![p].keys = keys]
        BY <1>9 DEF Remember
      <3>2. cache'[p] = [cache[p] EXCEPT !.atlas = atlas, !.keys = keys] /\ cache[p] \in Entries
        BY <1>0, <3>1
      <3>3. \A q \in Procs \ {p} : cache'[q] = cache[q]
        BY <1>0, <3>1
      <3>4. cache'[p].atlas = atlas /\ cache'[p].meta = cache[p].meta /\ cache'[p].key = cache[p].key
        BY <3>2 DEF Entries
      <3> QED
        BY <3>3, <3>4
    <2>3. cache'[p].atlas.meta.build = 0 \/ cache'[p].atlas.meta = got[p].meta
      BY <2>1, <2>7
    <2>4. Numbering'
      <3>1. NumbersKnown'
        BY <1>a, <2>2, <2>3, <2>7 DEF Numbering, NumbersKnown
      <3>2. OneBuilder' /\ KnownMetas'
        BY <2>2, <2>3, <2>7 DEF Numbering, OneBuilder, KnownMetas, SameMeta, KeyTells
      <3>3. \A q \in Procs : NotYetKnown(q)'
        BY <1>a, <2>2, <2>3, <2>7 DEF Numbering, OneBuilder, NumbersKnown, NotYetKnown
      <3> QED
        BY <3>1, <3>2, <3>3 DEF Numbering
    <2>5. Sources'
      BY <2>2 DEF Sources, StartsFromMeta
    <2>6. Committed'
      BY <2>2 DEF Committed, NamesWhatIsThere, CommittedIsIts, NewMeta, CommittedSegmentsStay, Writing
    <2> QED
      BY <2>4, <2>5, <2>6
  <1>10. ASSUME NEW p \in Procs, JoinIncludes(p) PROVE Commits'
    <2>1. Numbering'
      BY <1>0, <1>10 DEF JoinIncludes, Numbering, OneBuilder, NumbersKnown, KnownMetas, SameMeta, KeyTells, NotYetKnown, PlanFollowsPlace,
         Building, Writing, Publish, Order, Atlases, Entries, Plans
    <2>2. Sources'
      BY <1>0, <1>10 DEF JoinIncludes, Sources, StartsFromMeta, Numbering, KnownMetas, SameMeta, KeyTells, PlanFollowsPlace,
         Publish, Order, Atlases, Entries, Plans
    <2>3. Committed'
      BY <1>0, <1>10 DEF JoinIncludes, Committed, NamesWhatIsThere, CommittedIsIts, NewMeta, CommittedSegmentsStay,
         Writing, Publish, Order, Atlases, Plans
    <2> QED
      BY <2>1, <2>2, <2>3
  <1>11. ASSUME NEW p \in Procs, EndQuery(p) PROVE Commits'
    <2>1. Numbering'
      BY <1>0, <1>11 DEF EndQuery, Numbering, OneBuilder, NumbersKnown, KnownMetas, SameMeta, KeyTells, NotYetKnown, NoAtlas, NoMeta, PlanFollowsPlace,
         Building, Writing, Publish, Order, Atlases, Entries, Plans
    <2>2. Sources'
      BY <1>0, <1>11 DEF EndQuery, Sources, StartsFromMeta, Numbering, KnownMetas, SameMeta, KeyTells, NoAtlas, NoMeta, PlanFollowsPlace,
         Publish, Order, Atlases, Entries, Plans
    <2>3. Committed'
      BY <1>0, <1>11 DEF EndQuery, Committed, NamesWhatIsThere, CommittedIsIts, NewMeta, CommittedSegmentsStay, NoAtlas, NoMeta,
         Writing, Publish, Order, Atlases, Plans
    <2> QED
      BY <2>1, <2>2, <2>3
  <1>12. ASSUME NEW p \in Procs, Preflight(p) PROVE Commits'
    <2>1. /\ UNCHANGED <<disk, got, cache, terms, lost, count>>
          /\ pc[p] = "preflight" /\ pc'[p] = "scan"
          /\ \A q \in Procs \ {p} : pc'[q] = pc[q] /\ plan'[q] = plan[q]
      BY <1>0, <1>12 DEF Preflight
    <2>2. plan'[p].build = plan[p].build
      BY <1>0, <1>12 DEF Preflight, Plans
    <2>3. Numbering'
      BY <2>1, <2>2 DEF Numbering, OneBuilder, NumbersKnown, KnownMetas, SameMeta, KeyTells, NotYetKnown
    <2>4. Sources'
      BY <2>1, <2>2 DEF Sources, StartsFromMeta, Numbering, KnownMetas, SameMeta, KeyTells
    <2>5. Committed'
      BY <2>1, <2>2 DEF Committed, NamesWhatIsThere, CommittedIsIts, NewMeta, CommittedSegmentsStay, Writing
    <2> QED
      BY <2>3, <2>4, <2>5
  <1>13. ASSUME NEW p \in Procs, Scan(p) PROVE Commits'
    <2>1. /\ UNCHANGED <<disk, got, cache, terms, lost, count>>
          /\ pc[p] = "scan" /\ pc'[p] \in {"rescan", "extract"}
          /\ \A q \in Procs \ {p} : pc'[q] = pc[q] /\ plan'[q] = plan[q]
      BY <1>0, <1>13 DEF Scan, Scanned
    <2>2. plan'[p].build = plan[p].build /\ (plan'[p].whole <=> Reusable(p))
      BY <1>0, <1>13 DEF Scan, Scanned, Plans
    <2>3. Reusable(p) => got[p].meta.build # 0
      BY DEF Reusable
    <2>4. Numbering'
      BY <2>1, <2>2 DEF Numbering, OneBuilder, NumbersKnown, KnownMetas, SameMeta, KeyTells, NotYetKnown
    <2>5. Sources'
      BY <2>1, <2>2, <2>3 DEF Sources, StartsFromMeta, Numbering, KnownMetas, SameMeta, KeyTells
    <2>6. Committed'
      BY <2>1, <2>2 DEF Committed, NamesWhatIsThere, CommittedIsIts, NewMeta, CommittedSegmentsStay, Writing
    <2> QED
      BY <2>4, <2>5, <2>6
  <1>14. ASSUME NEW p \in Procs, Rescan(p) PROVE Commits'
    <2>1. /\ UNCHANGED <<disk, got, cache, terms, lost, count>>
          /\ pc[p] = "rescan" /\ pc'[p] \in {"rescan", "extract"}
          /\ \A q \in Procs \ {p} : pc'[q] = pc[q] /\ plan'[q] = plan[q]
      BY <1>0, <1>14 DEF Rescan
    <2>2. plan'[p].build = plan[p].build /\ (plan'[p].whole <=> Reusable(p))
      BY <1>0, <1>14 DEF Rescan, Plans
    <2>3. Reusable(p) => got[p].meta.build # 0
      BY DEF Reusable
    <2>4. Numbering'
      BY <2>1, <2>2 DEF Numbering, OneBuilder, NumbersKnown, KnownMetas, SameMeta, KeyTells, NotYetKnown
    <2>5. Sources'
      BY <2>1, <2>2, <2>3 DEF Sources, StartsFromMeta, Numbering, KnownMetas, SameMeta, KeyTells
    <2>6. Committed'
      BY <2>1, <2>2 DEF Committed, NamesWhatIsThere, CommittedIsIts, NewMeta, CommittedSegmentsStay, Writing
    <2> QED
      BY <2>4, <2>5, <2>6
  <1>15. ASSUME NEW p \in Procs, GivesUp(p) PROVE Commits'
    <2>1. Numbering'
      BY <1>0, <1>15 DEF GivesUp, Numbering, OneBuilder, NumbersKnown, KnownMetas, SameMeta, KeyTells, NotYetKnown, NoPlan, PlanFollowsPlace,
         Building, Writing, Publish, Order, Atlases, Entries, Plans
    <2>2. Sources'
      BY <1>0, <1>15 DEF GivesUp, Sources, StartsFromMeta, Numbering, KnownMetas, SameMeta, KeyTells, NoPlan, PlanFollowsPlace,
         Publish, Order, Atlases, Entries, Plans
    <2>3. Committed'
      BY <1>0, <1>15 DEF GivesUp, Committed, NamesWhatIsThere, CommittedIsIts, NewMeta, CommittedSegmentsStay, NoPlan,
         Writing, Publish, Order, Atlases, Plans
    <2> QED
      BY <2>1, <2>2, <2>3
  <1>16. ASSUME NEW p \in Procs, Extract(p) PROVE Commits'
    <2> DEFINE segs == IF plan[p].whole THEN got[p].meta.segs ELSE {}
    <2>1. /\ UNCHANGED <<disk, got, cache, lost, count>> /\ terms'.whole = terms.whole
          /\ pc[p] = "extract" /\ pc'[p] \in {"pack", "segment"}
          /\ \A q \in Procs \ {p} : pc'[q] = pc[q] /\ plan'[q] = plan[q]
      BY <1>0, <1>16 DEF Extract, TermsOf
    <2>2. plan'[p].build = plan[p].build /\ plan'[p].segs = segs
      BY ZenonT(40), <1>0, <1>16 DEF Extract, Plans
    <2>3. plan[p].build # 0
      BY <1>0, <2>1 DEF PlanFollowsPlace, Building
    <2>4. segs \subseteq disk.meta.segs
      BY <2>1, <2>3 DEF Sources, StartsFromMeta
    <2> HIDE DEF segs
    <2>5. Numbering'
      BY <2>1, <2>2 DEF Numbering, OneBuilder, NumbersKnown, KnownMetas, SameMeta, KeyTells, NotYetKnown
    <2>6. Sources'
      BY <2>1, <2>2 DEF Sources, StartsFromMeta, Numbering, KnownMetas, SameMeta, KeyTells
    <2>7. Committed'
      BY <2>1, <2>2, <2>4 DEF Committed, NamesWhatIsThere, CommittedIsIts, NewMeta, CommittedSegmentsStay, Writing
    <2> QED
      BY <2>5, <2>6, <2>7
  <1>17. ASSUME NEW p \in Procs, FinishSegment(p) PROVE Commits'
    <2>1. /\ UNCHANGED <<disk, got, cache, lost, count>>
          /\ pc[p] = "segment" /\ pc'[p] = "pack"
          /\ \A q \in Procs \ {p} : pc'[q] = pc[q] /\ plan'[q] = plan[q]
      BY <1>0, <1>17 DEF FinishSegment
    <2>2. /\ plan'[p].build = plan[p].build
          /\ \/ UNCHANGED <<plan, terms>>
             \/ /\ plan'[p].segs = plan[p].segs \union {FreshSegment(p)}
                /\ terms'.whole = terms.whole \union {FreshSegment(p)}
      <3>1. CASE UNCHANGED <<plan, terms>>
        BY <3>1
      <3>2. CASE plan' = [plan EXCEPT ![p].segs = @ \union {FreshSegment(p)}]
                 /\ terms' = [terms EXCEPT !.whole = @ \union {FreshSegment(p)},
                                           !.has[FreshSegment(p)] = plan[p].texts]
        <4>1. terms'.whole = terms.whole \union {FreshSegment(p)}
          BY <1>0, <3>2 DEF TermsOf
        <4>2. plan'[p].build = plan[p].build
              /\ plan'[p].segs = plan[p].segs \union {FreshSegment(p)}
          BY <1>0, <3>2 DEF Plans
        <4> QED
          BY <4>1, <4>2
      <3> QED
        BY <1>17, <3>1, <3>2 DEF FinishSegment
    <2>3. Numbering'
      BY <2>1, <2>2 DEF Numbering, OneBuilder, NumbersKnown, KnownMetas, SameMeta, KeyTells, NotYetKnown
    <2>4. Sources'
      BY <2>1, <2>2 DEF Sources, StartsFromMeta, Numbering, KnownMetas, SameMeta, KeyTells
    <2>5. Committed'
      BY <2>1, <2>2 DEF Committed, NamesWhatIsThere, CommittedIsIts, NewMeta, CommittedSegmentsStay, Writing
    <2> QED
      BY <2>3, <2>4, <2>5
  <1>18. ASSUME NEW p \in Procs, Pack(p) PROVE Commits'
    <2>1. /\ UNCHANGED <<disk, got, cache, lost, count>>
          /\ pc[p] = "pack" /\ pc'[p] = "putNodes"
          /\ \A q \in Procs \ {p} : pc'[q] = pc[q] /\ plan'[q] = plan[q]
      BY <1>0, <1>18 DEF Pack, Publish, Order
    <2>2. /\ plan'[p].build = plan[p].build
          /\ \/ UNCHANGED <<plan, terms>>
             \/ /\ plan'[p].segs = {PackedSegment(p)}
                /\ terms'.whole = terms.whole \union {PackedSegment(p)}
      BY <1>0, <1>18 DEF Pack, Plans
    <2>3. Numbering'
      BY <2>1, <2>2 DEF Numbering, OneBuilder, NumbersKnown, KnownMetas, SameMeta, KeyTells, NotYetKnown
    <2>4. Sources'
      BY <2>1, <2>2 DEF Sources, StartsFromMeta, Numbering, KnownMetas, SameMeta, KeyTells
    <2>5. Committed'
      BY <2>1, <2>2 DEF Committed, NamesWhatIsThere, CommittedIsIts, NewMeta, CommittedSegmentsStay, Writing
    <2> QED
      BY <2>3, <2>4, <2>5
  <1>19. ASSUME NEW p \in Procs, WriteNodes(p) PROVE Commits'
    <2>1. Numbering'
      BY <1>0, <1>19 DEF WriteNodes, Writes, Numbering, OneBuilder, NumbersKnown, KnownMetas, SameMeta, KeyTells, NotYetKnown, PlanFollowsPlace,
         Building, Writing, Publish, Order, Atlases, Entries, Plans
    <2>2. Sources'
      BY <1>0, <1>19 DEF WriteNodes, Writes, Sources, StartsFromMeta, Numbering, KnownMetas, SameMeta, KeyTells, PlanFollowsPlace,
         Publish, Order, Atlases, Entries, Plans
    <2>3. Committed'
      BY <1>0, <1>19 DEF WriteNodes, Writes, Committed, NamesWhatIsThere, CommittedIsIts, NewMeta, CommittedSegmentsStay,
         Writing, Publish, Order, Atlases, Plans
    <2> QED
      BY <2>1, <2>2, <2>3
  <1>20. ASSUME NEW p \in Procs, WriteIncludes(p) PROVE Commits'
    <2>1. Numbering'
      BY <1>0, <1>20 DEF WriteIncludes, Writes, Numbering, OneBuilder, NumbersKnown, KnownMetas, SameMeta, KeyTells, NotYetKnown, PlanFollowsPlace,
         Building, Writing, Publish, Order, Atlases, Entries, Plans
    <2>2. Sources'
      BY <1>0, <1>20 DEF WriteIncludes, Writes, Sources, StartsFromMeta, Numbering, KnownMetas, SameMeta, KeyTells, PlanFollowsPlace,
         Publish, Order, Atlases, Entries, Plans
    <2>3. Committed'
      BY <1>0, <1>20 DEF WriteIncludes, Writes, Committed, NamesWhatIsThere, CommittedIsIts, NewMeta, CommittedSegmentsStay,
         Writing, Publish, Order, Atlases, Plans
    <2> QED
      BY <2>1, <2>2, <2>3
  <1>21. ASSUME NEW p \in Procs, WriteEdges(p) PROVE Commits'
    <2>1. Numbering'
      BY <1>0, <1>21 DEF WriteEdges, Writes, Numbering, OneBuilder, NumbersKnown, KnownMetas, SameMeta, KeyTells, NotYetKnown, PlanFollowsPlace,
         Building, Writing, Publish, Order, Atlases, Entries, Plans
    <2>2. Sources'
      BY <1>0, <1>21 DEF WriteEdges, Writes, Sources, StartsFromMeta, Numbering, KnownMetas, SameMeta, KeyTells, PlanFollowsPlace,
         Publish, Order, Atlases, Entries, Plans
    <2>3. Committed'
      BY <1>0, <1>21 DEF WriteEdges, Writes, Committed, NamesWhatIsThere, CommittedIsIts, NewMeta, CommittedSegmentsStay,
         Writing, Publish, Order, Atlases, Plans
    <2> QED
      BY <2>1, <2>2, <2>3
  <1>22. ASSUME NEW p \in Procs, WriteIndex(p) PROVE Commits'
    <2>1. Numbering'
      BY <1>0, <1>22 DEF WriteIndex, Writes, Numbering, OneBuilder, NumbersKnown, KnownMetas, SameMeta, KeyTells, NotYetKnown, PlanFollowsPlace,
         Building, Writing, Publish, Order, Atlases, Entries, Plans
    <2>2. Sources'
      BY <1>0, <1>22 DEF WriteIndex, Writes, Sources, StartsFromMeta, Numbering, KnownMetas, SameMeta, KeyTells, PlanFollowsPlace,
         Publish, Order, Atlases, Entries, Plans
    <2>3. Committed'
      BY <1>0, <1>22 DEF WriteIndex, Writes, Committed, NamesWhatIsThere, CommittedIsIts, NewMeta, CommittedSegmentsStay,
         Writing, Publish, Order, Atlases, Plans
    <2> QED
      BY <2>1, <2>2, <2>3
  <1>23. ASSUME NEW p \in Procs, WriteMeta(p) PROVE Commits'
    <2>1. /\ UNCHANGED <<got, cache, plan, terms, lost, count>> /\ disk'.meta = NewMeta(p)
          /\ pc[p] = "putMeta" /\ pc'[p] = "prune"
          /\ \A q \in Procs \ {p} : pc'[q] = pc[q]
      BY <1>0, <1>23 DEF WriteMeta, Writes, Publish, Order, Atlases
    <2>2. plan[p].build # 0 /\ \A q \in Procs \ {p} : plan[q].build = 0 /\ pc[q] \notin Building
      BY <1>0, <2>1 DEF PlanFollowsPlace, Building, Writing, Numbering, OneBuilder
    <2>3. /\ NewMeta(p).build = plan[p].build /\ NewMeta(p).segs = plan[p].segs
          /\ \A q \in Procs : NewMeta(q)' = NewMeta(q)
      BY <2>1 DEF NewMeta
    <2>4. \A q \in Procs : /\ got[q].meta.build # plan[p].build
                           /\ cache[q].atlas.meta.build # plan[p].build
                           /\ cache[q].key # plan[p].build
      BY <2>1, <2>2 DEF Numbering, NotYetKnown
    <2>5. Numbering'
      BY <1>0, <2>1, <2>2, <2>3, <2>4
         DEF Numbering, OneBuilder, NumbersKnown, KnownMetas, SameMeta, KeyTells, NotYetKnown
    <2>6. Sources'
      BY <2>1, <2>2 DEF Sources, StartsFromMeta
    <2>7. Committed'
      BY <1>0, <2>1, <2>2, <2>3
         DEF Committed, NamesWhatIsThere, CommittedIsIts, CommittedSegmentsStay, Building, Writing
    <2> QED
      BY <2>5, <2>6, <2>7
  <1>24. ASSUME NEW p \in Procs, Prune(p) PROVE Commits'
    <2>1. /\ UNCHANGED <<disk, got, cache, plan, lost>> /\ count'.builds = count.builds
          /\ pc[p] = "prune" /\ pc'[p] = "seed"
          /\ \A q \in Procs \ {p} : pc'[q] = pc[q]
      BY <1>0, <1>24 DEF Prune, Publish, Order
    <2>2. PICK gone \in SUBSET (terms.dirs \ plan[p].segs) : terms'.whole = terms.whole \ gone
      BY <1>0, <1>24 DEF Prune, TermsOf
    <2>3. \A q \in Procs \ {p} : pc[q] \notin Building
      BY <1>0, <2>1 DEF PlanFollowsPlace, Building, Writing, Numbering, OneBuilder
    <2>4. disk.meta.segs = plan[p].segs
      <3>1. disk.meta = NewMeta(p)
        BY <2>1 DEF Committed, CommittedIsIts
      <3> QED
        BY <3>1 DEF NewMeta
    <2>5. Numbering'
      BY <2>1 DEF Numbering, OneBuilder, NumbersKnown, KnownMetas, SameMeta, KeyTells, NotYetKnown
    <2>6. Sources'
      BY <2>1 DEF Sources, StartsFromMeta, Numbering, KnownMetas, SameMeta, KeyTells
    <2>7. Committed'
      BY <2>1, <2>2, <2>3, <2>4 DEF Committed, NamesWhatIsThere, CommittedIsIts, NewMeta, CommittedSegmentsStay, Building, Writing
    <2> QED
      BY <2>5, <2>6, <2>7
  <1>25. ASSUME NEW p \in Procs, PrunesSome(p) PROVE Commits'
    <2>1. /\ UNCHANGED <<disk, got, cache, plan, lost>> /\ count'.builds = count.builds
          /\ pc[p] = "prune" /\ pc'[p] = "seed"
          /\ \A q \in Procs \ {p} : pc'[q] = pc[q]
      BY <1>0, <1>25 DEF PrunesSome, Trouble, Publish, Order
    <2>2. PICK gone \in SUBSET (terms.dirs \ plan[p].segs) : terms'.whole = terms.whole \ gone
      BY <1>0, <1>25 DEF PrunesSome, Trouble, TermsOf
    <2>3. \A q \in Procs \ {p} : pc[q] \notin Building
      BY <1>0, <2>1 DEF PlanFollowsPlace, Building, Writing, Numbering, OneBuilder
    <2>4. disk.meta.segs = plan[p].segs
      <3>1. disk.meta = NewMeta(p)
        BY <2>1 DEF Committed, CommittedIsIts
      <3> QED
        BY <3>1 DEF NewMeta
    <2>5. Numbering'
      BY <2>1 DEF Numbering, OneBuilder, NumbersKnown, KnownMetas, SameMeta, KeyTells, NotYetKnown
    <2>6. Sources'
      BY <2>1 DEF Sources, StartsFromMeta, Numbering, KnownMetas, SameMeta, KeyTells
    <2>7. Committed'
      BY <2>1, <2>2, <2>3, <2>4 DEF Committed, NamesWhatIsThere, CommittedIsIts, NewMeta, CommittedSegmentsStay, Building, Writing
    <2> QED
      BY <2>5, <2>6, <2>7
  <1>26. ASSUME NEW p \in Procs, Seed(p) PROVE Commits'
    <2>1. /\ UNCHANGED <<disk, terms, lost, count>>
          /\ pc[p] = "seed" /\ pc'[p] = "idle"
          /\ plan'[p].build = 0 /\ got'[p].meta.build = 0
          /\ \A q \in Procs \ {p} : /\ pc'[q] = pc[q] /\ plan'[q] = plan[q]
                                    /\ got'[q] = got[q] /\ cache'[q] = cache[q]
      BY <1>0, <1>26 DEF Seed, Publish, Order, NoPlan, NoAtlas, NoMeta
    <2>2. /\ cache'[p].atlas \in {NoAtlas, Result(p)}
          /\ cache'[p].meta = NewMeta(p) /\ cache'[p].key = disk.meta.build
      BY <1>0, <1>26 DEF Seed, Seeded
    <2>3. NoAtlas.meta.build = 0 /\ Result(p).meta = NewMeta(p)
      BY DEF NoAtlas, NoMeta, Result
    <2>4. disk.meta = NewMeta(p)
      BY <2>1 DEF Committed, CommittedIsIts
    <2>5. /\ cache'[p].atlas.meta.build = 0 \/ cache'[p].atlas.meta = disk.meta
          /\ cache'[p].meta = disk.meta /\ cache'[p].key = disk.meta.build
      BY <2>2, <2>3, <2>4
    <2>6. \A q \in Procs \ {p} : plan[q].build = 0
      BY <1>0, <2>1 DEF PlanFollowsPlace, Building, Writing, Numbering, OneBuilder
    <2>7. Numbering'
      <3>1. NumbersKnown'
        BY <1>a, <2>1, <2>5, <2>6 DEF Numbering, NumbersKnown
      <3>2. OneBuilder' /\ KnownMetas'
        BY <2>1, <2>5, <2>6 DEF Numbering, OneBuilder, KnownMetas, SameMeta, KeyTells
      <3>3. \A q \in Procs : NotYetKnown(q)'
        BY <1>a, <2>1, <2>5, <2>6 DEF Numbering, OneBuilder, NumbersKnown, NotYetKnown
      <3> QED
        BY <3>1, <3>2, <3>3 DEF Numbering
    <2>8. Sources'
      BY <2>1 DEF Sources, StartsFromMeta, Numbering, KnownMetas, SameMeta, KeyTells
    <2>9. Committed'
      BY <2>1 DEF Committed, NamesWhatIsThere, CommittedIsIts, NewMeta, CommittedSegmentsStay, Writing
    <2> QED
      BY <2>7, <2>8, <2>9
  <1>27. ASSUME NEW p \in Procs, Throws(p) PROVE Commits'
    <2>1. Numbering'
      BY <1>0, <1>27 DEF Throws, Trouble, Numbering, OneBuilder, NumbersKnown, KnownMetas, SameMeta, KeyTells, NotYetKnown, NoPlan, PlanFollowsPlace,
         Building, Writing, Publish, Order, Atlases, Entries, Plans
    <2>2. Sources'
      BY <1>0, <1>27 DEF Throws, Trouble, Sources, StartsFromMeta, Numbering, KnownMetas, SameMeta, KeyTells, NoPlan, PlanFollowsPlace,
         Publish, Order, Atlases, Entries, Plans
    <2>3. Committed'
      BY <1>0, <1>27 DEF Throws, Trouble, Committed, NamesWhatIsThere, CommittedIsIts, NewMeta, CommittedSegmentsStay, NoPlan,
         Writing, Publish, Order, Atlases, Plans
    <2> QED
      BY <2>1, <2>2, <2>3
  <1>28. ASSUME NEW p \in Procs, Dies(p) PROVE Commits'
    <2>1. Numbering'
      BY <1>0, <1>28 DEF Dies, Trouble, Numbering, OneBuilder, NumbersKnown, KnownMetas, SameMeta, KeyTells, NotYetKnown, NoEntry, NoKeys, NoAtlas, NoMeta, NoPlan, PlanFollowsPlace,
         Building, Writing, Publish, Order, Atlases, Entries, Plans
    <2>2. Sources'
      BY <1>0, <1>28 DEF Dies, Trouble, Sources, StartsFromMeta, Numbering, KnownMetas, SameMeta, KeyTells, NoEntry, NoKeys, NoAtlas, NoMeta, NoPlan, PlanFollowsPlace,
         Publish, Order, Atlases, Entries, Plans
    <2>3. Committed'
      BY <1>0, <1>28 DEF Dies, Trouble, Committed, NamesWhatIsThere, CommittedIsIts, NewMeta, CommittedSegmentsStay, NoEntry, NoKeys, NoAtlas, NoMeta, NoPlan,
         Writing, Publish, Order, Atlases, Plans
    <2> QED
      BY <2>1, <2>2, <2>3
  <1>29. CASE Deletes
    <2>1. PICK s \in terms.whole :
              terms' = [terms EXCEPT !.dirs = @ \ {s}, !.whole = @ \ {s}]
              /\ lost' = lost \union {s}
      BY <1>29 DEF Deletes
    <2>2. /\ UNCHANGED <<disk, pc, got, cache, plan>> /\ count'.builds = count.builds
          /\ \A q \in Procs : plan[q].build = 0 /\ pc[q] \notin Building
      BY <1>0, <1>29 DEF Deletes, Trouble, PlanFollowsPlace
    <2>3. terms'.whole = terms.whole \ {s}
      BY <1>0, <2>1 DEF TermsOf
    <2>4. Numbering'
      BY <2>2 DEF Numbering, OneBuilder, NumbersKnown, KnownMetas, SameMeta, KeyTells, NotYetKnown
    <2>5. Sources'
      BY <2>2 DEF Sources, StartsFromMeta, Numbering, KnownMetas, SameMeta, KeyTells
    <2>6. Committed'
      BY <2>1, <2>2, <2>3 DEF Committed, NamesWhatIsThere, CommittedIsIts, NewMeta, CommittedSegmentsStay, Building
    <2> QED
      BY <2>4, <2>5, <2>6
  <1>30. CASE EditFile
    <2>1. UNCHANGED <<disk, terms, pc, got, cache, plan, lost>> /\ count'.builds = count.builds
      BY <1>0, <1>30 DEF EditFile, Edit
    <2> QED
      BY <2>1 DEF Numbering, OneBuilder, NumbersKnown, KnownMetas, SameMeta, KeyTells, NotYetKnown, Sources, StartsFromMeta,
         Committed, NamesWhatIsThere, CommittedIsIts, NewMeta, CommittedSegmentsStay
  <1>31. CASE EditHints
    <2>1. UNCHANGED <<disk, terms, pc, got, cache, plan, lost>> /\ count'.builds = count.builds
      BY <1>0, <1>31 DEF EditHints, Edit
    <2> QED
      BY <2>1 DEF Numbering, OneBuilder, NumbersKnown, KnownMetas, SameMeta, KeyTells, NotYetKnown, Sources, StartsFromMeta,
         Committed, NamesWhatIsThere, CommittedIsIts, NewMeta, CommittedSegmentsStay
  <1>32. CASE UNCHANGED vars
    BY <1>32 DEF vars, Numbering, OneBuilder, NumbersKnown, KnownMetas, SameMeta, KeyTells, NotYetKnown,
       Sources, StartsFromMeta, Committed, NamesWhatIsThere, CommittedIsIts, NewMeta, CommittedSegmentsStay
  <1> QED
    BY <1>1, <1>2, <1>3, <1>4, <1>5, <1>6, <1>7, <1>8, <1>9, <1>10, <1>11, <1>12, <1>13, <1>14, <1>15, <1>16, <1>17, <1>18, <1>19, <1>20, <1>21, <1>22, <1>23, <1>24, <1>25, <1>26, <1>27, <1>28, <1>29, <1>30, <1>31, <1>32,
       <1>33 DEF Next, Load, Query, Build, Publishing

LEMMA CommitsStart == Init => Commits
  <1>1. Init => Numbering /\ Sources
    BY DEF Init, Numbering, OneBuilder, NumbersKnown, KnownMetas, SameMeta, KeyTells, NotYetKnown,
           Sources, StartsFromMeta, NoDisk, NoEntry, NoKeys, NoAtlas, NoMeta, NoPlan
  <1>2. Init => Committed
    BY DEF Init, Committed, NamesWhatIsThere, CommittedIsIts, CommittedSegmentsStay,
           Writing, NoDisk, NoMeta
  <1> QED
    BY <1>1, <1>2 DEF Commits

\* A load never mixes builds: OneBuild holds of what it answers with for any processes,
\* builders and bounds, also while builds overlap and each replaces files of the other.
LoadIsOneBuild ==
    \A p \in Procs : pc[p] \in {"query", "preflight"} /\ got[p].meta.build # 0 => OneBuild(got[p])
THEOREM LoadsNeverMix == Spec => []LoadIsOneBuild
  <1>1. Init => TypeInv /\ Commits /\ Loads
    BY InitTypes, CommitsStart, LoadsStart
  <1>2. Loads => LoadIsOneBuild
    BY DEF Loads, HasOneBuild, LoadIsOneBuild
  <1>3. TypeInv /\ (~SideBySide => Commits) /\ [Next]_vars => (~SideBySide => Commits)'
    BY CommitsStep
  <1> QED
    BY <1>1, <1>2, <1>3, TypeStep, LoadsStep, PTL DEF Spec

\* LoadIsASnapshot holds for any processes and bounds when builds follow one another. (Of
\* builds that overlap it is false: see the property.)
THEOREM LoadsAreSnapshots ==
    ASSUME ~SideBySide PROVE Spec => []LoadIsASnapshot
  <1>1. Init => TypeInv /\ Commits /\ Loads
    BY InitTypes, CommitsStart, LoadsStart
  <1>2. Loads => LoadIsASnapshot
    BY DEF Loads, HasCommitted, HasOneBuild, LoadIsASnapshot
  <1> QED
    BY <1>1, <1>2, TypeStep, CommitsStep, LoadsStep, PTL DEF Spec

\* CommittedSegmentsStay holds for any processes and bounds when builds follow one another: the
\* search index of the committed build is whole wherever a process dies, a write fails or the
\* removal of old segments stops.
THEOREM CommittedIndexIsThere ==
    ASSUME ~SideBySide PROVE Spec => []CommittedSegmentsStay
  <1>1. Init => TypeInv /\ Commits
    BY InitTypes, CommitsStart
  <1>2. Commits => CommittedSegmentsStay
    BY DEF Commits, Committed
  <1> QED
    BY <1>1, <1>2, TypeStep, CommitsStep, PTL DEF Spec

\* --------------------------------------------------- builds end as they began
\* The places of a build that has looked at its segments, and at its files.
Drafting == {"segment", "pack"} \union Writing
Working == {"scan", "rescan", "extract"} \union Drafting

\* The segments a build takes over are there, and stay.
KeepsSegments(p) ==
    /\ pc[p] \in {"scan", "rescan"} /\ ~plan[p].gap => ~Gap(p)
    /\ pc[p] = "extract" /\ plan[p].whole => segmentsIntact(got[p].meta.segs)
    /\ pc[p] \in Drafting => segmentsIntact(plan[p].segs)

\* It has a card for every file it saw, and for no other.
HasItsFiles(p) == pc[p] \in Drafting => {c.file : c \in plan[p].cards} = Present(p)

\* What has been written is still there when the next part is.
HasWritten(p) ==
    /\ pc[p] \in Writing \ {"putNodes"} =>
       disk.nodes = [build |-> plan[p].build, cards |-> plan[p].cards]
    /\ pc[p] \in {"putIndex", "putMeta", "prune", "seed"} => disk.edges = plan[p].build
    /\ pc[p] \in {"putMeta", "prune", "seed"} => disk.index = plan[p].build

Halfway == \A p \in Procs : KeepsSegments(p) /\ HasItsFiles(p) /\ HasWritten(p)

\* Steps that leave files, segments and the other processes alone and do not
\* take a build any further.
Calm(p) ==
    /\ UNCHANGED <<disk, terms, hints>>
    /\ \A q \in Procs \ {p} :
          pc'[q] = pc[q] /\ plan'[q] = plan[q] /\ got'[q] = got[q] /\ cache'[q] = cache[q]
    /\ pc'[p] \notin Working
LEMMA CalmSteps ==
    ASSUME TypeInv, NEW p \in Procs,
           \/ Load(p) \/ Query(p) \/ BeginBuild(p) \/ GivesUp(p) \/ Throws(p) \/ Dies(p)
    PROVE  Calm(p)
  <1>0. /\ pc \in [Procs -> Places] /\ got \in [Procs -> Atlases] /\ cache \in [Procs -> Entries]
        /\ plan \in [Procs -> Plans]
    BY DEF TypeInv, TypeOK
  <1> USE <1>0 DEF Calm, Working, Drafting, Writing, Step, Shared
  <1>1. CASE BeginQuery(p)
    BY <1>1 DEF BeginQuery, Opened
  <1>2. CASE BeginBuild(p)
    BY <1>2 DEF BeginBuild, Opened
  <1>3. CASE StatMeta(p) \/ ReadMeta(p)
    BY <1>3 DEF StatMeta, ReadMeta, Reads, Goal
  <1>4. CASE UseCached(p)
    BY <1>4 DEF UseCached, Reads, Goal
  <1>5. CASE ReadOn(p)
    BY <1>5 DEF ReadOn, Reads
  <1>6. CASE ReadNodes(p)
    BY <1>6 DEF ReadNodes, Reads
  <1>7. CASE ReadEdges(p)
    BY <1>7 DEF ReadEdges, Reads
  <1>8. CASE ReadIndex(p)
    BY <1>8 DEF ReadIndex, Reads, Goal
  <1>9. CASE Remember(p)
    BY <1>9 DEF Remember, Goal
  <1>10. CASE JoinIncludes(p)
    BY <1>10 DEF JoinIncludes
  <1>11. CASE EndQuery(p)
    BY <1>11 DEF EndQuery
  <1>12. CASE GivesUp(p)
    BY <1>12 DEF GivesUp
  <1>13. CASE Throws(p)
    BY <1>13 DEF Throws, Trouble
  <1>14. CASE Dies(p)
    BY <1>14 DEF Dies, Trouble
  <1> QED
    BY <1>1, <1>2, <1>3, <1>4, <1>5, <1>6, <1>7, <1>8, <1>9, <1>10, <1>11, <1>12, <1>13, <1>14
       DEF Load, Query

\* While one process builds, the others are at no place of a build.
LEMMA OthersDoNotBuild ==
    ASSUME TypeInv, Numbering, NEW p \in Procs, pc[p] \in Building, NEW q \in Procs \ {p}
    PROVE  pc[q] \notin Working /\ pc[q] \notin Building /\ plan[q].build = 0
  <1>1. plan[p].build # 0 /\ plan[q].build = 0
    BY DEF TypeInv, PlanFollowsPlace, Numbering, OneBuilder
  <1>2. pc[q] \notin Building
    BY <1>1 DEF TypeInv, PlanFollowsPlace
  <1> QED
    BY <1>1, <1>2 DEF Building, Working, Drafting

\* The files a build has cards for after it extracted them are those it saw.
LEMMA CardsOfFiles ==
    ASSUME NEW p \in Procs, plan[p].prev \in SUBSET Cards
    PROVE  LET cards == (UNION {OldCard(p, f) : f \in Present(p)}) \union
                        {[file |-> f, stat |-> plan[p].seen[f], read |-> work[f]] : f \in Fresh(p)}
           IN  {c.file : c \in cards} = Present(p)
  <1> DEFINE old == UNION {OldCard(p, f) : f \in Present(p)}
             new == {[file |-> f, stat |-> plan[p].seen[f], read |-> work[f]] : f \in Fresh(p)}
  <1>1. \A c \in old : c.file \in Present(p)
    BY DEF OldCard
  <1>2. \A c \in new : c.file \in Present(p)
    BY DEF Fresh
  <1>3. ASSUME NEW f \in Present(p) PROVE \E c \in old \union new : c.file = f
    <2>1. CASE f \in Fresh(p)
      <3>1. PICK c \in new : c = [file |-> f, stat |-> plan[p].seen[f], read |-> work[f]]
        BY <2>1
      <3>2. c.file = f
        BY <3>1
      <3> QED
        BY <3>2
    <2>2. CASE f \notin Fresh(p)
      <3>1. PICK c \in OldCard(p, f) : TRUE
        BY <2>2, <1>3 DEF Fresh
      <3>2. c \in old /\ c.file = f
        BY <3>1 DEF OldCard
      <3> QED
        BY <3>2
    <2> QED
      BY <2>1, <2>2
  <1> HIDE DEF old, new
  <1>4. {c.file : c \in old \union new} = Present(p)
    BY <1>1, <1>2, <1>3
  <1> QED
    BY <1>4 DEF old, new

LEMMA HalfwayStart == Init => Halfway
    BY DEF Init, Halfway, KeepsSegments, HasItsFiles, HasWritten, Drafting, Writing

LEMMA HalfwayStep == TypeInv /\ Commits /\ Halfway /\ [Next]_vars => Halfway'
  <1> SUFFICES ASSUME TypeInv, Commits, Halfway, [Next]_vars PROVE Halfway'
    OBVIOUS
  <1>0. /\ pc \in [Procs -> Places] /\ got \in [Procs -> Atlases] /\ plan \in [Procs -> Plans]
        /\ disk \in Atlases /\ terms \in TermsOf
    BY DEF TypeInv, TypeOK, TermsOf
  <1> DEFINE Fine(q) == KeepsSegments(q) /\ HasItsFiles(q) /\ HasWritten(q)
  <1>a. ASSUME NEW q \in Procs, pc'[q] \notin Working PROVE Fine(q)'
    BY <1>a DEF KeepsSegments, HasItsFiles, HasWritten, Working, Drafting, Writing
  <1>b. ASSUME NEW p \in Procs, pc[p] \in Building, Fine(p)',
               \A q \in Procs \ {p} : pc'[q] = pc[q]
        PROVE  Halfway'
    <2>1. \A q \in Procs \ {p} : Fine(q)'
      BY <1>a, <1>b, OthersDoNotBuild DEF Commits
    <2> QED
      BY <1>b, <2>1 DEF Halfway
  <1>c. ASSUME NEW q \in Procs, UNCHANGED <<disk, terms>>,
               pc'[q] = pc[q], plan'[q] = plan[q], got'[q] = got[q]
        PROVE  Fine(q)'
    BY <1>c DEF Halfway, KeepsSegments, HasItsFiles, HasWritten, Gap, segmentsIntact, Present
  <1>1. ASSUME NEW p \in Procs,
               \/ Load(p) \/ Query(p) \/ BeginBuild(p) \/ GivesUp(p) \/ Throws(p) \/ Dies(p)
        PROVE  Halfway'
    <2>1. Calm(p)
      BY <1>1, CalmSteps
    <2>2. \A q \in Procs : Fine(q)'
      BY <2>1, <1>a, <1>c DEF Calm
    <2> QED
      BY <2>2 DEF Halfway
  <1> USE DEF Step, Shared, Own
  <1>2. ASSUME NEW p \in Procs, Preflight(p) PROVE Halfway'
    <2>1. /\ pc[p] \in Building /\ pc'[p] = "scan"
          /\ \A q \in Procs \ {p} : pc'[q] = pc[q]
          /\ plan'[p].gap = Gap(p) /\ got'[p] = got[p] /\ UNCHANGED terms
      BY <1>0, <1>2 DEF Preflight, Building, Plans
    <2>2. KeepsSegments(p)'
      BY <2>1 DEF KeepsSegments, Gap, segmentsIntact, Drafting, Writing
    <2>3. HasItsFiles(p)' /\ HasWritten(p)'
      BY <2>1 DEF HasItsFiles, HasWritten, Drafting, Writing
    <2> QED
      BY <2>1, <2>2, <2>3, <1>b
  <1>3. ASSUME NEW p \in Procs, Scan(p) \/ Rescan(p) PROVE Halfway'
    <2>1. /\ pc[p] \in {"scan", "rescan"} /\ pc'[p] \in {"rescan", "extract"}
          /\ \A q \in Procs \ {p} : pc'[q] = pc[q]
          /\ plan'[p].gap = plan[p].gap /\ plan'[p].whole = Reusable(p)
          /\ got'[p] = got[p] /\ UNCHANGED terms
      BY <1>0, <1>3 DEF Scan, Rescan, Scanned, Plans
    <2>2. ~plan[p].gap => ~Gap(p)
      BY <2>1 DEF Halfway, KeepsSegments
    <2>3. KeepsSegments(p)'
      BY <2>1, <2>2 DEF KeepsSegments, Gap, segmentsIntact, Reusable, Drafting, Writing
    <2>4. HasItsFiles(p)' /\ HasWritten(p)'
      BY <2>1 DEF HasItsFiles, HasWritten, Drafting, Writing
    <2> QED
      BY <2>1, <2>3, <2>4, <1>b DEF Building
  <1>4. ASSUME NEW p \in Procs, Extract(p) PROVE Halfway'
    <2> DEFINE cards == (UNION {OldCard(p, f) : f \in Present(p)}) \union
                        {[file |-> f, stat |-> plan[p].seen[f], read |-> work[f]] : f \in Fresh(p)}
    <2>1. /\ pc[p] = "extract" /\ pc'[p] \in {"segment", "pack"}
          /\ \A q \in Procs \ {p} : pc'[q] = pc[q]
          /\ plan'[p].segs = IF plan[p].whole THEN got[p].meta.segs ELSE {}
          /\ plan'[p].cards = cards /\ plan'[p].seen = plan[p].seen
      BY ZenonT(40), <1>0, <1>4 DEF Extract, Plans
    <2>a. terms'.whole = terms.whole
      BY <1>0, <1>4 DEF Extract, TermsOf
    <2> HIDE DEF cards
    <2>2. KeepsSegments(p)'
      BY <2>1, <2>a DEF Halfway, KeepsSegments, segmentsIntact, Writing
    <2>3. HasItsFiles(p)'
      <3>1. {c.file : c \in cards} = Present(p)
        BY <1>0, CardsOfFiles DEF Plans, cards
      <3> QED
        BY <2>1, <3>1 DEF HasItsFiles, Present
    <2>4. HasWritten(p)'
      BY <2>1 DEF HasWritten, Writing
    <2> QED
      BY <2>1, <2>2, <2>3, <2>4, <1>b DEF Building
  <1>5. ASSUME NEW p \in Procs, FinishSegment(p) PROVE Halfway'
    <2>1. /\ pc[p] = "segment" /\ pc'[p] = "pack"
          /\ \A q \in Procs \ {p} : pc'[q] = pc[q]
          /\ plan'[p].cards = plan[p].cards /\ plan'[p].seen = plan[p].seen
      BY <1>0, <1>5 DEF FinishSegment, Plans
    <2>a. \/ terms'.whole = terms.whole \union {FreshSegment(p)}
             /\ plan'[p].segs = plan[p].segs \union {FreshSegment(p)}
          \/ terms' = terms /\ plan'[p].segs = plan[p].segs
      <3>1. CASE terms' = terms /\ plan' = plan
        BY <3>1
      <3>2. CASE ~(terms' = terms /\ plan' = plan)
        <4>1. /\ terms' = [terms EXCEPT !.whole = @ \union {FreshSegment(p)},
                                       !.has[FreshSegment(p)] = plan[p].texts]
              /\ plan' = [plan EXCEPT ![p].segs = @ \union {FreshSegment(p)}]
          BY <1>5, <3>2 DEF FinishSegment
        <4>2. terms'.whole = terms.whole \union {FreshSegment(p)}
          BY <1>0, <4>1 DEF TermsOf
        <4>3. plan'[p].segs = plan[p].segs \union {FreshSegment(p)}
          BY <1>0, <4>1 DEF Plans
        <4> QED
          BY <4>2, <4>3
      <3> QED
        BY <3>1, <3>2
    <2>2. KeepsSegments(p)'
      BY <2>1, <2>a DEF Halfway, KeepsSegments, segmentsIntact, Drafting, Writing
    <2>3. HasItsFiles(p)' /\ HasWritten(p)'
      BY ZenonT(40), <2>1 DEF Halfway, HasItsFiles, HasWritten, Present, Drafting, Writing
    <2> QED
      BY <2>1, <2>2, <2>3, <1>b DEF Building
  <1>6. ASSUME NEW p \in Procs, Pack(p) PROVE Halfway'
    <2>1. /\ pc[p] = "pack" /\ pc'[p] = "putNodes"
          /\ \A q \in Procs \ {p} : pc'[q] = pc[q]
          /\ plan'[p].cards = plan[p].cards /\ plan'[p].seen = plan[p].seen
          /\ \/ terms'.whole = terms.whole \union {PackedSegment(p)}
                /\ plan'[p].segs = {PackedSegment(p)}
             \/ terms' = terms /\ plan'[p].segs = plan[p].segs
      BY <1>0, <1>6 DEF Pack, Publish, Order, Plans, TermsOf
    <2>2. KeepsSegments(p)'
      BY <2>1 DEF Halfway, KeepsSegments, segmentsIntact, Drafting, Writing
    <2>3. HasItsFiles(p)' /\ HasWritten(p)'
      BY ZenonT(40), <2>1 DEF Halfway, HasItsFiles, HasWritten, Present, Drafting, Writing
    <2> QED
      BY <2>1, <2>2, <2>3, <1>b DEF Building
  <1>7. ASSUME NEW p \in Procs,
               WriteNodes(p) \/ WriteIncludes(p) \/ WriteEdges(p) \/ WriteIndex(p) \/ WriteMeta(p)
        PROVE  Halfway'
    <2>1. /\ pc[p] \in Writing \ {"prune", "seed"} /\ pc'[p] \in Writing
          /\ \A q \in Procs \ {p} : pc'[q] = pc[q]
          /\ UNCHANGED <<terms, plan>>
      BY <1>0, <1>7 DEF WriteNodes, WriteIncludes, WriteEdges, WriteIndex, WriteMeta, Writes,
                        Publish, Order, Writing
    <2>2. KeepsSegments(p)' /\ HasItsFiles(p)'
      BY <2>1 DEF Halfway, KeepsSegments, HasItsFiles, segmentsIntact, Present, Drafting, Writing
    <2>3. HasWritten(p)'
      <3>1. CASE WriteNodes(p)
        BY <1>0, <3>1 DEF WriteNodes, Writes, Publish, Order, HasWritten, Atlases
      <3>2. CASE WriteIncludes(p)
        BY <1>0, <3>2 DEF WriteIncludes, Writes, Publish, Order, Halfway, HasWritten, Writing, Atlases
      <3>3. CASE WriteEdges(p)
        BY <1>0, <3>3 DEF WriteEdges, Writes, Publish, Order, Halfway, HasWritten, Writing, Atlases
      <3>4. CASE WriteIndex(p)
        BY <1>0, <3>4 DEF WriteIndex, Writes, Publish, Order, Halfway, HasWritten, Writing, Atlases
      <3>5. CASE WriteMeta(p)
        BY <1>0, <3>5 DEF WriteMeta, Writes, Publish, Order, Halfway, HasWritten, Writing, Atlases
      <3> QED
        BY <1>7, <3>1, <3>2, <3>3, <3>4, <3>5
    <2> QED
      BY <2>1, <2>2, <2>3, <1>b DEF Building, Writing
  <1>8. ASSUME NEW p \in Procs, Prune(p) \/ PrunesSome(p) PROVE Halfway'
    <2>1. /\ pc[p] = "prune" /\ pc'[p] = "seed"
          /\ \A q \in Procs \ {p} : pc'[q] = pc[q]
          /\ UNCHANGED <<disk, plan>>
          /\ \E gone \in SUBSET (terms.dirs \ plan[p].segs) : terms'.whole = terms.whole \ gone
      BY <1>0, <1>8 DEF Prune, PrunesSome, Publish, Order, TermsOf
    <2>2. KeepsSegments(p)'
      BY <2>1 DEF Halfway, KeepsSegments, segmentsIntact, Drafting, Writing
    <2>3. HasItsFiles(p)' /\ HasWritten(p)'
      BY <2>1 DEF Halfway, HasItsFiles, HasWritten, Present, Drafting, Writing
    <2> QED
      BY <2>1, <2>2, <2>3, <1>b DEF Building, Writing
  <1>9. ASSUME NEW p \in Procs, Seed(p) PROVE Halfway'
    <2>1. /\ pc[p] = "seed" /\ pc'[p] = "idle"
          /\ \A q \in Procs \ {p} : pc'[q] = pc[q]
      BY <1>0, <1>9 DEF Seed, Publish, Order
    <2> QED
      BY <2>1, <1>a, <1>b DEF Building, Writing, Working, Drafting
  <1>10. CASE Deletes
    <2>1. \A q \in Procs : pc'[q] = pc[q] /\ plan[q].build = 0
      BY <1>10 DEF Deletes, Trouble
    <2>2. \A q \in Procs : pc'[q] \notin Working
      BY <2>1 DEF TypeInv, PlanFollowsPlace, Working, Drafting, Building
    <2>3. \A q \in Procs : Fine(q)'
      BY <2>2, <1>a
    <2> QED
      BY <2>3 DEF Halfway
  <1>11. CASE EditFile \/ EditHints \/ UNCHANGED vars
    <2>1. UNCHANGED <<disk, terms, pc, plan, got>>
      BY <1>11 DEF EditFile, EditHints, Edit, vars
    <2>2. \A q \in Procs : Fine(q)'
      BY <2>1, <1>c
    <2> QED
      BY <2>2 DEF Halfway
  <1> QED
    BY <1>1, <1>2, <1>3, <1>4, <1>5, <1>6, <1>7, <1>8, <1>9, <1>10, <1>11
       DEF Next, Build, Publishing

\* BuildEndsWhole for any processes, files and bounds, and also when root metadata
\* change during a scan or a segment cannot be written: builds must not overlap.
THEOREM BuildsEndWhole ==
    ASSUME ~SideBySide PROVE Spec => []BuildEndsWhole
  <1>1. Init => TypeInv /\ Commits /\ Halfway
    BY InitTypes, CommitsStart, HalfwayStart
  <1>2. TypeInv /\ Commits /\ Halfway => BuildEndsWhole
    <2> SUFFICES ASSUME TypeInv, Commits, Halfway, NEW p \in Procs, pc[p] = "seed"
                 PROVE  /\ Agree(disk) /\ disk.meta.build = plan[p].build
                        /\ segmentsIntact(disk.meta.segs)
                        /\ {c.file : c \in disk.nodes.cards} = Present(p)
      BY DEF BuildEndsWhole
    <2>1. disk.meta = NewMeta(p) /\ plan[p].build # 0
      BY DEF Commits, Committed, CommittedIsIts, TypeInv, PlanFollowsPlace, Building, Writing
    <2>2. /\ disk.nodes = [build |-> plan[p].build, cards |-> plan[p].cards]
          /\ disk.edges = plan[p].build /\ disk.index = plan[p].build
      BY DEF Halfway, HasWritten, Writing
    <2>3. segmentsIntact(plan[p].segs) /\ {c.file : c \in plan[p].cards} = Present(p)
      BY DEF Halfway, KeepsSegments, HasItsFiles, Drafting, Writing
    <2> QED
      BY <2>1, <2>2, <2>3 DEF NewMeta, Agree
  <1> QED
    BY <1>1, <1>2, TypeStep, CommitsStep, HalfwayStep, PTL DEF Spec

\* ------------------------------------------------------------------ coverage
\* Numbers rise: nodes are written before the meta that commits them, and no
\* load and no cache has a meta that is newer than the committed one.
Rising ==
    /\ disk.meta.build <= disk.nodes.build
    /\ \A p \in Procs : /\ got[p].meta.build <= disk.meta.build
                        /\ cache[p].atlas.meta.build <= disk.meta.build
IsNewer(p) ==
    plan[p].build # 0 /\ pc[p] \notin {"prune", "seed"} => disk.meta.build < plan[p].build

\* No meta names a segment of a later build: what it names is not written again.
NamesOld(m) == \A s \in m.segs : s[1] <= m.build
Naming ==
    NamesOld(disk.meta) /\ \A p \in Procs : NamesOld(got[p].meta) /\ NamesOld(cache[p].atlas.meta)

\* Nodes and meta of one build cover one another, on disk and in every hand.
CoversItself(x) == AgreeOnNodes(x) => Covered(x.nodes.cards, x.meta.segs)
Coverage ==
    CoversItself(disk) /\ \A p \in Procs : CoversItself(got[p]) /\ CoversItself(cache[p].atlas)

\* A build takes cards over together with the segments that cover them, or none:
\* old cards it may not reuse are left only where a segment was missing, and a
\* build for a missing segment drops them.
TakesOver(p) ==
    /\ pc[p] \in Loading => ~plan[p].forced
    /\ pc[p] \in {"preflight", "scan"} /\ plan[p].forced => got[p].meta.build = 0
    /\ pc[p] = "scan" =>
       /\ got[p].meta.build # 0 => AgreeOnNodes(got[p])
       /\ plan[p].pre => got[p].meta.build # 0 /\ got[p].meta.hints = hints
       /\ ~plan[p].pre => plan[p].prev = {}
    /\ pc[p] = "rescan" => plan[p].gap /\ plan[p].prev = {}
    /\ pc[p] = "extract" =>
       /\ ~plan[p].whole => plan[p].prev = {}
       /\ plan[p].whole => AgreeOnNodes(got[p]) /\ plan[p].prev = got[p].nodes.cards

\* The texts of its cards are in segments it names, or on their way into the one
\* that is being written.
Feeding(p) == \A c \in plan[p].cards : c.read # 0 =>
    \/ <<c.file, c.read>> \in plan[p].texts
    \/ \E s \in plan[p].segs : <<c.file, c.read>> \in terms.has[s]
HasItsTexts(p) ==
    /\ pc[p] = "segment" =>
       /\ \A s \in plan[p].segs : s[1] < plan[p].build
       /\ FreshSegment(p) \in terms.dirs /\ Feeding(p)
    /\ pc[p] \in {"pack"} \union Writing =>
       NamesOld(plan[p]) /\ Covered(plan[p].cards, plan[p].segs)

KeptAtlases == Rising /\ Naming /\ Coverage
Covering == KeptAtlases /\ \A p \in Procs : IsNewer(p) /\ TakesOver(p) /\ HasItsTexts(p)

\* What a calm step leaves in a hand or in the cache it took from a hand, from the
\* cache or from disk.
SameCore(x, y) == x.meta = y.meta /\ x.nodes = y.nodes
HandsOn(p) ==
    /\ \/ got'[p].nodes = NoNodes /\ got'[p].meta \in {NoMeta, disk.meta}
       \/ SameCore(got'[p], got[p]) \/ SameCore(got'[p], cache[p].atlas)
       \/ got'[p].meta = got[p].meta /\ got'[p].nodes = disk.nodes
    /\ \/ SameCore(cache'[p].atlas, NoAtlas) \/ SameCore(cache'[p].atlas, got[p])
       \/ SameCore(cache'[p].atlas, cache[p].atlas)
    /\ plan'[p].build # 0 =>
       \/ plan'[p].build = plan[p].build /\ pc[p] \notin {"prune", "seed"}
       \/ plan'[p].build = count.builds + 1
LEMMA HandsOnSteps ==
    ASSUME TypeInv, Numbering, NEW p \in Procs, TakesOver(p),
           \/ Load(p) \/ Query(p) \/ BeginBuild(p) \/ GivesUp(p) \/ Throws(p) \/ Dies(p)
    PROVE  HandsOn(p) /\ TakesOver(p)'
  <1>0. /\ pc \in [Procs -> Places] /\ got \in [Procs -> Atlases] /\ cache \in [Procs -> Entries]
        /\ plan \in [Procs -> Plans] /\ disk \in Atlases /\ PlanFollowsPlace
    BY DEF TypeInv, TypeOK
  <1>a. /\ NoAtlas.nodes = NoNodes /\ NoAtlas.meta = NoMeta /\ NoEntry.atlas = NoAtlas
        /\ NoMeta.build = 0 /\ NoPlan.build = 0 /\ NoPlan.forced = FALSE
        /\ \A x : /\ [NoAtlas EXCEPT !.meta = x].nodes = NoNodes
                  /\ [NoAtlas EXCEPT !.meta = x].meta = x
    BY DEF NoAtlas, NoEntry, NoMeta, NoPlan
  <1> HIDE DEF NoAtlas, NoNodes, NoMeta, NoEntry, NoPlan
  <1> USE DEF Step, Shared
  <1>1. CASE BeginQuery(p)
    <2>1. /\ pc'[p] = "meta" /\ got'[p] = NoAtlas /\ plan'[p].build = 0 /\ plan'[p].forced = FALSE
          /\ cache'[p] = cache[p]
      BY <1>0, <1>1, NewPlan DEF BeginQuery, Opened, NoPlan
    <2> QED
      BY <1>a, <2>1 DEF HandsOn, SameCore, TakesOver, Loading
  <1>2. CASE BeginBuild(p)
    <2>0. PICK forced \in BOOLEAN :
            /\ Step(p, "idle", IF forced THEN "preflight" ELSE "meta")
            /\ Opened(p, count.builds + 1, forced)
      BY <1>2 DEF BeginBuild
    <2>a. /\ [NoPlan EXCEPT !.build = count.builds + 1, !.forced = forced].build = count.builds + 1
          /\ [NoPlan EXCEPT !.build = count.builds + 1, !.forced = forced].forced = forced
      BY DEF NoPlan
    <2>1. /\ got'[p] = NoAtlas /\ plan'[p].build = count.builds + 1 /\ cache'[p] = cache[p]
          /\ \/ pc'[p] = "meta" /\ plan'[p].forced = FALSE
             \/ pc'[p] = "preflight"
      BY <1>0, <2>0, <2>a DEF Opened
    <2> QED
      BY <1>a, <2>1 DEF HandsOn, SameCore, TakesOver, Loading
  <1>b. ASSUME NEW from \in Loading, NEW atlas,
               Reads(p, from, "cached", atlas) \/ Reads(p, from, "nodes", atlas)
               \/ Reads(p, from, "edges", atlas) \/ Reads(p, from, "index", atlas)
               \/ Reads(p, from, "keep", atlas) \/ Reads(p, from, Goal(p), atlas)
        PROVE  /\ got'[p] = atlas /\ cache'[p] = cache[p] /\ plan'[p] = plan[p]
               /\ pc[p] \notin {"prune", "seed"} /\ TakesOver(p)'
    <2>1. /\ pc[p] \in Loading /\ pc'[p] \in Loading \union {"query", "preflight"}
          /\ got'[p] = atlas /\ cache'[p] = cache[p] /\ plan'[p] = plan[p]
      BY <1>0, <1>b DEF Reads, Goal, Loading
    <2> QED
      BY <2>1 DEF TakesOver, Loading
  <1>3. CASE StatMeta(p) \/ ReadMeta(p)
    <2>1. /\ pc[p] \in {"meta", "readMeta"}
          /\ pc'[p] \in {"readMeta", "cached", "query", "preflight"}
          /\ cache'[p].atlas = cache[p].atlas /\ plan'[p] = plan[p]
      BY <1>0, <1>3 DEF StatMeta, ReadMeta, Reads, Goal, Entries
    <2>2. \/ got'[p] = NoAtlas \/ got'[p] = got[p]
          \/ got'[p] = [NoAtlas EXCEPT !.meta = disk.meta]
          \/ /\ got'[p] = [NoAtlas EXCEPT !.meta = cache[p].meta]
             /\ pc[p] = "meta" /\ disk.meta.build # 0 /\ cache[p].key = disk.meta.build
      BY <1>0, <1>3 DEF StatMeta, ReadMeta, MetaHits, Reads
    <2>3. \/ got'[p].nodes = NoNodes /\ got'[p].meta \in {NoMeta, disk.meta}
          \/ got'[p] = got[p]
      <3>1. pc[p] = "meta" /\ cache[p].key # 0 /\ cache[p].key = disk.meta.build => cache[p].meta = disk.meta
        <4>1. KeyTells(p)
          BY DEF Numbering, KnownMetas
        <4> QED
          BY <4>1 DEF KeyTells
      <3>2. CASE got'[p] = NoAtlas \/ got'[p] = got[p]
        BY <1>a, <3>2
      <3>3. CASE got'[p] = [NoAtlas EXCEPT !.meta = disk.meta]
        BY <1>a, <3>3
      <3>4. CASE /\ got'[p] = [NoAtlas EXCEPT !.meta = cache[p].meta]
                 /\ pc[p] = "meta" /\ disk.meta.build # 0 /\ cache[p].key = disk.meta.build
        <4>1. got'[p].nodes = NoNodes /\ got'[p].meta = cache[p].meta
          BY <1>a, <3>4
        <4> QED
          BY <3>1, <3>4, <4>1
      <3> QED
        BY <2>2, <3>2, <3>3, <3>4
    <2>4. TakesOver(p)'
      BY <2>1 DEF TakesOver, Loading
    <2> QED
      BY <2>1, <2>3, <2>4 DEF HandsOn, SameCore
  <1>4. CASE UseCached(p)
    BY <1>4, <1>b DEF UseCached, HandsOn, SameCore, Loading
  <1>5. CASE ReadOn(p)
    BY <1>5, <1>b DEF ReadOn, HandsOn, SameCore, Loading
  <1>6. CASE ReadNodes(p)
    <2>1. /\ [got[p] EXCEPT !.nodes = disk.nodes].meta = got[p].meta
          /\ [got[p] EXCEPT !.nodes = disk.nodes].nodes = disk.nodes
      BY <1>0 DEF Atlases
    <2> QED
      BY <1>6, <1>b, <2>1 DEF ReadNodes, HandsOn, SameCore, Loading
  <1>7. CASE ReadEdges(p)
    <2>1. SameCore([got[p] EXCEPT !.edges = disk.edges], got[p])
      BY <1>0 DEF Atlases, SameCore
    <2> QED
      BY <1>7, <1>b, <2>1 DEF ReadEdges, HandsOn, SameCore, Loading
  <1>8. CASE ReadIndex(p)
    <2>1. SameCore([got[p] EXCEPT !.index = disk.index], got[p])
      BY <1>0 DEF Atlases, SameCore
    <2>2. PICK atlas \in {NoAtlas, [got[p] EXCEPT !.index = disk.index]} :
              Reads(p, "index", "keep", atlas) \/ Reads(p, "index", Goal(p), atlas)
      BY <1>8 DEF ReadIndex
    <2>3. /\ got'[p] = atlas /\ cache'[p] = cache[p] /\ plan'[p] = plan[p]
          /\ pc[p] \notin {"prune", "seed"} /\ TakesOver(p)'
      <3>1. "index" \in Loading
        BY DEF Loading
      <3> QED
        BY ONLY <1>b, <2>2, <3>1
    <2> QED
      BY <1>a, <2>1, <2>3 DEF HandsOn, SameCore
  <1>9. CASE Remember(p)
    <2>1. /\ pc[p] = "keep" /\ pc'[p] \in {"query", "preflight"}
          /\ got'[p] = got[p] /\ plan'[p] = plan[p]
          /\ cache'[p].atlas \in {NoAtlas, got[p]}
      BY <1>0, <1>9 DEF Remember, Goal, Entries
    <2> QED
      BY <1>a, <2>1 DEF HandsOn, SameCore, TakesOver, Loading
  <1>10. CASE JoinIncludes(p)
    <2>1. pc'[p] = "query" /\ plan'[p] = plan[p] /\ pc[p] = "query"
      BY <1>10 DEF JoinIncludes
    <2>2. SameCore(got'[p], got[p])
      BY <1>0, <1>10 DEF JoinIncludes, SameCore, Atlases
    <2>3. SameCore(cache'[p].atlas, cache[p].atlas)
      <3>1. SameCore([cache[p] EXCEPT !.atlas.includes = disk.includes].atlas, cache[p].atlas)
        BY <1>0 DEF Entries, Atlases, SameCore
      <3> QED
        BY <1>0, <1>10, <3>1 DEF JoinIncludes, SameCore
    <2> QED
      BY <2>1, <2>2, <2>3 DEF HandsOn, TakesOver, Loading
  <1>11. CASE EndQuery(p)
    <2>1. /\ pc[p] = "query" /\ pc'[p] = "idle" /\ got'[p] = NoAtlas /\ cache'[p] = cache[p]
          /\ plan'[p] = plan[p]
      BY <1>0, <1>11 DEF EndQuery
    <2> QED
      BY <1>a, <2>1 DEF HandsOn, SameCore, TakesOver, Loading
  <1>12. CASE GivesUp(p) \/ Throws(p) \/ Dies(p)
    <2>1. /\ pc'[p] = "idle" /\ got'[p] \in {got[p], NoAtlas} /\ cache'[p] \in {cache[p], NoEntry}
          /\ plan'[p] = NoPlan
      BY <1>0, <1>12 DEF GivesUp, Throws, Dies, Trouble
    <2> QED
      BY <1>a, <2>1 DEF HandsOn, SameCore, TakesOver, Loading
  <1> QED
    BY <1>1, <1>2, <1>3, <1>4, <1>5, <1>6, <1>7, <1>8, <1>9, <1>10, <1>11, <1>12
       DEF Load, Query

\* Texts of the segments before build n stay when those of n are written.
LEMMA OlderTextsStay ==
    ASSUME NEW n \in Nat, NEW m \in Metas, NamesOld(m), m.build < n, NEW cards,
           \A s \in Segments : s[1] < n => terms'.has[s] = terms.has[s],
           Covered(cards, m.segs)
    PROVE  Covered(cards, m.segs)'
  <1>1. \A s \in m.segs : s \in Segments /\ s[1] \in Nat /\ s[1] < n
    BY DEF NamesOld, Metas, Segments, Builds
  <1> QED
    BY <1>1 DEF Covered

\* Hands, caches and the committed build keep their texts while a build goes on.
LEMMA AtlasesStay ==
    ASSUME TypeInv, KeptAtlases, UNCHANGED <<got, cache>>,
           disk'.meta = disk.meta, disk'.nodes = disk.nodes,
           NEW p \in Procs, IsNewer(p), plan[p].build # 0, pc[p] \notin {"prune", "seed"},
           \A s \in Segments : s[1] < plan[p].build => terms'.has[s] = terms.has[s]
    PROVE  KeptAtlases'
  <1>0. /\ got \in [Procs -> Atlases] /\ cache \in [Procs -> Entries] /\ disk \in Atlases
        /\ plan \in [Procs -> Plans]
    BY DEF TypeInv, TypeOK
  <1>1. plan[p].build \in Nat /\ disk.meta \in Metas /\ disk.meta.build < plan[p].build
    BY <1>0 DEF Plans, Atlases, IsNewer
  <1>2. \A q \in Procs : got[q].meta \in Metas /\ cache[q].atlas.meta \in Metas
    BY <1>0 DEF Atlases, Entries
  <1>3. \A q \in Procs : got[q].meta.build < plan[p].build /\ cache[q].atlas.meta.build < plan[p].build
    BY <1>1, <1>2 DEF KeptAtlases, Rising, Metas
  <1>4. Rising' /\ Naming'
    BY DEF KeptAtlases, Rising, Naming, NamesOld
  <1>5. CoversItself(disk)'
    <2>1. SUFFICES ASSUME AgreeOnNodes(disk) PROVE Covered(disk.nodes.cards, disk.meta.segs)'
      BY DEF CoversItself, AgreeOnNodes
    <2>2. NamesOld(disk.meta) /\ Covered(disk.nodes.cards, disk.meta.segs)
      BY <2>1 DEF KeptAtlases, Naming, Coverage, CoversItself
    <2>3. PICK m, cards : m = disk.meta /\ cards = disk.nodes.cards
      OBVIOUS
    <2>4. Covered(cards, m.segs)'
      BY <1>1, <2>2, <2>3, OlderTextsStay
    <2> QED
      BY <2>3, <2>4 DEF Covered
  <1>6. ASSUME NEW q \in Procs PROVE CoversItself(got[q])' /\ CoversItself(cache[q].atlas)'
    <2>1. CoversItself(got[q])'
      <3>1. SUFFICES ASSUME AgreeOnNodes(got[q]) PROVE Covered(got[q].nodes.cards, got[q].meta.segs)'
        BY DEF CoversItself, AgreeOnNodes
      <3>2. NamesOld(got[q].meta) /\ Covered(got[q].nodes.cards, got[q].meta.segs)
        BY <3>1 DEF KeptAtlases, Naming, Coverage, CoversItself
      <3>3. PICK m, cards : m = got[q].meta /\ cards = got[q].nodes.cards
        OBVIOUS
      <3>4. Covered(cards, m.segs)'
        BY <1>1, <1>2, <1>3, <3>2, <3>3, OlderTextsStay
      <3> QED
        BY <3>3, <3>4 DEF Covered
    <2>2. CoversItself(cache[q].atlas)'
      <3>1. SUFFICES ASSUME AgreeOnNodes(cache[q].atlas)
                     PROVE  Covered(cache[q].atlas.nodes.cards, cache[q].atlas.meta.segs)'
        BY DEF CoversItself, AgreeOnNodes
      <3>2. /\ NamesOld(cache[q].atlas.meta)
            /\ Covered(cache[q].atlas.nodes.cards, cache[q].atlas.meta.segs)
        BY <3>1 DEF KeptAtlases, Naming, Coverage, CoversItself
      <3>3. PICK m, cards : m = cache[q].atlas.meta /\ cards = cache[q].atlas.nodes.cards
        OBVIOUS
      <3>4. Covered(cards, m.segs)'
        BY <1>1, <1>2, <1>3, <3>2, <3>3, OlderTextsStay
      <3> QED
        BY <3>3, <3>4 DEF Covered
    <2> QED
      BY <2>1, <2>2
  <1> QED
    BY <1>4, <1>5, <1>6 DEF KeptAtlases, Coverage

\* A calm step hands on what is covered.
LEMMA CalmKeepsAtlases ==
    ASSUME TypeInv, Numbering, KeptAtlases, NEW p \in Procs, Calm(p), HandsOn(p)
    PROVE  KeptAtlases'
  <1>0. /\ got \in [Procs -> Atlases] /\ cache \in [Procs -> Entries] /\ disk \in Atlases
    BY DEF TypeInv, TypeOK
  <1>1. /\ disk.meta.build \in Nat /\ disk.nodes.build \in Nat
        /\ \A q \in Procs : got[q].meta.build \in Nat /\ cache[q].atlas.meta.build \in Nat
    BY <1>0 DEF Atlases, Entries, Metas, Nodes
  <1>2. \A q \in Procs : CoversItself(got[q])' <=> CoversItself(got'[q])
    BY DEF Calm, CoversItself, AgreeOnNodes, Covered
  <1>3. \A q \in Procs : CoversItself(cache[q].atlas)' <=> CoversItself(cache'[q].atlas)
    BY DEF Calm, CoversItself, AgreeOnNodes, Covered
  <1>4. CoversItself(disk)'
    BY DEF KeptAtlases, Coverage, Calm, CoversItself, AgreeOnNodes, Covered
  <1>5. /\ NoMeta.build = 0 /\ NoMeta.segs = {} /\ NoNodes.build = 0
        /\ NoAtlas.meta = NoMeta /\ NoAtlas.nodes = NoNodes
    BY DEF NoMeta, NoNodes, NoAtlas
  <1>6. got'[p].meta \in {NoMeta, disk.meta, got[p].meta, cache[p].atlas.meta}
    BY DEF HandsOn, SameCore
  <1>7. cache'[p].atlas.meta \in {NoMeta, got[p].meta, cache[p].atlas.meta}
    BY <1>5 DEF HandsOn, SameCore
  <1>8. Rising'
    BY SMTT(40), <1>1, <1>5, <1>6, <1>7 DEF KeptAtlases, Rising, Calm
  <1>9. Naming'
    BY SMTT(40), <1>5, <1>6, <1>7 DEF KeptAtlases, Naming, NamesOld, Calm
  <1>10. CoversItself(got'[p])
    <2>1. CASE got'[p].nodes = NoNodes
      BY <2>1, <1>5 DEF CoversItself, AgreeOnNodes
    <2>2. CASE SameCore(got'[p], got[p]) \/ SameCore(got'[p], cache[p].atlas)
      BY <2>2 DEF SameCore, KeptAtlases, Coverage, CoversItself, AgreeOnNodes
    <2>3. CASE got'[p].meta = got[p].meta /\ got'[p].nodes = disk.nodes
      <3>1. SUFFICES ASSUME got[p].meta.build # 0, disk.nodes.build = got[p].meta.build
                     PROVE  Covered(disk.nodes.cards, got[p].meta.segs)
        BY <2>3 DEF CoversItself, AgreeOnNodes
      <3>2. got[p].meta.build = disk.meta.build
        BY <1>1, <3>1 DEF KeptAtlases, Rising
      <3>3. got[p].meta = disk.meta
        BY <3>1, <3>2 DEF Numbering, KnownMetas, SameMeta, KeyTells
      <3> QED
        BY <3>1, <3>3 DEF KeptAtlases, Coverage, CoversItself, AgreeOnNodes
    <2> QED
      BY <2>1, <2>2, <2>3 DEF HandsOn
  <1>11. CoversItself(cache'[p].atlas)
    BY <1>5 DEF HandsOn, SameCore, KeptAtlases, Coverage, CoversItself, AgreeOnNodes
  <1>12. \A q \in Procs \ {p} : CoversItself(got'[q]) /\ CoversItself(cache'[q].atlas)
    BY DEF Calm, KeptAtlases, Coverage
  <1>13. Coverage'
    BY <1>2, <1>3, <1>4, <1>10, <1>11, <1>12 DEF Coverage
  <1> QED
    BY <1>8, <1>9, <1>13 DEF KeptAtlases

LEMMA CoveringStep ==
    TypeInv /\ Loads /\ Commits /\ Halfway /\ Covering
    /\ ~SideBySide /\ ~HintsMayRace /\ ~DiskMayFail /\ [Next]_vars => Covering'
  <1> SUFFICES ASSUME TypeInv, Loads, Commits, Halfway, Covering,
                      ~SideBySide, ~HintsMayRace, ~DiskMayFail, [Next]_vars
               PROVE  Covering'
    OBVIOUS
  <1>0. /\ pc \in [Procs -> Places] /\ got \in [Procs -> Atlases] /\ cache \in [Procs -> Entries]
        /\ plan \in [Procs -> Plans] /\ disk \in Atlases /\ terms \in TermsOf
        /\ count.builds \in Nat
    BY DEF TypeInv, TypeOK, TermsOf
  <1>n. /\ disk.meta.build \in Nat /\ disk.nodes.build \in Nat
        /\ \A q \in Procs : plan[q].build \in Nat
    BY <1>0 DEF Plans, Atlases, Metas, Nodes
  <1> DEFINE Good(q) == IsNewer(q) /\ TakesOver(q) /\ HasItsTexts(q)
  <1>a. KeptAtlases /\ \A q \in Procs : Good(q)
    BY DEF Covering
  <1>b. ASSUME NEW p \in Procs, pc[p] \in Building, Good(p)', KeptAtlases',
               \A q \in Procs \ {p} : pc'[q] = pc[q] /\ plan'[q] = plan[q]
        PROVE  Covering'
    <2>1. \A q \in Procs \ {p} : Good(q)'
      <3> TAKE q \in Procs \ {p}
      <3>1. /\ pc'[q] \notin Working /\ pc'[q] \notin Building /\ plan'[q].build = 0
            /\ pc'[q] = pc[q] /\ plan'[q] = plan[q]
        BY <1>b, OthersDoNotBuild DEF Commits
      <3>2. TakesOver(q)
        BY <1>a
      <3>3. TakesOver(q)'
        BY <3>1, <3>2 DEF TakesOver, Building
      <3> QED
        BY <3>1, <3>3 DEF IsNewer, HasItsTexts, Building
    <2> QED
      BY <1>b, <2>1 DEF Covering
  <1>c. ASSUME NEW q \in Procs, disk'.meta = disk.meta, UNCHANGED terms,
               pc'[q] = pc[q], plan'[q] = plan[q], got'[q] = got[q],
               hints' = hints \/ pc[q] # "scan"
        PROVE  Good(q)'
    BY <1>a, <1>c DEF IsNewer, TakesOver, HasItsTexts, Feeding, Covered, NamesOld, AgreeOnNodes,
                      FreshSegment
  <1>1. ASSUME NEW p \in Procs,
               \/ Load(p) \/ Query(p) \/ BeginBuild(p) \/ GivesUp(p) \/ Throws(p) \/ Dies(p)
        PROVE  Covering'
    <2>1. Calm(p)
      BY <1>1, CalmSteps
    <2>2. HandsOn(p) /\ TakesOver(p)'
      BY <1>1, <1>a, HandsOnSteps DEF Commits
    <2>3. KeptAtlases'
      BY <1>a, <2>1, <2>2, CalmKeepsAtlases DEF Commits
    <2>4. \A q \in Procs \ {p} : Good(q)'
      BY <2>1, <1>c DEF Calm
    <2>5. IsNewer(p)'
      BY <1>0, <1>n, <1>a, <2>1, <2>2 DEF Calm, HandsOn, IsNewer, Commits, Numbering, NumbersKnown
    <2>6. HasItsTexts(p)'
      BY <2>1 DEF Calm, HasItsTexts, Working, Drafting, Writing
    <2> QED
      BY <2>2, <2>3, <2>4, <2>5, <2>6 DEF Covering
  <1> USE DEF Step, Shared, Own
  <1>2. ASSUME NEW p \in Procs, Preflight(p) PROVE Covering'
    <2>1. /\ pc[p] = "preflight" /\ pc'[p] = "scan"
          /\ \A q \in Procs \ {p} : pc'[q] = pc[q] /\ plan'[q] = plan[q]
          /\ plan'[p].build = plan[p].build /\ plan'[p].forced = plan[p].forced
          /\ UNCHANGED <<disk, got, cache, hints, terms>>
      BY <1>0, <1>2 DEF Preflight, Plans
    <2>a. /\ plan'[p].pre = (got[p].meta.build # 0 /\ got[p].meta.hints = hints)
          /\ plan'[p].prev = IF got[p].meta.build # 0 /\ got[p].meta.hints = hints
                             THEN got[p].nodes.cards ELSE {}
      BY <1>0, <1>2 DEF Preflight, Plans
    <2>2. KeptAtlases'
      BY <1>a, <2>1 DEF KeptAtlases, Rising, Naming, NamesOld, Coverage, CoversItself, AgreeOnNodes, Covered
    <2>3. got[p].meta.build # 0 => AgreeOnNodes(got[p])
      BY <2>1 DEF Loads, HasOneBuild, OneBuild, AgreeOnNodes
    <2>4. TakesOver(p)'
      <3>1. plan'[p].forced => got'[p].meta.build = 0
        BY <1>a, <2>1 DEF TakesOver
      <3>2. got'[p].meta.build # 0 => AgreeOnNodes(got'[p])
        BY <2>1, <2>3
      <3>3. plan'[p].pre => got'[p].meta.build # 0 /\ got'[p].meta.hints = hints'
        BY <2>1, <2>a
      <3>4. ~plan'[p].pre => plan'[p].prev = {}
        BY <2>1, <2>a
      <3> QED
        BY <2>1, <3>1, <3>2, <3>3, <3>4 DEF TakesOver, AgreeOnNodes, Loading
    <2>5. IsNewer(p)' /\ HasItsTexts(p)'
      BY <1>a, <2>1 DEF IsNewer, HasItsTexts, Writing
    <2> QED
      BY <2>1, <2>2, <2>4, <2>5, <1>b DEF Building
  <1>3. ASSUME NEW p \in Procs, Scan(p) PROVE Covering'
    <2>1. /\ pc[p] = "scan"
          /\ pc'[p] = IF plan[p].pre /\ ~Reusable(p) /\ Reused(p) THEN "rescan" ELSE "extract"
          /\ \A q \in Procs \ {p} : pc'[q] = pc[q] /\ plan'[q] = plan[q]
          /\ UNCHANGED <<disk, got, cache, hints, terms>>
      BY <1>0, <1>3 DEF Scan, Scanned
    <2>a. /\ plan'[p].build = plan[p].build /\ plan'[p].gap = plan[p].gap
          /\ plan'[p].whole = Reusable(p) /\ plan'[p].prev = Left(p)
      BY <1>0, <1>3 DEF Scan, Scanned, Plans
    <2>2. KeptAtlases'
      BY <1>a, <2>1 DEF KeptAtlases, Rising, Naming, NamesOld, Coverage, CoversItself, AgreeOnNodes, Covered
    <2>3. /\ plan[p].forced => got[p].meta.build = 0
          /\ got[p].meta.build # 0 => AgreeOnNodes(got[p])
          /\ plan[p].pre => got[p].meta.build # 0 /\ got[p].meta.hints = hints
          /\ ~plan[p].pre => plan[p].prev = {}
      BY <1>a, <2>1 DEF TakesOver
    <2>4. plan[p].pre /\ ~Reusable(p) => plan[p].gap /\ IndexMissing(p)
      BY <2>3 DEF Reusable, IndexMissing
    <2>5. Reusable(p) => AgreeOnNodes(got[p]) /\ Left(p) = got[p].nodes.cards
      <3>1. Reusable(p) => ~IndexMissing(p)
        BY DEF Reusable, IndexMissing
      <3>2. Reusable(p) => Left(p) = got[p].nodes.cards
        BY <3>1 DEF Left
      <3> QED
        BY <2>3, <3>2 DEF Reusable
    <2>6. ~Reusable(p) => Left(p) = {}
      <3>1. CASE IndexMissing(p)
        BY <3>1 DEF Left
      <3>2. CASE ~IndexMissing(p)
        BY <2>3, <2>4, <3>2 DEF Left
      <3> QED
        BY <3>1, <3>2
    <2>7. TakesOver(p)'
      <3>1. CASE pc'[p] = "rescan"
        <4>1. plan'[p].gap /\ plan'[p].prev = {}
          BY <2>1, <2>a, <2>4, <2>6, <3>1
        <4> QED
          BY <3>1, <4>1 DEF TakesOver, Loading
      <3>2. CASE pc'[p] = "extract"
        <4>1. ~plan'[p].whole => plan'[p].prev = {}
          BY <2>a, <2>6
        <4>2. plan'[p].whole => AgreeOnNodes(got'[p]) /\ plan'[p].prev = got'[p].nodes.cards
          BY <2>1, <2>a, <2>5
        <4> QED
          BY <3>2, <4>1, <4>2 DEF TakesOver, AgreeOnNodes, Loading
      <3> QED
        BY <2>1, <3>1, <3>2
    <2>8. IsNewer(p)' /\ HasItsTexts(p)'
      BY <1>a, <2>1, <2>a DEF IsNewer, HasItsTexts, Writing
    <2> QED
      BY <2>1, <2>2, <2>7, <2>8, <1>b DEF Building
  <1>4. ASSUME NEW p \in Procs, Rescan(p) PROVE Covering'
    <2>1. /\ pc[p] = "rescan" /\ pc'[p] = "extract"
          /\ \A q \in Procs \ {p} : pc'[q] = pc[q] /\ plan'[q] = plan[q]
          /\ UNCHANGED <<disk, got, cache, terms>>
      BY <1>0, <1>4 DEF Rescan
    <2>a. /\ plan'[p].build = plan[p].build /\ plan'[p].whole = Reusable(p)
          /\ plan'[p].prev = plan[p].prev
      BY <1>0, <1>4 DEF Rescan, Plans
    <2>2. KeptAtlases'
      BY <1>a, <2>1 DEF KeptAtlases, Rising, Naming, NamesOld, Coverage, CoversItself, AgreeOnNodes, Covered
    <2>3. plan[p].gap /\ plan[p].prev = {}
      BY <1>a, <2>1 DEF TakesOver
    <2>4. plan'[p].whole = FALSE /\ plan'[p].prev = {}
      BY <2>a, <2>3 DEF Reusable
    <2>5. TakesOver(p)' /\ IsNewer(p)' /\ HasItsTexts(p)'
      BY <1>a, <2>1, <2>a, <2>4 DEF TakesOver, IsNewer, HasItsTexts, Loading, Writing
    <2> QED
      BY <2>1, <2>2, <2>5, <1>b DEF Building
  <1>5. ASSUME NEW p \in Procs, Extract(p) PROVE Covering'
    <2> DEFINE old == UNION {OldCard(p, f) : f \in Present(p)}
               new == {[file |-> f, stat |-> plan[p].seen[f], read |-> work[f]] : f \in Fresh(p)}
               texts == {<<f, work[f]>> : f \in {f \in Fresh(p) : work[f] # 0}}
    <2>1. /\ pc[p] = "extract" /\ pc'[p] = IF texts = {} THEN "pack" ELSE "segment"
          /\ \A q \in Procs \ {p} : pc'[q] = pc[q] /\ plan'[q] = plan[q]
          /\ UNCHANGED <<disk, got, cache>>
      BY <1>0, <1>5 DEF Extract
    <2>a. /\ plan'[p].build = plan[p].build /\ plan'[p].cards = old \union new
          /\ plan'[p].texts = texts
          /\ plan'[p].segs = IF plan[p].whole THEN got[p].meta.segs ELSE {}
      BY ZenonT(40), <1>0, <1>5 DEF Extract, Plans
    <2>b. terms'.has = terms.has
      BY <1>0, <1>5 DEF Extract, TermsOf
    <2>c. texts # {} => FreshSegment(p) \in terms'.dirs
      BY <1>0, <1>5 DEF Extract, TermsOf
    <2>2. \A c \in new : c.read # 0 => <<c.file, c.read>> \in texts
      OBVIOUS
    <2>3. old \subseteq plan[p].prev
      BY DEF OldCard
    <2> HIDE DEF old, new, texts
    <2>4. KeptAtlases'
      BY <1>a, <2>1, <2>b DEF KeptAtlases, Rising, Naming, NamesOld, Coverage, CoversItself, AgreeOnNodes, Covered
    <2>5. IsNewer(p)' /\ TakesOver(p)'
      BY <1>a, <2>1, <2>a DEF IsNewer, TakesOver, Loading
    <2>6. CASE plan[p].whole
      <3>1. AgreeOnNodes(got[p]) /\ plan[p].prev = got[p].nodes.cards
        BY <1>a, <2>1, <2>6 DEF TakesOver
      <3>2. got[p].meta = disk.meta /\ disk.meta.build < plan[p].build
        BY <1>a, <2>1, <3>1 DEF Commits, Sources, StartsFromMeta, AgreeOnNodes, IsNewer,
                               TypeInv, PlanFollowsPlace, Building
      <3>3. \A s \in got[p].meta.segs : s[1] <= disk.meta.build
        BY <1>a, <3>2 DEF KeptAtlases, Naming, NamesOld
      <3>4. \A s \in got[p].meta.segs : s[1] \in Nat
        BY <1>0 DEF Atlases, Metas, Segments, Builds
      <3>5. \A s \in plan'[p].segs : s[1] < plan'[p].build /\ s[1] <= plan'[p].build
        BY <1>n, <2>6, <2>a, <3>2, <3>3, <3>4
      <3>6. Covered(plan[p].prev, got[p].meta.segs)
        BY <1>a, <3>1 DEF KeptAtlases, Coverage, CoversItself
      <3>7. Feeding(p)'
        BY <2>a, <2>b, <2>2, <2>3, <2>6, <3>6 DEF Feeding, Covered
      <3>8. texts = {} => Covered(plan[p].cards, plan[p].segs)'
        BY <2>a, <3>7 DEF Feeding, Covered
      <3>9. HasItsTexts(p)'
        BY <2>1, <2>a, <2>c, <3>5, <3>7, <3>8 DEF HasItsTexts, NamesOld, FreshSegment, Writing
      <3> QED
        BY <2>1, <2>4, <2>5, <3>9, <1>b DEF Building
    <2>7. CASE ~plan[p].whole
      <3>1. plan[p].prev = {}
        BY <1>a, <2>1, <2>7 DEF TakesOver
      <3>2. Feeding(p)'
        BY <2>a, <2>2, <2>3, <3>1 DEF Feeding
      <3>3. texts = {} => Covered(plan[p].cards, plan[p].segs)'
        BY <2>a, <3>2 DEF Feeding, Covered
      <3>4. HasItsTexts(p)'
        BY <2>1, <2>a, <2>c, <2>7, <3>2, <3>3 DEF HasItsTexts, NamesOld, FreshSegment, Writing
      <3> QED
        BY <2>1, <2>4, <2>5, <3>4, <1>b DEF Building
    <2> QED
      BY <2>6, <2>7
  <1>6. ASSUME NEW p \in Procs, FinishSegment(p) PROVE Covering'
    <2>1. /\ pc[p] = "segment" /\ pc'[p] = "pack"
          /\ \A q \in Procs \ {p} : pc'[q] = pc[q] /\ plan'[q] = plan[q]
          /\ UNCHANGED <<disk, got, cache>>
      BY <1>0, <1>6 DEF FinishSegment
    <2>2. /\ \A s \in plan[p].segs : s[1] < plan[p].build
          /\ FreshSegment(p) \in terms.dirs /\ Feeding(p)
      BY <1>a, <2>1 DEF HasItsTexts
    <2>3. /\ terms' = [terms EXCEPT !.whole = @ \union {FreshSegment(p)},
                                    !.has[FreshSegment(p)] = plan[p].texts]
          /\ plan' = [plan EXCEPT ![p].segs = @ \union {FreshSegment(p)}]
      BY <1>6, <2>2 DEF FinishSegment
    <2>4. /\ FreshSegment(p) \in Segments /\ FreshSegment(p)[1] = plan[p].build
          /\ plan[p].build # 0
      BY <2>1, BuildsOwnSegments DEF TypeInv, PlanFollowsPlace, Building, FreshSegment
    <2>5. terms'.has = [terms.has EXCEPT ![FreshSegment(p)] = plan[p].texts]
      BY <1>0, <2>3 DEF TermsOf
    <2>6. /\ terms'.has[FreshSegment(p)] = plan[p].texts
          /\ \A s \in Segments : s[1] < plan[p].build => terms'.has[s] = terms.has[s]
      BY <1>0, <1>n, <2>4, <2>5 DEF TermsOf
    <2>7. /\ plan'[p].segs = plan[p].segs \union {FreshSegment(p)}
          /\ plan'[p].cards = plan[p].cards /\ plan'[p].build = plan[p].build
      BY <1>0, <2>3 DEF Plans
    <2>8. KeptAtlases'
      BY <1>a, <2>1, <2>4, <2>6, AtlasesStay
    <2>9. IsNewer(p)' /\ TakesOver(p)'
      BY <1>a, <2>1, <2>7 DEF IsNewer, TakesOver, Loading
    <2>10. \A s \in plan[p].segs : s \in Segments /\ s[1] \in Nat
      BY <1>0 DEF Plans, Segments, Builds
    <2>11. NamesOld(plan'[p])
      BY <1>n, <2>2, <2>4, <2>7, <2>10 DEF NamesOld
    <2>12. Covered(plan[p].cards, plan[p].segs)'
      BY <2>2, <2>6, <2>7, <2>10 DEF Covered, Feeding
    <2>13. HasItsTexts(p)'
      BY <2>1, <2>11, <2>12 DEF HasItsTexts, NamesOld
    <2> QED
      BY <2>1, <2>8, <2>9, <2>13, <1>b DEF Building
  <1>7. ASSUME NEW p \in Procs, Pack(p) PROVE Covering'
    <2>1. /\ pc[p] = "pack" /\ pc'[p] = "putNodes"
          /\ \A q \in Procs \ {p} : pc'[q] = pc[q] /\ plan'[q] = plan[q]
          /\ plan'[p].cards = plan[p].cards /\ plan'[p].build = plan[p].build
          /\ UNCHANGED <<disk, got, cache>>
      BY <1>0, <1>7 DEF Pack, Publish, Order, Plans
    <2>2. NamesOld(plan[p]) /\ Covered(plan[p].cards, plan[p].segs)
      BY <1>a, <2>1 DEF HasItsTexts
    <2>3. /\ PackedSegment(p) \in Segments /\ PackedSegment(p)[1] = plan[p].build
          /\ plan[p].build # 0
      BY <2>1, BuildsOwnSegments DEF TypeInv, PlanFollowsPlace, Building, PackedSegment
    <2>4. IsNewer(p)' /\ TakesOver(p)'
      BY <1>a, <2>1 DEF IsNewer, TakesOver, Loading
    <2>5. CASE terms' = terms /\ plan' = plan
      <3>1. KeptAtlases'
        BY <1>a, <2>1, <2>3, <2>5, AtlasesStay
      <3>2. HasItsTexts(p)'
        BY <2>1, <2>2, <2>5 DEF HasItsTexts, NamesOld, Covered
      <3> QED
        BY <2>1, <2>4, <3>1, <3>2, <1>b DEF Building
    <2>6. CASE ~(terms' = terms /\ plan' = plan)
      <3> DEFINE packed == UNION {terms.has[s] : s \in plan[p].segs \cap terms.whole}
      <3>0. /\ terms' = [dirs |-> terms.dirs \union {PackedSegment(p)},
                          whole |-> terms.whole \union {PackedSegment(p)},
                          has |-> [terms.has EXCEPT ![PackedSegment(p)] = packed]]
            /\ plan' = [plan EXCEPT ![p].segs = {PackedSegment(p)}]
        BY <1>7, <2>6 DEF Pack
      <3>1. terms'.has = [terms.has EXCEPT ![PackedSegment(p)] = packed]
        BY <3>0
      <3>2. plan'[p].segs = {PackedSegment(p)}
        BY <1>0, <3>0 DEF Plans
      <3>3. /\ terms'.has[PackedSegment(p)] = packed
            /\ \A s \in Segments : s[1] < plan[p].build => terms'.has[s] = terms.has[s]
        BY <1>0, <1>n, <2>3, <3>1 DEF TermsOf
      <3>4. plan[p].segs \subseteq terms.whole
        BY <2>1 DEF Halfway, KeepsSegments, Drafting, segmentsIntact
      <3>5. \A c \in plan[p].cards : c.read # 0 => <<c.file, c.read>> \in packed
        BY <2>2, <3>4 DEF Covered
      <3> HIDE DEF packed
      <3>6. KeptAtlases'
        BY <1>a, <2>1, <2>3, <3>3, AtlasesStay
      <3>7. NamesOld(plan'[p])
        BY <1>n, <2>1, <2>3, <3>2 DEF NamesOld
      <3>8. Covered(plan[p].cards, plan[p].segs)'
        BY <2>1, <3>2, <3>3, <3>5 DEF Covered
      <3>9. HasItsTexts(p)'
        BY <2>1, <3>7, <3>8 DEF HasItsTexts, NamesOld
      <3> QED
        BY <2>1, <2>4, <3>6, <3>9, <1>b DEF Building
    <2> QED
      BY <2>5, <2>6
  <1>8. ASSUME NEW p \in Procs, WriteNodes(p) PROVE Covering'
    <2>1. /\ pc[p] = "putNodes" /\ pc'[p] = "putIncludes"
          /\ \A q \in Procs \ {p} : pc'[q] = pc[q]
          /\ UNCHANGED <<got, cache, plan, terms>>
          /\ disk'.meta = disk.meta /\ disk'.nodes.build = plan[p].build
      BY <1>0, <1>8 DEF WriteNodes, Writes, Publish, Order, Atlases
    <2>2. plan[p].build # 0 /\ disk.meta.build < plan[p].build
      BY <1>a, <2>1 DEF IsNewer, TypeInv, PlanFollowsPlace, Building, Writing
    <2>3. KeptAtlases'
      <3>1. Rising'
        BY <1>a, <1>n, <2>1, <2>2 DEF KeptAtlases, Rising
      <3>2. CoversItself(disk)'
        BY <1>n, <2>1, <2>2 DEF CoversItself, AgreeOnNodes
      <3> QED
        BY <1>a, <2>1, <3>1, <3>2 DEF KeptAtlases, Naming, NamesOld, Coverage, CoversItself, AgreeOnNodes, Covered
    <2>4. Good(p)'
      BY <1>a, <2>1 DEF IsNewer, TakesOver, HasItsTexts, NamesOld, Covered, Loading, Writing
    <2> QED
      BY <2>1, <2>3, <2>4, <1>b DEF Building, Writing
  <1>9. ASSUME NEW p \in Procs, WriteIncludes(p) \/ WriteEdges(p) \/ WriteIndex(p) PROVE Covering'
    <2>1. /\ pc[p] \in {"putIncludes", "putEdges", "putIndex"}
          /\ pc'[p] \in {"putEdges", "putIndex", "putMeta"}
          /\ \A q \in Procs \ {p} : pc'[q] = pc[q]
          /\ UNCHANGED <<got, cache, plan, terms>>
          /\ disk'.meta = disk.meta /\ disk'.nodes = disk.nodes
      BY <1>0, <1>9 DEF WriteIncludes, WriteEdges, WriteIndex, Writes, Publish, Order, Atlases
    <2>2. KeptAtlases'
      BY <1>a, <2>1 DEF KeptAtlases, Rising, Naming, NamesOld, Coverage, CoversItself, AgreeOnNodes, Covered
    <2>3. Good(p)'
      BY <1>a, <2>1 DEF IsNewer, TakesOver, HasItsTexts, NamesOld, Covered, Loading, Writing
    <2> QED
      BY <2>1, <2>2, <2>3, <1>b DEF Building, Writing
  <1>10. ASSUME NEW p \in Procs, WriteMeta(p) PROVE Covering'
    <2>1. /\ pc[p] = "putMeta" /\ pc'[p] = "prune"
          /\ \A q \in Procs \ {p} : pc'[q] = pc[q]
          /\ UNCHANGED <<got, cache, plan, terms>>
          /\ disk'.meta = NewMeta(p) /\ disk'.nodes = disk.nodes
      BY <1>0, <1>10 DEF WriteMeta, Writes, Publish, Order, Atlases
    <2>2. /\ plan[p].build # 0 /\ disk.meta.build < plan[p].build
          /\ NamesOld(plan[p]) /\ Covered(plan[p].cards, plan[p].segs)
      BY <1>a, <2>1 DEF IsNewer, HasItsTexts, TypeInv, PlanFollowsPlace, Building, Writing
    <2>3. disk.nodes = [build |-> plan[p].build, cards |-> plan[p].cards]
      BY <2>1 DEF Halfway, HasWritten, Writing
    <2>4. KeptAtlases'
      <3>1. disk'.meta.build = plan[p].build /\ disk'.meta.segs = plan[p].segs
        BY <2>1 DEF NewMeta
      <3>2. Rising'
        <4>1. \A q \in Procs : got[q].meta.build \in Nat /\ cache[q].atlas.meta.build \in Nat
          BY <1>0 DEF Atlases, Entries, Metas
        <4>2. disk'.meta.build <= disk'.nodes.build
          BY <1>n, <2>1, <2>3, <3>1
        <4>3. \A q \in Procs : /\ got'[q].meta.build <= disk'.meta.build
                               /\ cache'[q].atlas.meta.build <= disk'.meta.build
          BY <1>a, <1>n, <2>1, <2>2, <3>1, <4>1 DEF KeptAtlases, Rising
        <4> QED
          BY <4>2, <4>3 DEF Rising
      <3>3. Naming'
        BY <1>a, <2>1, <2>2, <3>1 DEF KeptAtlases, Naming, NamesOld
      <3>4. CoversItself(disk)'
        <4>1. disk'.nodes.cards = plan[p].cards
          BY <2>1, <2>3
        <4> QED
          BY <2>1, <2>2, <3>1, <4>1 DEF CoversItself, Covered
      <3> QED
        BY <1>a, <2>1, <3>2, <3>3, <3>4 DEF KeptAtlases, Coverage, CoversItself, AgreeOnNodes, Covered
    <2>5. Good(p)'
      BY <2>1, <2>2 DEF IsNewer, TakesOver, HasItsTexts, NamesOld, Covered, Loading, Writing
    <2> QED
      BY <2>1, <2>4, <2>5, <1>b DEF Building, Writing
  <1>11. ASSUME NEW p \in Procs, Prune(p) \/ PrunesSome(p) PROVE Covering'
    <2>1. /\ pc[p] = "prune" /\ pc'[p] = "seed"
          /\ \A q \in Procs \ {p} : pc'[q] = pc[q]
          /\ UNCHANGED <<disk, got, cache, plan>>
      BY <1>0, <1>11 DEF Prune, PrunesSome, Publish, Order
    <2>2. terms'.has = terms.has
      BY <1>0, <1>11 DEF Prune, PrunesSome, TermsOf
    <2>3. KeptAtlases'
      BY <1>a, <2>1, <2>2 DEF KeptAtlases, Rising, Naming, NamesOld, Coverage, CoversItself, AgreeOnNodes, Covered
    <2>4. Good(p)'
      BY <1>a, <2>1, <2>2 DEF IsNewer, TakesOver, HasItsTexts, NamesOld, Covered, Loading, Writing
    <2> QED
      BY <2>1, <2>3, <2>4, <1>b DEF Building, Writing
  <1>12. ASSUME NEW p \in Procs, Seed(p) PROVE Covering'
    <2>1. /\ pc[p] = "seed" /\ pc'[p] = "idle" /\ plan'[p] = NoPlan /\ got'[p] = NoAtlas
          /\ \A q \in Procs \ {p} : /\ pc'[q] = pc[q] /\ plan'[q] = plan[q]
                                    /\ got'[q] = got[q] /\ cache'[q] = cache[q]
          /\ cache'[p].atlas \in {NoAtlas, Result(p)}
          /\ UNCHANGED <<disk, terms>>
      BY <1>0, <1>12 DEF Seed, Seeded, Publish, Order
    <2>2. NamesOld(plan[p]) /\ Covered(plan[p].cards, plan[p].segs)
      BY <1>a, <2>1 DEF HasItsTexts, Writing
    <2>3. /\ NoAtlas.meta.build = 0 /\ NoAtlas.meta.segs = {}
          /\ NoPlan.build = 0
      BY DEF NoAtlas, NoMeta, NoPlan
    <2>4. disk.meta.build = plan[p].build
      <3>1. disk.meta = NewMeta(p)
        BY <2>1 DEF Commits, Committed, CommittedIsIts
      <3> QED
        BY <3>1 DEF NewMeta
    <2>5. /\ Result(p).meta.build = plan[p].build /\ Result(p).meta.segs = plan[p].segs
          /\ Result(p).nodes.cards = plan[p].cards
      BY DEF Result, NewMeta
    <2>6. cache'[p].atlas.meta.build <= disk.meta.build
      BY <1>n, <2>1, <2>3, <2>4, <2>5
    <2>7. NamesOld(cache'[p].atlas.meta) /\ NamesOld(got'[p].meta)
      BY <2>1, <2>2, <2>3, <2>5 DEF NamesOld
    <2>8. CoversItself(cache'[p].atlas) /\ CoversItself(got'[p])
      BY <2>1, <2>2, <2>3, <2>5 DEF CoversItself, AgreeOnNodes
    <2>9. Rising'
      BY <1>a, <1>n, <2>1, <2>3, <2>6 DEF KeptAtlases, Rising
    <2>10. Naming'
      BY <1>a, <2>1, <2>7 DEF KeptAtlases, Naming, NamesOld
    <2>11. Coverage'
      <3>1. \A q \in Procs : CoversItself(got'[q]) /\ CoversItself(cache'[q].atlas)
        BY <1>a, <2>1, <2>8 DEF KeptAtlases, Coverage
      <3>2. \A q \in Procs : CoversItself(got[q])' /\ CoversItself(cache[q].atlas)'
        BY <2>1, <3>1 DEF CoversItself, AgreeOnNodes, Covered
      <3>3. CoversItself(disk)'
        BY <1>a, <2>1 DEF KeptAtlases, Coverage, CoversItself, AgreeOnNodes, Covered
      <3> QED
        BY <3>2, <3>3 DEF Coverage
    <2>12. Good(p)'
      BY <2>1, <2>3 DEF IsNewer, TakesOver, HasItsTexts, Loading, Writing
    <2> QED
      BY <2>1, <2>9, <2>10, <2>11, <2>12, <1>b DEF KeptAtlases, Building, Writing
  <1>13. CASE Deletes
    <2>1. /\ UNCHANGED <<disk, pc, got, cache, plan, hints>>
          /\ \A q \in Procs : plan[q].build = 0
      BY <1>13 DEF Deletes, Trouble
    <2>2. terms'.has = terms.has
      BY <1>0, <1>13 DEF Deletes, TermsOf
    <2>3. KeptAtlases'
      BY <1>a, <2>1, <2>2 DEF KeptAtlases, Rising, Naming, NamesOld, Coverage, CoversItself, AgreeOnNodes, Covered
    <2>4. ASSUME NEW q \in Procs PROVE Good(q)'
      <3>1. pc[q] \notin Building
        BY <2>1 DEF TypeInv, PlanFollowsPlace
      <3>2. HasItsTexts(q)'
        BY <2>1, <3>1 DEF HasItsTexts, Building
      <3>3. IsNewer(q)' /\ TakesOver(q)'
        BY <1>a, <2>1 DEF IsNewer, TakesOver, AgreeOnNodes
      <3> QED
        BY <3>2, <3>3
    <2> QED
      BY <2>3, <2>4 DEF Covering
  <1>14. CASE EditFile \/ EditHints \/ UNCHANGED vars
    <2>1. /\ UNCHANGED <<disk, terms, pc, got, cache, plan>>
          /\ \A q \in Procs : hints' = hints \/ pc[q] # "scan"
      BY <1>14 DEF EditFile, EditHints, Edit, vars
    <2>2. KeptAtlases'
      BY <1>a, <2>1 DEF KeptAtlases, Rising, Naming, NamesOld, Coverage, CoversItself, AgreeOnNodes, Covered
    <2>3. \A q \in Procs : Good(q)'
      BY <2>1, <1>c
    <2> QED
      BY <2>2, <2>3 DEF Covering
  <1> QED
    BY <1>1, <1>2, <1>3, <1>4, <1>5, <1>6, <1>7, <1>8, <1>9, <1>10, <1>11, <1>12, <1>13, <1>14
       DEF Next, Build, Publishing

\* IndexCoversCards for any processes, files and bounds: when builds follow one another, root
\* metadata stays as it is between preflight and scan and segments can be written, the search
\* index of what can be loaded has the text of every card, in every hand.
THEOREM IndexMissesNothing ==
    ASSUME ~SideBySide, ~HintsMayRace, ~DiskMayFail PROVE Spec => []IndexCoversCards
  <1>1. Init => TypeInv /\ Loads /\ Commits /\ Halfway /\ Covering
    <2>1. Init => TypeInv /\ Loads /\ Commits /\ Halfway
      BY InitTypes, LoadsStart, CommitsStart, HalfwayStart
    <2>2. Init => KeptAtlases
      BY DEF Init, KeptAtlases, Rising, Naming, NamesOld, Coverage, CoversItself, AgreeOnNodes,
             NoDisk, NoEntry, NoKeys, NoAtlas, NoMeta, NoNodes
    <2>3. Init => \A p \in Procs : IsNewer(p) /\ TakesOver(p) /\ HasItsTexts(p)
      BY DEF Init, IsNewer, TakesOver, HasItsTexts, NoPlan, Loading, Writing
    <2> QED
      BY <2>1, <2>2, <2>3 DEF Covering
  <1>2. Covering => IndexCoversCards
    <2>1. \A x : Agree(x) => AgreeOnNodes(x)
      BY DEF Agree, AgreeOnNodes
    <2> QED
      BY <2>1 DEF Covering, KeptAtlases, Coverage, CoversItself, IndexCoversCards
  <1> QED
    BY <1>1, <1>2, TypeStep, LoadsStep, CommitsStep, HalfwayStep, CoveringStep, PTL DEF Spec
=============================================================================
