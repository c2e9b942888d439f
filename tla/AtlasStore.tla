----------------------------- MODULE AtlasStore -----------------------------
(***************************************************************************)
(* The cache of the project atlas (kernel/atlas/store.mjs, term-index.mjs, *)
(* edge-shard.mjs): five files and a directory of search segments, which   *)
(* processes that share a workspace build and load.  Every file is         *)
(* replaced atomically, one after the other; `meta' comes last and commits *)
(* the build.  Segments it does not name are removed afterwards.           *)
(*                                                                         *)
(* A card stands for what is extracted from a file: its version when the   *)
(* workspace was scanned (`stat') and when its text was read (`read'; 0:   *)
(* it was gone).  A segment has the texts it was fed.  The root metadata   *)
(* (package.json, README), whose hints enter every card, are one version.  *)
(* A change of the configuration is a forced build.  Left out: the scopes, *)
(* which are caches of their own, the callers that read meta alone, and    *)
(* everything about the content of cards and edges.                        *)
(***************************************************************************)
EXTENDS Integers, FiniteSets

CONSTANTS
    Procs, Files,
    Builders,      \* processes that are asked to build
    MaxSegments,   \* more segments than these are packed into one
    SideBySide,    \* builds of several processes may overlap
    HintsMayRace,  \* root metadata may change between preflight and scan
    DiskMayFail,   \* a segment may not be written
    MaxBuilds,     \* bound: builds
    MaxQueries,    \* bound: queries
    MaxEdits,      \* bound: changes of files and of root metadata
    MaxTrouble     \* bound: crashes, failed builds and segments deleted by hand

ASSUME BoundAssumption ==
    MaxSegments \in Nat \ {0} /\ MaxBuilds \in Nat
    /\ MaxQueries \in Nat /\ MaxEdits \in Nat /\ MaxTrouble \in Nat
ASSUME WorldAssumption ==
    SideBySide \in BOOLEAN /\ HintsMayRace \in BOOLEAN /\ DiskMayFail \in BOOLEAN

VARIABLES
    work,      \* version of each file of the workspace; 0: it is not there
    hints,     \* version of the root metadata
    disk,      \* nodes.json, edges.json, index.json, includes.bin, meta.json
    terms,     \* directories of segments, those that are whole, their texts
    pc,        \* what each process does
    got,       \* what it has read, or the atlas it holds
    cache,     \* its entries of loadCache (atlas, keys) and of metaCache (meta, key)
    plan,      \* the build it works on
    since,     \* history: builds that were the committed one since its load began
    lost,      \* history: segments somebody deleted
    count      \* builds, queries, edits and trouble so far

vars == <<work, hints, disk, terms, pc, got, cache, plan, since, lost, count>>

Builds == 1..MaxBuilds
Segments == Builds \X {"fresh", "packed"}
Cards == [file : Files, stat : Nat, read : Nat]
Texts == Files \X Nat

\* ------------------------------------------------------------ the cache
(* Build 0 stands for a file that is not there.                            *)
NoNodes == [build |-> 0, cards |-> {}]
NoMeta == [build |-> 0, hints |-> 0, segs |-> {}]
NoDisk == [nodes |-> NoNodes, edges |-> 0, index |-> 0, includes |-> 0, meta |-> NoMeta]

(* includes: the build whose include edges were joined to it, 0 for none.  *)
NoAtlas == [meta |-> NoMeta, nodes |-> NoNodes, edges |-> 0, index |-> 0, includes |-> 0]
NoKeys == <<0, 0, 0>>
NoEntry == [atlas |-> NoAtlas, keys |-> NoKeys, meta |-> NoMeta, key |-> 0]
NoPlan == [build |-> 0, forced |-> FALSE, pre |-> FALSE, gap |-> FALSE, whole |-> FALSE,
           prev |-> {}, seen |-> [f \in Files |-> 0], hints |-> 0, cards |-> {},
           texts |-> {}, segs |-> {}]

(* loadAtlas: the four files must be there and carry one build id.         *)
AgreeOnNodes(a) == a.meta.build # 0 /\ a.nodes.build = a.meta.build
Agree(a) ==
    /\ a.meta.build # 0
    /\ a.nodes.build = a.meta.build /\ a.edges = a.meta.build /\ a.index = a.meta.build

(* mtime and size tell a file of one build from that of another.           *)
StatKeys == <<disk.nodes.build, disk.edges, disk.index>>

segmentsIntact(segs) == segs \subseteq terms.whole

\* ------------------------------------------------------------- the steps
(* The order in which a build is written: what comes after each step.      *)
Order ==
    [start |-> "putNodes", putNodes |-> "putIncludes", putIncludes |-> "putEdges",
     putEdges |-> "putIndex", putIndex |-> "putMeta", putMeta |-> "prune",
     prune |-> "seed", seed |-> "idle"]
PruneFirst == [Order EXCEPT !.putIndex = "prune", !.prune = "putMeta", !.putMeta = "seed"]
Publish == Order
Writing == {"putNodes", "putIncludes", "putEdges", "putIndex", "putMeta", "prune", "seed"}
Building == {"preflight", "scan", "rescan", "extract", "segment", "pack"} \union Writing
Loading == {"meta", "readMeta", "cached", "nodes", "edges", "index", "keep"}

Init ==
    /\ work = [f \in Files |-> 1] /\ hints = 0
    /\ disk = NoDisk
    /\ terms = [dirs |-> {}, whole |-> {}, has |-> [s \in Segments |-> {}]]
    /\ pc = [p \in Procs |-> "idle"]
    /\ got = [p \in Procs |-> NoAtlas]
    /\ cache = [p \in Procs |-> NoEntry]
    /\ plan = [p \in Procs |-> NoPlan]
    /\ since = [p \in Procs |-> {}] /\ lost = {}
    /\ count = [builds |-> 0, queries |-> 0, edits |-> 0, trouble |-> 0]

Step(p, from, to) == pc[p] = from /\ pc' = [pc EXCEPT ![p] = to]
Goal(p) == IF plan[p].build = 0 THEN "query" ELSE "preflight"
Shared == <<work, hints, disk, terms, lost>>
Own == <<got, cache, plan, since>>

\* ------------------------------------------------------------ loadAtlas
(* A query or a build begins with a load; since then `meta' is watched.    *)
Alone == SideBySide \/ \A q \in Procs : plan[q].build = 0
Opened(p, build, forced) ==
    /\ since' = [since EXCEPT ![p] = {disk.meta.build}]
    /\ got' = [got EXCEPT ![p] = NoAtlas]
    /\ plan' = [plan EXCEPT ![p] = [NoPlan EXCEPT !.build = build, !.forced = forced]]
    /\ UNCHANGED <<Shared, cache>>

BeginQuery(p) ==
    /\ count.queries < MaxQueries /\ count' = [count EXCEPT !.queries = @ + 1]
    /\ Step(p, "idle", "meta")
    /\ Opened(p, 0, FALSE)

BeginBuild(p) ==
    /\ p \in Builders /\ Alone /\ count.builds < MaxBuilds
    /\ \E forced \in BOOLEAN :
          /\ Step(p, "idle", IF forced THEN "preflight" ELSE "meta")
          /\ Opened(p, count.builds + 1, forced)
    /\ count' = [count EXCEPT !.builds = @ + 1]

Reads(p, from, to, atlas) ==
    /\ Step(p, from, to)
    /\ got' = [got EXCEPT ![p] = atlas]
    /\ UNCHANGED <<Shared, cache, plan, since, count>>

(* loadAtlasMeta: the meta kept under the stat of the file that is there,  *)
(* unless it was evicted; else the file is read, perhaps a later one.      *)
MetaHits(p) == cache[p].key = disk.meta.build
StatMeta(p) ==
    \/ disk.meta.build = 0 /\ Reads(p, "meta", Goal(p), NoAtlas)
    \/ /\ disk.meta.build # 0 /\ MetaHits(p)
       /\ Reads(p, "meta", "cached", [NoAtlas EXCEPT !.meta = cache[p].meta])
    \/ /\ disk.meta.build # 0 /\ Step(p, "meta", "readMeta")
       /\ cache' = [cache EXCEPT ![p].meta = NoMeta, ![p].key = disk.meta.build]
       /\ UNCHANGED <<Shared, got, plan, since, count>>

ReadMeta(p) ==
    /\ Step(p, "readMeta", "cached")
    /\ got' = [got EXCEPT ![p] = [NoAtlas EXCEPT !.meta = disk.meta]]
    /\ cache' = [cache EXCEPT ![p].meta = disk.meta]
    /\ UNCHANGED <<Shared, plan, since, count>>

(* An entry of this build whose files look the same is taken, unless it    *)
(* was evicted or the budget for it has shrunk.                            *)
CacheHits(p) == cache[p].atlas.meta.build = got[p].meta.build /\ cache[p].keys = StatKeys
UseCached(p) == CacheHits(p) /\ Reads(p, "cached", Goal(p), cache[p].atlas)
ReadOn(p) == Reads(p, "cached", "nodes", got[p])
ReadNodes(p) == Reads(p, "nodes", "edges", [got[p] EXCEPT !.nodes = disk.nodes])
ReadEdges(p) == Reads(p, "edges", "index", [got[p] EXCEPT !.edges = disk.edges])

ReadIndex(p) ==
    LET atlas == [got[p] EXCEPT !.index = disk.index]
    IN  \/ Agree(atlas) /\ Reads(p, "index", "keep", atlas)
        \/ ~Agree(atlas) /\ Reads(p, "index", Goal(p), NoAtlas)

(* rememberLoadedAtlas: the keys are those of this later moment.           *)
Remember(p) ==
    /\ Step(p, "keep", Goal(p))
    /\ \/ cache' = [cache EXCEPT ![p].atlas = got[p], ![p].keys = StatKeys]
       \/ cache' = [cache EXCEPT ![p].atlas = NoAtlas, ![p].keys = NoKeys]
    /\ UNCHANGED <<Shared, got, plan, since, count>>

(* edge-shard: the first query that needs include edges reads the file and *)
(* joins it to the atlas, which stays in the cache.  A shard of another    *)
(* build shows only if an index is out of range.                           *)
JoinIncludes(p) ==
    /\ pc[p] = "query" /\ got[p].meta.build # 0 /\ got[p].includes = 0 /\ disk.includes # 0
    /\ got' = [got EXCEPT ![p].includes = disk.includes]
    /\ cache' = IF cache[p].atlas = got[p]
                THEN [cache EXCEPT ![p].atlas.includes = disk.includes] ELSE cache
    /\ UNCHANGED <<Shared, pc, plan, since, count>>

EndQuery(p) ==
    /\ Step(p, "query", "idle")
    /\ got' = [got EXCEPT ![p] = NoAtlas]
    /\ UNCHANGED <<Shared, cache, plan, since, count>>

\* ----------------------------------------------------------- buildAtlas
(* indexMissing: there is a cache, but not every segment its meta names.   *)
NamesNone(p) == got[p].meta.build # 0 /\ got[p].meta.segs = {}
Gap(p) == got[p].meta.build # 0 /\ ~segmentsIntact(got[p].meta.segs)

(* preReuse: cards may be taken over if nothing they depend on changed.    *)
Preflight(p) ==
    /\ Step(p, "preflight", "scan")
    /\ LET pre == got[p].meta.build # 0 /\ got[p].meta.hints = hints
       IN  plan' = [plan EXCEPT
              ![p].pre = pre,
              ![p].prev = IF pre THEN got[p].nodes.cards ELSE {},
              ![p].gap = Gap(p)]
    /\ UNCHANGED <<Shared, got, cache, since, count>>

(* canReuse, after the workspace was scanned.                              *)
Reusable(p) ==
    /\ ~plan[p].forced /\ got[p].meta.build # 0
    /\ got[p].meta.hints = hints /\ ~plan[p].gap
(* What is left of the old cards.  A build for a missing index alone takes *)
(* none; if the cards were not yet looked at they are taken now.           *)
IndexMissing(p) == plan[p].gap /\ got[p].meta.hints = hints
LeftAsTheyAre(p) == IF Reusable(p) THEN got[p].nodes.cards ELSE plan[p].prev
Left(p) ==
    CASE Reusable(p) -> got[p].nodes.cards
      [] IndexMissing(p) -> {}
      [] OTHER -> plan[p].prev
Reused(p) == \E c \in got[p].nodes.cards : work[c.file] = c.stat

Scanned(p) ==
    plan' = [plan EXCEPT ![p].seen = work, ![p].hints = hints,
                         ![p].whole = Reusable(p), ![p].prev = Left(p)]

Scan(p) ==
    /\ Step(p, "scan", IF plan[p].pre /\ ~Reusable(p) /\ Reused(p) THEN "rescan" ELSE "extract")
    /\ Scanned(p)
    /\ UNCHANGED <<Shared, got, cache, since, count>>

(* The second scan leaves the old cards as the first has left them.        *)
Rescan(p) ==
    /\ Step(p, "rescan", "extract")
    /\ plan' = [plan EXCEPT ![p].seen = work, ![p].hints = hints, ![p].whole = Reusable(p)]
    /\ UNCHANGED <<Shared, got, cache, since, count>>

(* Too many files, or none in the scope: nothing is written.               *)
GivesUp(p) ==
    /\ Step(p, "extract", "idle")
    /\ plan' = [plan EXCEPT ![p] = NoPlan]
    /\ UNCHANGED <<Shared, got, cache, since, count>>

(* Every file that was seen: its old card, or a new one, whose text goes   *)
(* into a segment of this build.                                           *)
Present(p) == {f \in Files : plan[p].seen[f] # 0}
OldCard(p, f) == {c \in plan[p].prev : c.file = f /\ c.stat = plan[p].seen[f]}
Fresh(p) == {f \in Present(p) : OldCard(p, f) = {}}
FreshSegment(p) == <<plan[p].build, "fresh">>

Extract(p) ==
    LET texts == {<<f, work[f]>> : f \in {f \in Fresh(p) : work[f] # 0}}
    IN  /\ Step(p, "extract", IF texts = {} THEN "pack" ELSE "segment")
        /\ plan' = [plan EXCEPT
              ![p].cards = (UNION {OldCard(p, f) : f \in Present(p)}) \union
                           {[file |-> f, stat |-> plan[p].seen[f], read |-> work[f]] : f \in Fresh(p)},
              ![p].texts = texts,
              ![p].segs = IF plan[p].whole THEN got[p].meta.segs ELSE {}]
        /\ terms' = IF texts = {} THEN terms
                    ELSE [terms EXCEPT !.dirs = @ \union {FreshSegment(p)}]
        /\ UNCHANGED <<work, hints, disk, got, cache, since, lost, count>>

(* termWriter.finish; when it fails the build goes on without the segment. *)
FinishSegment(p) ==
    /\ Step(p, "segment", "pack")
    /\ \/ /\ FreshSegment(p) \in terms.dirs
          /\ terms' = [terms EXCEPT !.whole = @ \union {FreshSegment(p)},
                                    !.has[FreshSegment(p)] = plan[p].texts]
          /\ plan' = [plan EXCEPT ![p].segs = @ \union {FreshSegment(p)}]
       \/ /\ DiskMayFail \/ FreshSegment(p) \notin terms.dirs
          /\ UNCHANGED <<terms, plan>>
    /\ UNCHANGED <<work, hints, disk, got, cache, since, lost, count>>

(* compactSegments takes what it finds of them, or fails and leaves them.  *)
PackedSegment(p) == <<plan[p].build, "packed">>
Pack(p) ==
    /\ Step(p, "pack", Publish.start)
    /\ \/ /\ Cardinality(plan[p].segs) > MaxSegments
          /\ terms' = [dirs |-> terms.dirs \union {PackedSegment(p)},
                       whole |-> terms.whole \union {PackedSegment(p)},
                       has |-> [terms.has EXCEPT ![PackedSegment(p)] =
                                  UNION {terms.has[s] : s \in plan[p].segs \cap terms.whole}]]
          /\ plan' = [plan EXCEPT ![p].segs = {PackedSegment(p)}]
       \/ UNCHANGED <<terms, plan>>
    /\ UNCHANGED <<work, hints, disk, got, cache, since, lost, count>>

\* --------------------------------------------------- the build is written
Writes(p, name, new) ==
    /\ Step(p, name, Publish[name])
    /\ disk' = new
    /\ UNCHANGED <<work, hints, terms, got, cache, plan, lost, count>>

WriteNodes(p) ==
    /\ Writes(p, "putNodes",
              [disk EXCEPT !.nodes = [build |-> plan[p].build, cards |-> plan[p].cards]])
    /\ UNCHANGED since
WriteIncludes(p) ==
    Writes(p, "putIncludes", [disk EXCEPT !.includes = plan[p].build]) /\ UNCHANGED since
WriteEdges(p) ==
    Writes(p, "putEdges", [disk EXCEPT !.edges = plan[p].build]) /\ UNCHANGED since
WriteIndex(p) ==
    Writes(p, "putIndex", [disk EXCEPT !.index = plan[p].build]) /\ UNCHANGED since
NewMeta(p) == [build |-> plan[p].build, hints |-> plan[p].hints, segs |-> plan[p].segs]
WriteMeta(p) ==
    /\ Writes(p, "putMeta", [disk EXCEPT !.meta = NewMeta(p)])
    /\ since' = [q \in Procs |-> since[q] \union {plan[p].build}]

(* pruneSegments: what the new meta does not name.                         *)
Prune(p) ==
    /\ Step(p, "prune", Publish.prune)
    /\ LET gone == terms.dirs \ plan[p].segs
       IN  terms' = [terms EXCEPT !.dirs = @ \ gone, !.whole = @ \ gone]
    /\ UNCHANGED <<work, hints, disk, Own, lost, count>>

(* The result, with all its edges, becomes the entry of the caches, under  *)
(* the stats of the files that are there now, meta among them.             *)
Result(p) ==
    [meta |-> NewMeta(p),
     nodes |-> [build |-> plan[p].build, cards |-> plan[p].cards],
     edges |-> plan[p].build, index |-> plan[p].build, includes |-> plan[p].build]
Seeded(p, atlas, keys) ==
    [atlas |-> atlas, keys |-> keys, meta |-> NewMeta(p), key |-> disk.meta.build]
Seed(p) ==
    /\ Step(p, "seed", Publish.seed)
    /\ \/ cache' = [cache EXCEPT ![p] = Seeded(p, Result(p), StatKeys)]
       \/ cache' = [cache EXCEPT ![p] = Seeded(p, NoAtlas, NoKeys)]
    /\ plan' = [plan EXCEPT ![p] = NoPlan]
    /\ got' = [got EXCEPT ![p] = NoAtlas]
    /\ UNCHANGED <<Shared, since, count>>

\* -------------------------------------------------------- the environment
Trouble == count.trouble < MaxTrouble /\ count' = [count EXCEPT !.trouble = @ + 1]

(* A write throws: the build is given up and the process goes on.          *)
Throws(p) ==
    /\ Trouble /\ pc[p] \in {"segment"} \union (Writing \ {"prune", "seed"})
    /\ pc' = [pc EXCEPT ![p] = "idle"] /\ plan' = [plan EXCEPT ![p] = NoPlan]
    /\ UNCHANGED <<Shared, got, cache, since>>

Dies(p) ==
    /\ Trouble /\ (pc[p] # "idle" \/ cache[p] # NoEntry)
    /\ pc' = [pc EXCEPT ![p] = "idle"] /\ plan' = [plan EXCEPT ![p] = NoPlan]
    /\ got' = [got EXCEPT ![p] = NoAtlas] /\ cache' = [cache EXCEPT ![p] = NoEntry]
    /\ UNCHANGED <<Shared, since>>

(* pruneSegments stops at a directory that cannot be removed.              *)
PrunesSome(p) ==
    /\ Trouble /\ Step(p, "prune", Publish.prune)
    /\ \E gone \in SUBSET (terms.dirs \ plan[p].segs) :
          terms' = [terms EXCEPT !.dirs = @ \ gone, !.whole = @ \ gone]
    /\ UNCHANGED <<work, hints, disk, Own, lost>>

(* Somebody deletes a segment while no build is under way.                 *)
Deletes ==
    /\ Trouble /\ \A q \in Procs : plan[q].build = 0
    /\ \E s \in terms.whole :
          /\ terms' = [terms EXCEPT !.dirs = @ \ {s}, !.whole = @ \ {s}]
          /\ lost' = lost \union {s}
    /\ UNCHANGED <<work, hints, disk, pc, Own>>

Edit == count.edits < MaxEdits /\ count' = [count EXCEPT !.edits = @ + 1]
EditFile ==
    /\ Edit
    /\ \E f \in Files, v \in {count.edits + 2, 0} :
          v # work[f] /\ work' = [work EXCEPT ![f] = v]
    /\ UNCHANGED <<hints, disk, terms, pc, Own, lost>>
EditHints ==
    /\ Edit
    /\ HintsMayRace \/ \A q \in Procs : pc[q] # "scan"
    /\ hints' = count.edits + 1
    /\ UNCHANGED <<work, disk, terms, pc, Own, lost>>

Load(p) ==
    \/ BeginQuery(p) \/ StatMeta(p) \/ ReadMeta(p) \/ UseCached(p) \/ ReadOn(p) \/ ReadNodes(p)
    \/ ReadEdges(p) \/ ReadIndex(p) \/ Remember(p)
Query(p) == JoinIncludes(p) \/ EndQuery(p)
Build(p) ==
    \/ BeginBuild(p) \/ Preflight(p) \/ Scan(p) \/ Rescan(p) \/ GivesUp(p)
    \/ Extract(p) \/ FinishSegment(p) \/ Pack(p)
Publishing(p) ==
    \/ WriteNodes(p) \/ WriteIncludes(p) \/ WriteEdges(p) \/ WriteIndex(p) \/ WriteMeta(p)
    \/ Prune(p) \/ PrunesSome(p) \/ Seed(p)
Next ==
    \/ \E p \in Procs : Load(p) \/ Query(p) \/ Build(p) \/ Publishing(p) \/ Throws(p) \/ Dies(p)
    \/ Deletes \/ EditFile \/ EditHints

Spec == Init /\ [][Next]_vars

\* ----------------------------------------------------------- properties
Metas == [build : Nat, hints : Nat, segs : SUBSET Segments]
Nodes == [build : Nat, cards : SUBSET Cards]
Atlases == [meta : Metas, nodes : Nodes, edges : Nat, index : Nat, includes : Nat]
Plans == [build : Nat, forced : BOOLEAN, pre : BOOLEAN, gap : BOOLEAN, whole : BOOLEAN,
          prev : SUBSET Cards, seen : [Files -> Nat], hints : Nat, cards : SUBSET Cards,
          texts : SUBSET Texts, segs : SUBSET Segments]

Entries == [atlas : Atlases, keys : Nat \X Nat \X Nat, meta : Metas, key : Nat]
Places == {"idle", "query"} \union Loading \union Building

TypeOK ==
    /\ work \in [Files -> Nat] /\ hints \in Nat
    /\ disk \in Atlases
    /\ terms \in [dirs : SUBSET Segments, whole : SUBSET Segments, has : [Segments -> SUBSET Texts]]
    /\ terms.whole \subseteq terms.dirs
    /\ pc \in [Procs -> Places]
    /\ got \in [Procs -> Atlases]
    /\ cache \in [Procs -> Entries]
    /\ plan \in [Procs -> Plans]
    /\ since \in [Procs -> SUBSET Nat] /\ lost \subseteq Segments
    /\ count \in [builds : Nat, queries : Nat, edits : Nat, trouble : Nat]

Covered(cards, segs) ==
    \A c \in cards : c.read # 0 => \E s \in segs : <<c.file, c.read>> \in terms.has[s]

(* What a load answers with is one build in all its parts, and that build  *)
(* was the committed one at some moment since the load began, whatever a   *)
(* builder and the process's own caches do meanwhile (store.mjs:3-5,       *)
(* 146-199).  Of builds that overlap the second half is refuted by TLC:    *)
(* 642-648 keep a build under the stats of what another has put there.     *)
OneBuild(a) == {a.nodes.build, a.edges, a.index} = {a.meta.build}
LoadIsASnapshot ==
    \A p \in Procs : pc[p] \in {"query", "preflight"} /\ got[p].meta.build # 0 =>
        OneBuild(got[p]) /\ got[p].meta.build \in since[p]

(* Whenever a process dies or a write fails, the committed meta names      *)
(* segments that are there, but those somebody deleted (store.mjs:636).    *)
CommittedSegmentsStay == disk.meta.segs \subseteq terms.whole \union lost

(* The text of every card of a build that can be loaded is in a segment    *)
(* its meta names: a search that is answered from the index misses no file *)
(* (store.mjs:395-411, term-index.mjs:468-480).                            *)
IndexCoversCards ==
    /\ Agree(disk) => Covered(disk.nodes.cards, disk.meta.segs)
    /\ \A p \in Procs : Agree(got[p]) => Covered(got[p].nodes.cards, got[p].meta.segs)

(* A build that was written to its end can be loaded, has a card for every *)
(* file it saw and every segment it names, whatever was torn, mixed or     *)
(* deleted before it (store.mjs:395-411, 612-660).                         *)
BuildEndsWhole ==
    \A p \in Procs : pc[p] = "seed" =>
        /\ Agree(disk) /\ disk.meta.build = plan[p].build
        /\ segmentsIntact(disk.meta.segs)
        /\ {c.file : c \in disk.nodes.cards} = Present(p)

(* Refuted by TLC.  Include edges joined to an atlas are those of its      *)
(* build (edge-shard.mjs:10-11).                                           *)
IncludesAreOfTheBuild ==
    \A p \in Procs : got[p].includes \in {0, got[p].meta.build}
=============================================================================
