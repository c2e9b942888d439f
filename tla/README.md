# Ponos kernel: TLA+ models, checks and proofs

Ponos is a coding-agent kernel: one Node process that reads messages and control requests as
NDJSON on stdin, runs turns of a language model with tools, and writes events on stdout. A
graphical client talks to it through a bridge (not part of the repository) that starts it,
restarts it with `--resume` after a crash, and wakes its persistent loops. This directory models
the parts of the kernel in which order, failure and repetition decide whether it is correct.
`PROJECT.json` lists the components, runs, mutants, hazards and theorems, and maps every
definition to the lines it stands for; paths below are relative to the repository.

## 1. The system

| component | state | operations | hard behaviour |
|---|---|---|---|
| loop controller (`kernel/loop.mjs`) | one record: status, rounds counted, budget used, streak of equal outcomes, `nextRunAt`, verification, `until` | start, stop, pause, resume, approve, budget, inject, markTurnStart, onTurnEnd, nextDecision, load | a verifier and a judge are awaited in the middle of onTurnEnd; the record is written to a file and read back by another process |
| turn scheduler (`kernel/cli.mjs`) | queue of messages, `turnActive`, `cancelling`, one interval timer | handleUser, handleLoopOp, cancel, the stdin handler, timer, --resume delivery | asynchronous handlers interleave at every await; a round may be queued, armed, running or lost |
| turn engine and its guards (`kernel/engine.mjs`, `loop-core.mjs`, `guards.mjs`) | counters of a turn, `loopStop`, abort signal, transcript | request, stream, tools, approvals, questions, cancel, heal or stop | fourteen counters that heal, reset and stop; events race: watchdog, cancel, answers, timeouts |
| auto wake (`kernel/auto-wake.mjs`, `cli.mjs`) | completions noted, merge window, wake budget | note, wait, look again, push | wake-ups race with messages of the user |
| sub-agents (`kernel/engine.mjs`, `shared/subagent-*`) | map of tasks, slots, queue, line of waiting calls, registry file | dispatch, start, end, stop, resume, hardStop, claim after a crash | slots counted by several callers that start, stop and resume the same tasks |
| workflow engine (`kernel/workflow-engine.mjs`, `workflow-dag.mjs`) | node states, confirmations, cancelled run ids, audit chain | schedule, skip, confirm, stop | answer against timeout; parallel nodes; ids that are reused |
| session log (`kernel/session.mjs`, `request-face.mjs`, the cut of `compact.mjs`) | append-only JSONL, and the memory beside it | append, rewrite a line, repair, replay, derive a request, fold into a summary | the same list is built twice; crash in the middle of an append or of a batch of tools |
| project atlas (`kernel/atlas/store.mjs`, `term-index.mjs`, `edge-shard.mjs`) | five files, a directory of search segments, a cache per process | build, publish, prune, load, join include edges | files replaced one by one under readers and other builders; a build that dies half way |
| atomic file writes (`shared/atomic-write.mjs`) | temporary files, target | write, sync, rename with retries, sweep | crash between the steps, locked targets |
| team file collaboration (`kernel/file-collab.mjs`, `shared/file-modal.mjs`) | a log of claims and a log of versions for every file, in a shared directory | claim, renew, release, check in, record | read-then-append without a lock, leases that expire |
| team sync and membership (`shared/team-members.mjs`, `team-source.mjs`, `kernel/team-store.mjs`) | one signed log per device in a directory that a sync client copies; the device's configuration | invite, join, remove, read | files arrive late, in any order, with older copies beside them; a joining that dies half way |
| team merge (`shared/office-merge.mjs`) | none: three versions in, a merge or conflicts out | align, decide, merge, turn into operations | silent loss, wrong pairing, order of operations |
| context compaction (`kernel/compact.mjs`) | breaker, last summary | compact, land, reopen | failures in a row, spending without bound |
| hard watchdog (`kernel/heartbeat.mjs`, `cli.mjs`) | last activity | tick, kill | a slow turn taken for a dead one |
| MCP clients (`kernel/mcp.mjs`) | pending requests | request, answer, time out, cancel, exit | late answers |
| knowledge trash | files | delete, restore, purge | two writers, partial failure |
| permissions | mode, denial counters | decide | which calls must ask |

The rest (model access, single tools, knowledge search, memory ranking, prompts, skills,
terminal UI, metrics, health scores) is I/O, text processing or arithmetic on logs; it is listed
as not modelled in `PROJECT.json`, each with its reason.

How they interact: stdin lines become messages and control requests. A message reaches
`handleUser`, which calls the engine once per turn; the engine calls back for events and
approvals, and asks for a question's answer through `queueNext`. When the turn is over,
`handleUser` asks the loop controller for its decision and then either delivers another round,
arms the timer, or takes the head of the queue. A cancel reaches all of them at once. Sub-agents
and workflows complete in the background and come back as wake-ups in the queue. The loop
controller, the session, the registry of sub-agents and the atlas write files that the next process
reads; the atlas shares them with processes that run at the same time. Teams share a directory:
people see the members, the claims and the versions that a sync client has brought them.

What would make each component correct: the scheduler runs one turn at a time and loses no
message; a loop ends when it should, for good, and only a person releases one that waits; a
restart loses nothing; a turn heals only within its budgets, stops only with a reason, leaves a
transcript the next request can use, and ends; a workflow run settles its nodes by its edges
alone, in whatever order they finish, and books what was done; no slot is lost or counted twice,
and what is queued is started; a session read back is the session that was written, and its
requests pair every call with its answer; a load of the atlas is one committed build, and its
index misses no file; nobody covers a version of somebody else that he has not seen, and a merge
drops nothing in silence; who has been removed from a team is removed everywhere. For the parts not
modelled yet: a target file is always an old or a new version; every pending request is settled
once; the breaker neither stays open for ever nor spends without bound.

## 2. Plan

Done in this order, the most important behaviour first: `LoopController`, `KernelLoop`,
`LoopLife` and the refinement `KernelLoopLife`, the proofs about them; `EngineTurn` and its
proofs; `WorkflowPromise`, `WorkflowDag` and the proofs that the second implements the first;
`SubAgents` and `BackgroundWork`, which composes them with turns and wake-ups, and their proofs;
`SessionStore` and `SessionLog`; `AtlasStore` and its proofs; `OfficeMerge`; `TeamMembers`;
`FileCollab`; the proofs about `TeamMembers`, `SessionLog`, `FileCollab` and `OfficeMerge`. To come:

| module | models | abstract specification | theorem worth proving |
|---|---|---|---|
| `TurnLife`, refined by `EngineTurn` | begin, work, wait, end with an outcome: what `KernelLoop` assumes of a turn | itself | EngineTurn's steps are its steps or stutters |
| `WorkflowBodies`, over `WorkflowDag` | loop and iterate nodes: bodies run again (also side by side, sharing confirm keys), sub-workflows a stop of the parent must reach | `WorkflowPromise`, once per item | every item is settled or the node fails |
| `AtomicFile` | temporary file, rename, retries, sweep, crash | a register | the target is a complete version |
| `McpSession`, `CompactionBreaker`, `Watchdog`, `KnowledgeTrash`, `Permissions` | as in the table above | - | each request settled once |

What the reading of these parts has shown so far. Atomic writes: the number of bytes `writeSync`
returns is not looked at, so a short write is synced and renamed over the target
(`atomic-write.mjs:134`, against line 14), and `cleanupAtomicTmpSync` has no caller. MCP: a late
answer, a timeout, a cancel and the exit of the server race for one request (`mcp.mjs:252`).
Compaction: the breaker opens after three failures and is closed again by calls or growth
(`compact.mjs:874`).

Of the departures from the documentation two have a run (section 5); the others are described
there, and the formulas that state what is promised stay in the modules.

## 3. Modules and the code

`LoopController` is `kernel/loop.mjs` as functions from record to record: `start`, `stop`,
`pause`, `resume`, `setBudget`, `inject`, `markTurnStart`, `load`, the two halves of `onTurnEnd`
on either side of its awaits, and `nextDecision`. What a round produced is reduced to its cost
and a fingerprint or none. Counters saturate at the least value that decides every comparison.
`rollback` is left out: it needs a snapshot, and nothing in the kernel takes one.

`KernelLoop` is the scheduler of `kernel/cli.mjs` around it. A step is the code between two
awaits. Each member of `Handlers` is a call of `handleUser`; `phase[h]` says where it is
suspended: `hook` (the prompt hook), `turn` (the engine), `verify` and `judge` (inside
`onTurnEnd`). `loop` is the live record, `disk` the loop file, `queue` the waiting messages,
`turnActive` and `cancelling` the flags of the code, `timers` the interval timers that exist and
`handle` whether `loopNextTimer` still refers to one, `pending` the messages the engine holds for
later, `resuming` a resumed loop still to be delivered. One action per control request and
message, `TurnEnds` (with any outcome), `TimerFires`, `ResumeDelivers`, `Crash`, `Restart`. A
disk that fails leaves the file as it was (`DiskFails`). `halted` is history: the loop was
cancelled and nobody has started one since.

`LoopLife` is what the user is promised of a loop, with no turn, queue, timer, file or process in
it; `KernelLoopLife` maps `KernelLoop` to it, reading the live record or, while the process is
down, what a resume would load. A crash and a restart are stutters.

`EngineTurn` is one turn: `runTurnInternal` and the end of `runTurn`. `pc` is the place: the
guards at the head of an iteration, the request, the stream, the calls, an approval, a question.
`used` holds the counters of the guards, `knobs` their settings. A reply is reduced to what the
guards ask of it (calls, text, a question, cut off, only thoughts), a batch of calls to the kinds
of results in it, time to ticks, output budgets to tiers. Read-only calls run in parallel are
accumulated one by one: their order is not observable by the guards. Beside the engine act the
clock (`Tick`), the user (`Answer`, `Cancel`) and, inside the engine's own choices, the upstream.
History variables (`quietStalls`, `failRun`, `deadRun`, `silentTrips`) count what happened apart
from the code's counters. Left out: the mode router and orchestrated turns before the loop, lanes
of sub-agents, retries below a request, the streak of denied approvals, the replay of ids, and
the reminder of a repeated call, which only advises. `pendingNext` is in `KernelLoop`.

`WorkflowGraph` is a workflow as the scheduler gets it: nodes named by their place in the array
(which decides between failures), edges that stand for their ids, and for every node what to do
about a failure, how often and after what wait to try again, which routes it may report, whether
it asks the user. `CycleMembers` is `detectCycle` of `workflow-dsl.mjs`.

`WorkflowDag` is one run: `schedule` and `runWithRetry` of `workflow-dag.mjs` under `run`, `stop`
and the confirm waiters of `workflow-engine.mjs`. `result` stands for `settled`, `edgeState` for
the edge map, `queue` and `slice` for the ready list that is cut into slices, `phase`, `tries` and
`left` for each node's own course of attempts and waits, `waiters` for `confirmWaiters`, `aborted`
for `runSignal`, `rows` for the audit rows. Between slices the scheduler acts (`CancelledRound`,
`AllSettled`, `Deadlocked`, `Round`); `SliceDone` is the code after `Promise.all`. While a slice
runs, attempts end, slices of a wait pass, a confirm is answered or times out, and `Stop` may
come, in any order. What an executor does is a choice among the node's routes and failure. The
limit of steps is a guard of `SliceDone`: a run that could pass it would be reported as a
deadlock. As in the code, `Stop` does not release a confirm that waits: the run is over when the
confirm is answered or its timer fires.

`WorkflowPromise` says what a run promises with none of this in it: nodes settle when their
sources have, run or are skipped by the sources' outcomes, and the run ends as the outcomes and
the order of the array say.

`SubAgents` is the pool of sub-agents in `engine.mjs` as a record and a function for each method:
`status` stands for `pendingSubAgents`, `laneQueue` for `pendingQueuedLanes`, `slotWaiters` for the
calls suspended in `acquireForegroundSlot`, `foregroundRunning` for the counter of that name. `runs`
is what the engine does not write down: how many lanes of a task execute.

`BackgroundWork` gives these methods their callers: the calls of a turn, lanes that end, the
cancel, deadlines, and the merge window of `cli.mjs` through which completions start a turn of
their own. A turn is idle, working or being cancelled; its messages are all alike (`KernelLoop` has
the rest). The registry file is folded to its last word on each task; `ProcessEnds` chooses which
tasks a snapshot had caught. `ProcessStarts` is `claimInterruptedTasks` with `resumeOrphanedSubAgents`, whose
calls the new process refuses, since it knows no task.

`SessionStore` is `session.mjs` as operators on two records: the file (its lines, and whether the
last one ends with a newline, after a whole object or in the middle of one) and the memory (`nodes`,
`thinkingSeqs`, `entries`, `nextSeq`). `Remembered` is what an append does to the memory,
`Replayed` what reading the line back does; `DeriveMessages` and `PatchOrphanToolUses` make the
messages of a request, `CutPoints` says where a summary may cut. An entry is reduced to its type,
its number, the calls it makes or answers and what it covers.

`SessionLog` writes to it what a turn can write, in the order the engine can: the message, messages
injected between batches, thinking, calls and results, text, the usage of a silent end, failures,
a cancel, metas, a compaction begun and landed, the window of `--fresh`. Every append may succeed,
be refused or be cut short; the process may die between appends, in the middle of one, or just
before a newline; `Resumes` repairs and replays. `past` is history and carries what the bounds count.

`AtlasStore` is the cache of the project atlas with the processes that use it. `disk` has the five
files, each reduced to the build it is of (nodes with their cards, meta with its segments); `terms`
is the directory of segments; `got` what a process has read, `cache` its entries of `loadCache` (an
atlas under the stats of three files) and of `metaCache` (a meta under the stat of its file), `plan`
the working state of `buildAtlas`. A load stats meta before it reads it, and the end of a build seeds
both caches under the stats of that later moment. Each read and each write of a file is a step, so a build is taken
apart by every other process; `Publish` is the order in which it is written, with meta as the
commit. A card is a version of a file as it was scanned and as it was read. `EditHints` changes
package.json or README, on which every card depends. `since` and `lost` are history.

`OfficeMerge` is the three-way merge. A version is a sequence of blocks (a text and a format) or of
rows; the names of units come from their content, as the reader gives them, so that equal texts
are told apart by how often they have occurred. `LcsPairs` and `AlignToBase` find the place of each
unit of the base in a side, `Decide` says what becomes of it, `ThreeWayMerge` is used for blocks, for
rows, and for the cells of a row; `BlocksToOps` and `SheetMergeToOps` are the operations on what is
on disk, `Apply` the writer that carries them out. One behaviour is one merge of three versions and
its writing on top of one of them. The cells of tables inside documents are left out.

`TeamMembers` is the list of members. `seen[d][e]` is what device d sees of the log of device e: the
file, and one older copy a sync client may have left beside it; `config` the key a device signs
with, `said` every record ever written. `View` is `mergeMemberLogCopies`: of the copies of a log the
first record of each number, and the records of all logs together; their order by time and number is
the relation `Earlier`, so that no sequence need be sorted. `Status` and `ConsumedInvites` are
`replayMembers`, `PubKeys` is `pubKeyResolver`. `Join` writes the log and then
the configuration, and may die between the two. `Sync` and `SyncKeepsCopy` are the sync client.
Records are written as they are signed, nobody forges any, and clocks agree. An invitation is a code
or a package that any device may have got hold of: what stops a second use is only the mark of the
first, once its log has arrived. Two constants open what else the code does not guard against: a second invitation taken up on one device (`Rejoins`), and a
copy beside the log a device writes itself (`OwnCopies`).

`FileCollab` is one shared file. Each call of a person is a sequence of steps, one for each read and
each append; `call[p]` is where it is and what it has read. The log of claims is kept folded, since a
fold goes on with the next record, and of the log of versions only the head is ever read; `last` is
who wrote its last line, which is what the read-back of an append looks at. A call stamps its
records with the time at which it began, so it carries its age. `lone` is chosen at the start: calls
of two people overlap step by step, or not at all. Contents are not modelled, the first version
exists, and the caller names the author of a check-in.

`TeamFilesProofs` extends `FileCollab` and `OfficeMerge` and has the theorems about both, which is why
the specification of the one is called `CollabSpec`, beside the `Spec` of the other.

`MCKernelLoop`, `MCKernelLoopLife`, `MCEngineTurn`, `MCWorkflowDag`, `MCBackgroundWork`, `MCSessionLog`,
`MCAtlasStore`, `MCOfficeMerge`, `MCTeamMembers` and `MCFileCollab` hold the values of the constants for
TLC. Operators marked as a mutant or a fault are plausible bugs; each is put in the place of the
definition behind it to see that a property breaks.

## 4. What the runs check

| run | question | bounds | states |
|---|---|---|---|
| `LoopPlain` | Is there one turn at a time, does a restart lose nothing, is cancel final, do limits come first, does a loop that waits or is paused move only by hand; does all of it implement `LoopLife`? | two handlers, 5 inputs of any kind, a crash, 2 queued, rounds to 3 | 543,740 |
| `LoopChecked` | With verification and judgement in flight: is an end for the round count earned, does a counted loop come to rest, does the queue drain? | 3 inputs, a crash, `stop` at the no-progress threshold | 57,715 |
| `TurnGuards` | Over five settings of the guards: are stops earned, is every call answered, do turns without progress and cancelled turns end? | 2 calls a reply, 2 tiers, budgets 1 or 2 | 260,398 |
| `WorkflowRuns` | Does a run settle its nodes as `WorkflowPromise` says, lose and leave behind nothing, and end? Does what `validateWorkflow` accepts never deadlock? | some 1,440 workflows: every acyclic one of three nodes with a branching first node, over handles, error handling, array order and slices of 1 or 2, and five of four nodes with retries, waits, confirms, chains of skips and a cycle; 2 retries, waits of up to 3 slices | 131,138 |
| `BackgroundWork` | Do the slots count the lanes that execute, does no task run twice, is every queued task started or taken off? | 3 tasks, 1 or 2 slots, 2 messages or cancels, a resume, a crash | 611,282 |
| `SessionLog` | Is the file, replayed, the memory; does a failure cost one entry; does every request answer its calls, and only its calls; does thinking stay in its turn? | a new session, a log with half a batch, a log of another tool; 5 appends, one call a message, 2 failures, crashes or fresh windows together | 2,591,694 |
| `AtlasBuilds` | Is a load one committed build; do committed segments stay; is every card's text in a segment its meta names; does a build that reaches its end leave a whole cache? | 2 processes that build one at a time, 2 files, 2 builds, 2 queries, an edit, a crash or failure or deleted segment, packing beyond one segment | 1,576,998 |
| `OfficeMerges` | Does one person's change alone stand; is nothing new dropped in silence; are the sides alike; does writing the merge bring all of it to disk, in order? | every three versions from documents of up to 3 blocks over 3 texts, of 2 over 4 texts, of 2 with formats, and from sheets up to 2 by 2 over two values | 292,788 |
| `TeamLogs` | Is a removal that is seen obeyed, does it reach everybody, is every signer known whose invitation is not seen to have been used twice, do all devices come to list the same members? | 3 devices, 2 invitations any of them may use, 3 keys, a removal, 2 older copies | 170,960 |
| `FileClaims` | Does a check-in cover no version its author had not seen; does who asks get a file that others left behind? | 2 people, 3 contents, leases of 2 ticks | 361,134 |

Every action of the next-state relations fires in one of them. Type invariants are proved (section
6) and not run. The bounds are enough because the mechanisms are pairwise: two handlers give every
overlap of two calls of `handleUser` (a third could only wait in the queue, or overlap in the way
that `LoopTwoTurns` shows already); five inputs give start, a queued message, a pause or cancel, a
resume and one more; a threshold and a budget of two are the smallest at which "reached" and
"nearly reached" differ; one crash can fall between any two steps, and a second finds the state the
first has left. Three nodes hold a choice, what follows it and where the two meet again, which is
all that skipping and joining consist of; four are needed for two arms, or two confirms, side by
side before a common end. Three tasks for one or two slots leave one executing, one queued and one
that is stopped, resumed or waits in the foreground. Five appends hold a turn with thinking, a batch
and its results, or a compaction of one turn landed in another's, and two failures can fall on one
line; ten appends without failures are what the second compaction of section 5 takes. Two builds
give a cache that is torn, mixed or short of a segment, and the build that has to mend it; with
three builds and one query (6,308,521 states) the same invariants hold. `AtlasBuilds` leaves builds
of different processes one after the other: section 5 says what fails otherwise.

Three blocks have a first, a last and one between, so that gaps occur at the head, inside and at the
tail, of equal and of unequal length; a fourth text gives both sides something new at once. Sheets of
two by two have rows and columns that two people change alike, apart or in part. Three devices are
one that removes, one that is removed and one that hears of it from either, or in part; a log and a
copy of it already conflict. Two people are enough for a file: a third is to each of them what the
other is, and what matters of a version is whether it is mine, the one I had, or another. A lease
of two ticks runs out before, during and after a call; with leases of three and two contents the
same holds.

`AtlasBuilds` has symmetry of processes and files, `LoopPlain` of the handlers, `OfficeMerges` of the
texts; none of the three has a liveness property, and the other runs have no symmetry. `TurnGuards` keeps the
timeout streak switched on: with `TIMEOUT_STREAK_MAX = 0` batches that all time out postpone the
stall for ever, which is what switching it off means. Deadlock is checked in `WorkflowRuns` and in
`TurnGuards`: elsewhere a system whose inputs, appends, builds or keys are used up, or whose merge is
written, may be at rest.

Fairness. `KernelLoop`: every handler that can step does (each await has a time limit of its own
or is a promise the code resolves), timers fire, a resumed loop is delivered, and the bridge
restarts a dead kernel. No input and no crash is owed. `EngineTurn`: the engine steps (a stream
ends or its watchdog breaks it off, tools have deadlines, waits time out) and time passes.
Neither the user nor the upstream owes anything. `WorkflowDag`: as long as the scheduler or some
node can step, something of it does. Language model, agent, request and code nodes have time
limits, a confirm has its timer; that a tool node comes back is assumed. No answer and no stop is
owed. `BackgroundWork`: no lane goes on for ever (it has the guards and time limits of a turn), calls
have deadlines, a turn ends once its calls are answered, timers fire, and the host starts a dead
process again; nobody has to speak, cancel, stop or resume. `TeamMembers`: the sync client comes
round to every file again; nobody has to invite, join or remove. `FileCollab`: time passes, and a
call that has begun goes on unless its process dies; that somebody asks for the file again and again,
and does not die for ever, is a premise of `AskerGetsFile`. `SessionLog`, `AtlasStore` and
`OfficeMerge` state no fairness.

## 5. Where the code departs from its documentation

Each of these runs checks the one property that a comment or a document of the repository
states; TLC finds a violation.

| run | what happens |
|---|---|
| `LoopTwoTurns` | `turnActive` is false while the loop's decision is awaited, and the tail then starts the head of the queue without looking (`cli.mjs:2439`): two turns at once. |
| `InviteUsedTwice` | Whether an invitation is used is looked up in the logs that have arrived (`team-store.mjs:404`): two devices with one code both join before either has the log of the other, and one member has two keys, of which `replayMembers` keeps the later; records of the other device are of an unknown signer (against lines 402 and 571). `TeamLogs` shows what remains true: a signer is unknown only where the device sees that his invitation was used twice, and in the end all devices have the same list. |

Formulas of the modules that TLC refutes as well, without a run of their own. Of loops and turns:
`CancelIsFinal` with a `done_when` (a cancel during a verification is overwritten when the verifier
answers, `loop.mjs:514`); `NoSelfRestart` (`/loop stop` leaves a queued round behind, which starts the
loop anew, `cli.mjs:2087`); `ResumeGoesOn` (`/loop resume` of a paused loop delivers nothing,
`cli.mjs:2074`); `CancelFreesWaits` (a call of the same batch may begin to wait after the cancel,
`engine.mjs:2336`); `GiveUpIsError` (a turn that gave up on a full window loses its error mark,
`engine.mjs:3827`); `FailingTurnEnds` (batches that mix failures and timeouts escape every guard
while healing is unlimited, `guards.mjs:117`).

Of sub-agents: `CompletionReaches` (background work that completes while a turn is active is shown to
the user and never told to the main agent, `cli.mjs:1285`, against `auto-wake.mjs:23`);
`CancelEndsWaits` (a foreground call that waits for a slot waits on through a cancel, and its lane
starts after it, `engine.mjs:459`); `InterruptedIsResumed` (a claimed task is refused by the process
that claims it, and the refusal is taken for success, `subagent-resume.mjs:107`).

Of sessions and the atlas: `ThinkingIsPassedBack` (a second summary covers the first, whose number is
above those of the messages kept behind it; the thinking of the next message falls before that
number and is dropped, `session.mjs:574-578`, which endpoints refuse); `FreshKeepsItsRound` (the window
of `--fresh` is a number of messages; a compaction shortens the list, and the window then leaves out
the messages of its own round, `engine.mjs:729-731`); `SeqIsUnique` (metas take a number when appended
and none when replayed, so numbers are used again after a resume, and the usage of a message may
overwrite an old meta, `session.mjs:130` against `508-510`: without `InOrder` this refutes
`EveryCallIsAnswered` too, where the message of that usage never reached the file, with six appends
and three troubles); `IncludesAreOfTheBuild` (a query joins the
include edges of another build to the nodes of the atlas it holds: the check compares two fields of
one meta, the file names no build, `edge-shard.mjs:80`).

Of teams: `CellsApartMerge` (a cell is known by its column, and a column by a fingerprint of its
content: an edit in one row renames the cells of the column in every row, and edits of different rows
of one column end in conflicts, `office-merge.mjs:233`, against T9, line 17); `WrittenIsTheMerge` (units inserted at the head are sent twice, since the head is in the list
of places already, `office-merge.mjs:352`, against 323-324); `RevocationHolds` with `OwnCopies` (a device
that finds an older copy beside its own log numbers on from the copy, and of two records with one
number the second is dropped, `team-store.mjs:613-616`, against `team-source.mjs:336`); `NoFalseAlarm`
(copies are put together as they are and then checked as one chain, `team-store.mjs:255`, against
`team-members.mjs:38-39`); `SignersAreKnown` with `Rejoins` (a device that joins by a second
invitation writes its log anew, and with it go its key and the mark of the first invitation,
`team-store.mjs:273-281`, against 16-18); `ClaimsReplaceNone` (two
calls that overlap both find the file free, `file-collab.mjs:302`).

Seen while modelling, without a run of their own. In the loop: a judgement that ends after a
cancel arms the next round (`loop.mjs:389`); a verdict is applied to a loop it does not belong to
(`loop.mjs:517`); a cancel whose write fails is undone by the next resume (`loop.mjs:132`); two
timers for one round (`cli.mjs:2393`, `2417`); approve after a pause keeps the streak
(`loop.mjs:217`); a pause in the last round lets the count overshoot (`loop.mjs:466`); a pause
between rounds stays in `pausing` (`cli.mjs:2065`); an urgent message waits behind the next round,
and an endless loop starves the queue (`cli.mjs:2409`). In the turn: `STALL_HEAL_MAX` and
`CONTINUE_HEAL_MAX` of -1 mean "never", not "always" (`loop-core.mjs:182`); the instruction to
continue is written before the text it refers to (`loop-core.mjs:476`); `idleHeals` is never given
back, whatever `engine.mjs:957` says; the budget of repetition heals comes back with any
iteration that did not repeat; overflow retries are counted for the whole turn while
`engine.mjs:930` says there is no hard count; the timeout of a question equals the stall timeout,
so an unanswered question counts as a stall; a meltdown heal skips the wait for a question asked
beside the calls; a cancel during the calls can end the turn as stopped by a guard.

Of sub-agents: the line of waiting calls is looked at only when a foreground call ends, never when
a background lane does; `hardStop` leaves queued lanes and waiting calls, which start later
(against "全部停", `engine.mjs:3489`); a completion that was noted and then meets a turn in the
second look is forgotten; nothing ever writes that a task is done, so each crash claims it again;
a resume does not ask for a slot. Of sessions: a log of another tool never gets the line that says
it is ours, so each resume strips the tool calls made since; so it is with a log whose first line
was torn and cut off; results whose calls were lost are not patched; thinking of attempts that
came to nothing is added to that of the next message, while `session.mjs:295` expects one. Of the
atlas: root metadata that changes between the preflight and the scan leaves old cards in place
while their segments are dropped, and searches silently miss their files (`store.mjs:412-417`; the
constant `HintsMayRace` shows it, `IndexCoversCards` is violated); a segment that cannot be
finished is dropped and its cards committed without it (`store.mjs:508`; `DiskMayFail`); with
builds side by side one prunes the segment the other still writes, or has just committed
(`SideBySide`), and a process that finishes its build after another has committed keeps its own meta
and atlas under the stats of the other's files, and answers with them until the next build
(`store.mjs:642-648`; `LoadIsASnapshot` is violated); a search may lose segments to another process's prune after it looked whether they
are there (`search.mjs:243-251`); and that look is at the first shard only.

Of merges: a value that equals one of a neighbouring column may be paired with it, so that cells
change places in silence; when both sides have changed the number of units of a gap in different
ways, both versions are kept and no conflict is reported, whatever lines 26-31 say; repeated texts
can give a conflict of deletion and edit where nobody deleted; a merged format is never written (348);
and no operation inserts a column, so that one in the merge is lost (395-399), which is why
`WrittenHoldsMerge` speaks of sheets of equal width. Of shared files: a check-in finds no conflict
when the caller names no author (350, 362) or the claim was made before the first version; it
compares the author of the head alone, so a version of one's own, recorded in between, hides that
of another (362-388); the read-back of an append fails when another append comes between, though the
record stands (118-123); a release that comes late frees a newer claim of the same person; and a
renewed claim returns the current head while the version it counts from stays the old one.

## 6. What is proved

The proofs hold for every value of the constants: any set of handlers, inputs, loop options,
fingerprints, any bounds, any settings of the guards.

| theorem | module | assumes | argument |
|---|---|---|---|
| `TypeCorrect` | `KernelLoopProofs` | the constants' assumptions | `TypeInv` = types and "a handle refers to a timer"; without that part the count of timers could fall below zero |
| `RestartIsLossless` | `KernelLoopProofs` | the disk does not fail | `Recoverable`: while the kernel runs, the file holds the record (`Saved`), or the record with what only a round in flight adds (`Behind`) |
| `EndsAreEarned`, `RoundsStayWithinLimits` | `KernelLoopProofs` | nothing | a record that ended for its count carries that count, in memory, in the file and in what `load` makes of the file; for the action property, `onTurnEnd` is the only step that counts a round, and it judges what it has counted |
| `OneTurnAtATime`, `WakeUpsArePending` | `KernelLoopProofs` | no `done_when`, no `--until` | `Turns`: no such loop is in the record, the file or the queue, so no handler is in an await of the decision and `turnActive` is exact |
| `CancelStays` | `KernelLoopProofs` | both of the above | `Stopped`: after a cancel neither the record nor what a restart would load is active, and no round is queued |
| `WaitingLoopsWait` | `KernelLoopProofs` | no `done_when`, no `--until` | under `Turns`, each step but those of a person, a crash or a message already waiting leaves a waiting loop waiting: a timer fires for it no round |
| `LifePromiseKept` | `KernelLoopProofs` | both of the above | the refinement of `LoopLife`: each step of the scheduler maps to a step of the life cycle or a stutter, under `Turns` and `Recoverable` |
| `TurnTypeCorrect` | `EngineTurnProofs` | the constants' assumptions | a call that waits for an approval is still to be run |
| `StallBudget`, `StopsAreEarned` | `EngineTurnProofs` | the same | `Counts`: the counter of the stall guard equals the instructions given since progress; the counters of dead streams never run ahead of the history; E failed batches have been spent for every meltdown heal, in a row |
| `NoCallLeftOpen` | `EngineTurnProofs` | the same | `Where`: a stop is set inside a stream or ends the turn, and calls are open only where they are run |
| `DagTypeCorrect`, `StoppedRunsAreCancelled`, `NothingIsLost`, `NothingIsLeftBehind`, `StopsArePrompt` | `WorkflowDagProofs` | every workflow is well formed | `DagInv`: an edge's state is what its settled source says (`EdgesFollow`); what runs or is queued is ready, and stays so while other nodes settle (`SliceIsReady`); results and rows agree with what was tried (`BooksAgree`); no failure has been passed over (`NoneUnhandled`) |
| `PromiseKept`, `NodesBeginWanted` | `WorkflowDagProofs` | the same | under `DagInv` an active edge is a live one, so ready is wanted and skipped is unwanted; each step settles nodes as the promise allows or none |
| `ValidRunsNeverDeadlock` | `WorkflowDagProofs` | the same | a run that ended with no node at fault has open nodes each of which waits for another open one (`Circular`); by induction over its rounds `detectCycle` takes none of them away |
| `SlotsAreExact`, `NoTaskRunsTwice`, `NoSlotIdles`, `LimitIsKept` | `BackgroundWorkProofs` | finitely many tasks | `PoolInv`: entries and executing lanes agree, the counter of the foreground is its entries, what waits is new, what is queued is in the queue (`Sound`); a queue means full slots (`QueueIsNeeded`); each method is one lemma, and the number of entries a drain takes exists as a least number |
| `WakesAreBudgeted`, `BackgroundTypeCorrect` | `BackgroundWorkProofs` | the same | history counts wake-ups and is never reset; what the budget gives back is paid for by a message from outside or a process (`WakesCharged`), also one that waits in the queue and is dropped, which gives back nothing |
| `LoadsNeverMix` | `AtlasStoreProofs` | nothing; builds may overlap | `Loads`: at each place of a load, what was read names its build, and each entry of the caches is one build only |
| `LoadsAreSnapshots` | `AtlasStoreProofs` | builds do not overlap | besides, what was read was the committed build since the load began, and a meta kept under the stat of the file that is there is that file (`KnownMetas`) |
| `CommittedIndexIsThere`, `AtlasTypeCorrect` | `AtlasStoreProofs` | builds do not overlap (types: nothing) | `Commits`: builds have numbers of their own, a build starts from the committed meta, and what the committed meta or the plan names is there or was deleted |
| `BuildsEndWhole` | `AtlasStoreProofs` | builds do not overlap | `Halfway`: what a plan takes over was intact at the preflight, and nobody deletes segments under a build; its cards are those of the files it saw; what it has written is still there when the next part is |
| `IndexMissesNothing` | `AtlasStoreProofs` | builds do not overlap, root metadata does not change between preflight and scan, segments can be written | `Covering`: numbers of builds only rise, and no meta names a segment of a later build, so texts that were covered stay so (`KeptAtlases`); a plan takes old cards over with their segments or not at all (`TakesOver`); its cards' texts are in what it names or in what it is writing (`HasItsTexts`) |
| `CheckinsCoverNothing`, `HeldFilesStayHeld` | `TeamFilesProofs` | nothing; the properties speak of behaviours in which calls do not overlap | `Alone`: one call at a time, who holds the file has seen the version of the claim, a claim under way still finds what it read, and after the comparison of a check-in the head is one its author has seen or wrote |
| `OneSideIsKept` | `TeamFilesProofs` | versions are sequences, and the rows of a sheet are of equal width (`VersionsAssumption`) | the pairs of `LcsPairs` rise on both sides (`Matching`), on equal lists every place is its own pair, so `AlignToBase` cuts a side into one part for each unit of the base (`Partition`) and the parts put together are the side; a merge is the side when every decision puts the side's part, and is the result of a merge in every state (`IsRead`) |
| `NothingIsLost` | `TeamFilesProofs` | the same | each unit of a side is inserted somewhere or stands in the place of a unit of the base (`UnitsHavePlaces`); `Decide` puts it, reports it, or the base says the same (`DecideDropsNothing`), for the units of documents, of sheets and of rows alike (`CanMerge`) |
| `NoSideIsPreferred` | `TeamFilesProofs` | the same | decision by decision the two merges report the same case, exchanged, and put units of the same content as often (`Mirrors`, `AsMany`); counts add up over what is put together; the merge of the cells of a row comes first, in the same way, and has the same values as often (`RowsMirrored`) |
| `SignersStayKnown` | `TeamMembersProofs` | no device takes up a second invitation | `Logs`: what a device sees of a log is a beginning of it, which starts with the joining of its owner and is signed with one key throughout; so the joining of whoever signed a record is seen with it, and its key is the member's last one or there is another |
| `RemovalsAreObeyed` | `TeamMembersProofs` | the same, and no copies beside a log its owner writes | `Numbered` besides: the records of a log have numbers of their own, so that of the copies of a log the longest hides none; the last word about a member exists by the least-number principle |
| `LogTypeCorrect` | `SessionLogProofs` | the old logs are logs (`OldLogsAssumption`) | a replayed file and a written memory are `WellFormed`; a file has a line where its end is torn |
| `ReloadsRebuildTheSurface` | `SessionLogProofs` | a message a usage may still go to is among the last `TAIL_SCAN` lines (`UsageIsNear`) | `Replayable`: memory and replayed file are `Alike`, which one more entry keeps whether it is appended or read back; and the message of the usage has the last line of its number (`IsLineOf`) |
| `FailuresCostOneEntry` | `SessionLogProofs` | a log that is resumed has the line of its transcript (`ReadsItsOwn`) | `Insured`: what is lost, and one more for a torn end under a living process (`Debt`), has been spent in faults; a torn line is not a kept one; kept lines have numbers below the next one, so a usage is never written over another message |
| `CallsAreAnswered` | `SessionLogProofs` | the file stays in order (`InOrder`); old logs of the kernel's own are in order too (`OldBatchesAssumption`) | `Answerable`: of the messages in memory none is answered further away than in the next (`Paired`), a batch that waits for its results is the last there is (`CallsLast`), and the lines are `Tidy` (`Filed`), so that an ordered file is replayed as paired messages (`OrderedReplay`); what `patchOrphanToolUses` makes of paired messages answers every call in the next (`PatchAnswers`) |
| `AnswersFollowTheirCalls`, `ThinkingKeepsToItsTurn` | `SessionLogProofs` | `UsageIsNear` as above; what a resume makes of an old log is settled (`OldSurfacesAssumption`) | `Standing`: while no append was lost, the memory and what a resume would make of the file are `Settled` (no node stands twice, a summary is younger than what it covers, results stand behind their batch, no thinking of another turn lies before a batch); what the next message may take in is of the turn that runs (`Pending`), a batch that waits for results is the last node (`Waiting`), what a begun compaction covers is a beginning that does not end in front of results (`Landing`), and the window begins where no batch is open (`Window`) |

Each inductive invariant was checked by TLC before it was proved. That the assumptions are needed,
TLC shows too: `LoopTwoTurns` for that of `OneTurnAtATime`; with `SideBySide`, `HintsMayRace` or
`DiskMayFail` set in turn, `AtlasBuilds` finds `IndexCoversCards` violated, and `LoadIsASnapshot`, `BuildEndsWhole` and
`CommittedSegmentsStay` with the first of them alone; with `Rejoins`, `TeamLogs` finds
`SignersAreKnown` violated, and with `OwnCopies` `RevocationHolds`; and `ClaimsReplaceNone`, which
is `HeldFilesStayHeld` for calls that overlap, is refuted. With `TAIL_SCAN = 1` and seven appends,
`SessionLog` finds `ReloadRebuildsSurface` violated in a new session (the usage is written over an older
meta of the same number: numbers of metas are given out again after a resume), and
`FailureCostsOneEntry` in a log of another tool (its results are not read back, and their numbers are
given out again). The code looks at the last 8 lines; in the model as in the engine nothing limits how
many metas and thinkings follow a message before its usage.

`EveryCallIsAnswered` asks for order of the file at the moment of the request, `CallsAreAnswered` for
order from the first moment on. On the run's instance the two say the same: TLC finds that a file out
of order never comes back into it. Longer sessions are not known to: where the line out of order is the
last one and lacks its newline, what is glued to it would take it away, and the memory would still be
that of the file before.

Some of these theorems are about invariants that no run repeats, since nothing can be learned from a
small instance once they are proved: the types, `WakeUpsArePending`, `StallBudget`,
`LoadsNeverMix`, `StoppedRunsAreCancelled`, `StopsArePrompt`, `NodesBeginWanted`,
`NoSlotIdles`, `LimitIsKept`, `WakesAreBudgeted` and `HeldFilesStayHeld`.

Induction: the library's induction theorems take the statement as an operator, which the provers
cannot instantiate. `ValidRunsNeverDeadlock`, `RemovalsAreObeyed` and the theorems about `SessionLog`
go around it: a set of numbers outside of which there is no least one is all of them, by `WFMin` and
`NatLessThanWellFounded`, which speak of sets alone. The fold that replays a file is unrolled with it:
there is a function that gives the memory after each line (`ReplayRuns`), and the memory after one more
line is one step further (`ReplayAppend`). The list of a request is flattened out of pieces, and is
unrolled the same way (`FlatteningsExist`, `FlattenedPlaces`).

What is recursive in the merge is treated the same way: `LcsPairs` is two functions over pairs of
places, and what holds of the later pairs holds of all.

Only model-checked: the liveness properties (`CountedLoopRests`, `QueueDrains`,
`EndsWithoutProgress`, `CancelEnds`, `RunEnds`, `QueuedTaskRuns`, `RevocationReaches`, `MembersAgree`,
`AskerGetsFile`), which need fairness and lie outside the proof system; and `WrittenHoldsMerge`, which
says what a list of operations makes of a document, one after the other, and would need an induction
over that list with the places of all units in it.

## 7. What is not modelled, and why

Text: what a model says, what a detector finds in it, prompts, summaries. Networks and tools: how
a request or a call ends is a choice. Files other than the loop file, the session log, the registry
of sub-agents, the cache of the atlas and the logs of a team: the modules of section 2 that are to
come, or plain reading and writing.
The gap between `await loop.onTurnEnd` settling and the code after it is one microtask and is
taken as atomic. The end of stdin with its 30 seconds of grace (`cli.mjs:2786`) is a `Crash`.
Messages from auto wake and triggers are plain messages. `/loop` as text of a message swallows
one draining of the queue; it is the input `text`. Of workflows: the bodies of loop and iterate
nodes, sub-workflows, what the executors do, cron and webhook triggers, parsing and migration, the
hash chain of the audit; that a run id stays marked as cancelled after its run is why `aborted`
may hold from the start.

Of sub-agents: what a lane does (it is a turn), messages to a running task, commands in the shell.
Of sessions: the limit of entries kept in memory, a file that is deleted under the process, redaction.
Of compaction: when to compact, the breaker, the clearing of old results. Of the atlas: scopes,
freshness, what is in a card or an edge. Of teams: keys and signatures, expiry and throttling of
codes, drafts and the resolution of a conflict by hand, placeholders beyond a refused read, the
server around these modules, which is not in the repository.

The modules map a small part of the repository's lines. Most of the rest is text processing (search
in knowledge, import of documents, prompts, summaries), single tools, screens, command lines and
metrics: code that runs from its input to its output with nothing beside it, where a test says as
much as a model.
