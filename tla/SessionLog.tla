----------------------------- MODULE SessionLog -----------------------------
(***************************************************************************)
(* The log of one session as a turn writes it (kernel/engine.mjs,          *)
(* kernel/cli.mjs), with the compaction that folds old messages into a     *)
(* summary (kernel/compact.mjs), the window of a loop started with         *)
(* --fresh, disks that refuse an append or take part of it, processes that *)
(* die in the middle of one, and the resume that reads the file back.      *)
(*                                                                         *)
(* KernelLoop and EngineTurn model when turns start and how they go on;    *)
(* here a turn writes any entries in the order the engine can write them.  *)
(* The memory changes with each append whether or not the write succeeds.  *)
(***************************************************************************)
EXTENDS SessionStore

CONSTANTS
    OldLogs,       \* files the first process may find; NoFile: a new session
    MaxCalls,      \* bound: tool calls of one message
    MaxAppends,    \* bound: entries appended
    MaxTrouble     \* bound: appends and repairs the disk spoils, processes
                   \* that end, and windows set, together

ASSUME TailAssumption == TAIL_SCAN \in Nat
ASSUME BoundAssumption == MaxCalls \in Nat /\ MaxAppends \in Nat /\ MaxTrouble \in Nat

Entry == [id : Int, seq : Nat, uses : SUBSET (Int \X Int), covers : SUBSET Nat,
          turn : Int, thought : Int, usage : BOOLEAN,
          type : {"user", "assistant", "results", "thinking", "start", "summary",
                  "transcript", "meta", "garbage"}]
Disk == [exists : BOOLEAN, lines : Seq(Entry), end : {"closed", "whole", "half"}]

(* A file that is not there has no lines, and one with a torn end has the  *)
(* line that is torn; entries of old logs are none of those to come.       *)
WellEnded(d) ==
    /\ d.exists \/ d = NoFile
    /\ d.end # "closed" => d.lines # <<>>
    /\ d.end = "half" => ~Parses(Last(d.lines))
ASSUME OldLogsAssumption ==
    \A d \in OldLogs :
        d \in Disk /\ WellEnded(d) /\ \A i \in DOMAIN d.lines : d.lines[i].id <= 0

(* A log of the kernel's own: calls go by the identity of their message,   *)
(* no message stands between a batch and its results, and numbers rise.    *)
NodeTypes == {"user", "assistant", "results", "summary"}
Owned(e) == e.type = "assistant" => e.uses \subseteq {e.id} \X Int
Tidy(lines) ==
    /\ \A e \in lines : Owned(e) /\ (e.type \notin Unnumbered => e.seq > 0)
    /\ \A e, f \in lines :
          /\ e.type = "results" /\ f.type \in NodeTypes =>
                \A u \in e.uses : ~(u[1] < f.id /\ f.id < e.id)
          /\ {e.type, f.type} \cap Unnumbered = {} /\ e.id < f.id => e.seq < f.seq
ASSUME OldBatchesAssumption == \A d \in OldLogs : ~Foreign(d) => Tidy(ReadLines(d))

(* What a resume makes of an old log is as a session nobody spoilt leaves  *)
(* it: no node stands twice, a summary is younger than what it covers,     *)
(* results stand behind their batch, and the thinking a batch would be     *)
(* sent with is of its own turn.                                           *)
Numbered(m) ==
    /\ \A i, j \in DOMAIN m.nodes : m.nodes[i] = m.nodes[j] => i = j
    /\ \A n \in ToSet(m.nodes) :
          m.entries[n].type = "summary" => \A c \in m.entries[n].covers : c < n
Answering(m) == \A i \in DOMAIN m.nodes :
    LET e == m.entries[m.nodes[i]]
    IN  e.type = "results" => i > 1 /\ e.uses \subseteq m.entries[m.nodes[i - 1]].uses
InTurns(m) == \A i \in DOMAIN m.nodes :
    LET e == m.entries[m.nodes[i]]
    IN  e.type = "assistant" /\ e.uses # {} =>
           \A t \in m.thinkingSeqs :
              Boundary(m, i - 1) < t /\ t < m.nodes[i] => m.entries[t].turn = e.turn
Settled(m) == Numbered(m) /\ Answering(m) /\ InTurns(m)
ASSUME OldSurfacesAssumption == \A d \in OldLogs : Settled(RebuildSurface(d))

VARIABLES
    disk,     \* the file
    mem,      \* nodes, thinkingSeqs, entriesBySeq and nextSeq of the process
    talk,     \* where the turn stands, and what it still has to write
    skip,     \* historySkip: messages left out of a request
    past      \* history, and what the bounds count

vars == <<disk, mem, talk, skip, past>>

Phases == {"down", "idle", "turn", "calls"}

(* said: lastAssistantEntry; landing: what a begun compaction covers.      *)
Silent == [phase |-> "idle", turn |-> 0, thought |-> 0, said |-> 0, landing |-> {}]
Down == [Silent EXCEPT !.phase = "down"]

(* made: entries so far; born: that number when the process began; kept:   *)
(* entries but metas whose append returned; sound: no append of this       *)
(* process failed; since: entries made when the window was set.            *)
NoPast == [made |-> 0, born |-> 0, kept |-> {}, sound |-> TRUE, faults |-> 0, crashes |-> 0,
           fresh |-> 0, since |-> 0]

Init ==
    /\ disk \in OldLogs
    /\ mem = Empty /\ talk = Down /\ skip = 0 /\ past = NoPast

\* ------------------------------------------------------------ one append
Next1 == past.made + 1
More == past.faults + past.crashes + past.fresh < MaxTrouble
New(type) == [Blank EXCEPT !.id = Next1, !.seq = mem.nextSeq, !.type = type, !.turn = talk.turn]

(* The write succeeds, or the disk refuses it or takes a part: the error   *)
(* is swallowed.                                                           *)
WriteEntry(e) ==
    \/ /\ disk' = Written(disk, e)
       /\ past' = [past EXCEPT !.made = Next1,
                               !.kept = IF e.type = "meta" THEN @ ELSE @ \union {e.id}]
    \/ /\ More
       /\ disk' \in {disk} \union CutShort(disk, e)
       /\ past' = [past EXCEPT !.made = Next1, !.faults = @ + 1, !.sound = FALSE]

AppendEntry(e) ==
    /\ past.made < MaxAppends
    /\ mem' = Remembered(mem, e)
    /\ WriteEntry(e)
    /\ UNCHANGED skip

Writing(phase) == talk.phase = phase /\ talk.landing = {}

\* -------------------------------------------------------------- the turn
(* runTurn: the message of the user begins the turn.                       *)
UserSays ==
    /\ Writing("idle")
    /\ AppendEntry([New("user") EXCEPT !.turn = Next1])
    /\ talk' = [Silent EXCEPT !.phase = "turn", !.turn = Next1]

(* A message for the running turn, of the user or of the system.           *)
Injects ==
    /\ Writing("turn") /\ talk.thought = 0
    /\ AppendEntry(New("user"))
    /\ UNCHANGED talk

(* flushThinking, on the way to the message of the same attempt; or the    *)
(* attempt came to nothing (an empty completion) and another one follows.  *)
FlushesThinking ==
    /\ Writing("turn") /\ talk.thought = 0
    /\ AppendEntry(New("thinking"))
    /\ \E thought \in {Next1, 0} : talk' = [talk EXCEPT !.thought = thought]

(* persistAssistant with tool calls, and the results of the whole batch.   *)
Calls ==
    /\ Writing("turn")
    /\ \E n \in 1..MaxCalls :
          AppendEntry([New("assistant") EXCEPT !.uses = {Next1} \X (1..n), !.thought = talk.thought])
    /\ talk' = [talk EXCEPT !.phase = "calls", !.said = mem.nextSeq, !.thought = 0]

Results ==
    /\ Writing("calls")
    /\ AppendEntry([New("results") EXCEPT !.uses = mem.entries[talk.said].uses])
    /\ talk' = [talk EXCEPT !.phase = "turn"]

(* Text ends the turn, or was cut off by the limit and is continued.       *)
Says ==
    /\ Writing("turn")
    /\ AppendEntry([New("assistant") EXCEPT !.thought = talk.thought])
    /\ talk' \in {Silent, [talk EXCEPT !.said = mem.nextSeq, !.thought = 0]}

(* finalizeUsage without a text: the usage goes to the last message.       *)
SetEntryUsage ==
    /\ Writing("turn") /\ talk.said # 0
    /\ LET e == [mem.entries[talk.said] EXCEPT !.usage = TRUE]
       IN  /\ mem' = Known(mem, e)
           /\ disk' \in {disk, Rewritten(disk, e)}
    /\ talk' = Silent
    /\ UNCHANGED <<skip, past>>

(* The turn fails, or is cancelled, which leaves a message.                *)
Fails ==
    /\ talk.phase \in {"turn", "calls"} /\ talk.landing = {}
    /\ talk' = Silent
    /\ UNCHANGED <<disk, mem, skip, past>>

Cancelled ==
    /\ talk.phase \in {"turn", "calls"} /\ talk.landing = {}
    /\ AppendEntry(New("assistant"))
    /\ talk' = Silent

(* Approvals, the ledger of the turn, settings: not for the model.         *)
AppendMeta ==
    /\ talk.phase # "down" /\ talk.landing = {} /\ talk.thought = 0
    /\ AppendEntry(New("meta"))
    /\ UNCHANGED talk

\* -------------------------------------------------------- the compaction
CompactionStart ==
    /\ Writing("turn") /\ talk.thought = 0
    /\ \E i \in CutPoints(DeriveMessages(mem)) :
          talk' = [talk EXCEPT !.landing = {mem.nodes[j] : j \in 1..(i - 1)}]
    /\ AppendEntry([New("start") EXCEPT !.covers = talk'.landing])

CompactionLands ==
    /\ talk.phase = "turn" /\ talk.landing # {}
    /\ AppendEntry([New("summary") EXCEPT !.covers = talk.landing])
    /\ talk' = [talk EXCEPT !.landing = {}]

(* --fresh, after the first round: what there is now is left out.          *)
SetFreshWindow ==
    /\ Writing("idle") /\ More
    /\ skip' = Len(mem.nodes)
    /\ past' = [past EXCEPT !.fresh = @ + 1, !.since = past.made]
    /\ UNCHANGED <<disk, mem, talk>>

\* ---------------------------------------------------------- the process
(* A new session writes the line of the transcript; any other is repaired  *)
(* and read.                                                               *)
CreatesSession ==
    /\ talk.phase = "down" /\ ~disk.exists
    /\ past.made < MaxAppends
    /\ WriteEntry([Blank EXCEPT !.id = Next1, !.type = "transcript"])
    /\ talk' = Silent /\ mem' = Empty /\ skip' = 0

Resumes ==
    /\ talk.phase = "down" /\ disk.exists
    /\ \/ /\ disk' = RepairTornTail(disk)
          /\ past' = [past EXCEPT !.born = past.made, !.sound = TRUE]
       \/ /\ disk.end # "closed" /\ More
          /\ disk' = disk
          /\ past' = [past EXCEPT !.born = past.made, !.sound = FALSE, !.faults = @ + 1]
    /\ mem' = RebuildSurface(disk')
    /\ talk' = Silent /\ skip' = 0

(* The process dies between two appends, or in the middle of one: half of  *)
(* a line is there, or all of the line it just wrote but its newline.      *)
Dies ==
    /\ talk.phase # "down" /\ More
    /\ \/ disk' = disk /\ past' = [past EXCEPT !.crashes = @ + 1]
       \/ disk' = Extended(disk, Garbage, "half") /\ past' = [past EXCEPT !.crashes = @ + 1]
       \/ /\ disk.lines # <<>> /\ disk.end = "closed"
          /\ Parses(Last(disk.lines)) /\ Last(disk.lines).id > past.born
          /\ disk' = [disk EXCEPT !.end = "whole"]
          /\ past' = [past EXCEPT !.crashes = @ + 1, !.kept = @ \ {Last(disk.lines).id}]
    /\ mem' = Empty /\ talk' = Down /\ skip' = 0

Next ==
    \/ UserSays \/ Injects \/ FlushesThinking \/ Calls \/ Results \/ Says
    \/ SetEntryUsage \/ Fails \/ Cancelled \/ AppendMeta
    \/ CompactionStart \/ CompactionLands \/ SetFreshWindow
    \/ CreatesSession \/ Resumes \/ Dies

Spec == Init /\ [][Next]_vars

\* ----------------------------------------------------------- properties
Running == talk.phase # "down"

(* The memory is well formed: every node and every thinking has its entry, *)
(* under its own number, and the next number is above them all             *)
(* (session.mjs:75-86, 276-290).                                           *)
TypeOK ==
    /\ disk.end \in {"closed", "whole", "half"} /\ disk.exists \in BOOLEAN
    /\ talk.phase \in Phases /\ skip \in Nat
    /\ \A s \in ToSet(mem.nodes) \union mem.thinkingSeqs :
          s \in DOMAIN mem.entries /\ mem.entries[s].seq = s /\ s < mem.nextSeq

(* As long as the disk took every append, a process that died now would be *)
(* resumed with the very messages the model has been given: the file,      *)
(* replayed, is the memory, through compactions, orphaned starts of them,  *)
(* usage written later and torn ends (session.mjs:122-175 against 424-551). *)
Surface(m) ==
    [nodes |-> m.nodes, thinkingSeqs |-> m.thinkingSeqs,
     said |-> [s \in ToSet(m.nodes) \union m.thinkingSeqs |-> [m.entries[s] EXCEPT !.usage = FALSE]]]
ReloadRebuildsSurface ==
    Running /\ past.sound /\ ~Foreign(disk) => Surface(RebuildSurface(disk)) = Surface(mem)

(* An entry but a meta whose append returned is read back, but for one entry for each *)
(* append the disk spoiled under a living process: a torn end left by a    *)
(* crash costs nothing that was there (session.mjs:177-225).               *)
FailureCostsOneEntry ==
    Cardinality(past.kept \ {e.id : e \in ReadLines(disk)}) <= past.faults

(* Every request answers every call of a message in the message right      *)
(* after it, whatever was lost, cancelled, folded or cut off before        *)
(* (request-face.mjs:132-191), while the file is in the order in which it  *)
(* was written.  It may not be: the usage of a message that never reached  *)
(* the file can be written, calls and all, over an older meta of the same  *)
(* number, and a resume then finds the calls before earlier messages.      *)
InOrder == \A i, j \in DOMAIN disk.lines :
    i < j /\ Parses(disk.lines[i]) /\ Parses(disk.lines[j]) => disk.lines[i].id < disk.lines[j].id
RequestMessages == PatchOrphanToolUses(SubSeq(DeriveMessages(mem), skip + 1, Len(mem.nodes)))
EveryCallIsAnswered ==
    Running /\ InOrder =>
        LET msgs == RequestMessages
        IN  \A i \in DOMAIN msgs :
               msgs[i].type = "assistant" /\ msgs[i].uses # {} =>
                 /\ i < Len(msgs)
                 /\ msgs[i + 1].type = "results" /\ msgs[i].uses \subseteq msgs[i + 1].uses

(* And no request answers a call it does not show right before the answer, *)
(* as long as no append was lost, and no message was folded in a window of *)
(* --fresh: a cut never parts a batch from its results                     *)
(* (compact.mjs:376-380).                                                  *)
FoldedSince == \E i \in DOMAIN mem.nodes :
    LET e == mem.entries[mem.nodes[i]] IN e.type = "summary" /\ e.id > past.since
NoAnswerWithoutCall ==
    Running /\ past.faults = 0 /\ (skip = 0 \/ ~FoldedSince) =>
        LET msgs == RequestMessages
        IN  \A i \in DOMAIN msgs :
               msgs[i].type = "results" => i > 1 /\ msgs[i].uses \subseteq msgs[i - 1].uses

(* Thinking is never handed on as that of another turn, although thinking  *)
(* of attempts that failed stays in the log (session.mjs:295-318).         *)
ThinkingStaysInItsTurn ==
    Running /\ past.faults = 0 =>
        \A i \in DOMAIN mem.nodes :
            LET msg == DeriveMessages(mem)[i]
            IN  \A t \in msg.thinking : t.turn = msg.entry.turn

(* Refuted by TLC.  A message with calls is sent with the thinking of its  *)
(* own attempt, as endpoints demand (session.mjs:320-325, 568-573).        *)
ThinkingIsPassedBack ==
    Running => \A i \in DOMAIN mem.nodes :
        LET msg == DeriveMessages(mem)[i]
        IN  msg.entry.thought # 0 /\ msg.uses # {} =>
               msg.entry.thought \in {t.id : t \in msg.thinking}

(* Refuted by TLC.  The window of --fresh leaves out what was said before  *)
(* it, and only that (engine.mjs:725).                                     *)
FreshKeepsItsRound ==
    Running => LET msgs == DeriveMessages(mem)
               IN  \A i \in 1..Len(msgs) :
                      i <= skip => msgs[i].entry.id <= past.since \/ msgs[i].type = "summary"

(* Refuted by TLC.  No two lines of a file nobody spoilt have one number   *)
(* (session.mjs:508-510).                                                  *)
SeqIsUnique ==
    past.faults = 0 =>
        \A i, j \in DOMAIN disk.lines :
            i # j /\ disk.lines[i].seq # 0 => disk.lines[i].seq # disk.lines[j].seq
=============================================================================
