---------------------------- MODULE SessionStore ----------------------------
(***************************************************************************)
(* The store of one session (kernel/session.mjs): the file of lines, to    *)
(* which entries are only ever appended, and the memory built beside it,   *)
(* from which the messages of a request are derived                        *)
(* (kernel/request-face.mjs).  Operators only; SessionLog drives them.     *)
(*                                                                         *)
(* An entry keeps what the two sides tell apart: its type, its number      *)
(* `seq', the tool calls it makes or answers (`uses'), the numbers a       *)
(* summary stands for (`covers').  `id', `turn' and `thought' say where it *)
(* came from: the identity, the turn, and the thinking of its own attempt. *)
(* A line that does not parse is the value Garbage.  Text, timestamps,     *)
(* redaction and telemetry are left out, and so is the window maxEntries,  *)
(* which no caller sets.  A message with calls also carries text.          *)
(***************************************************************************)
EXTENDS Integers, Sequences, SequencesExt, FiniteSetsExt

CONSTANT TAIL_SCAN      \* lines setEntryUsage looks at from the end

Blank == [id |-> 0, seq |-> 0, type |-> "user", uses |-> {}, covers |-> {},
          turn |-> 0, thought |-> 0, usage |-> FALSE]
Garbage == [Blank EXCEPT !.type = "garbage"]
Parses(line) == line.type # "garbage"
Unnumbered == {"transcript", "meta"}

\* ------------------------------------------------------------- the file
(* How the last line ends: with its newline ("closed"), or without it,     *)
(* after a whole object or in the middle of one.                           *)
NoFile == [exists |-> FALSE, lines |-> <<>>, end |-> "closed"]

(* appendFileSync: what follows a line without a newline is glued to it,   *)
(* and the line no longer parses.                                          *)
Extended(disk, line, end) ==
    [exists |-> TRUE,
     lines |-> IF disk.end = "closed" THEN Append(disk.lines, line)
               ELSE Append(Front(disk.lines), Garbage),
     end |-> IF end = "whole" /\ disk.end # "closed" THEN "half" ELSE end]

Written(disk, e) == Extended(disk, e, "closed")
CutShort(disk, e) == {Extended(disk, e, "whole"), Extended(disk, Garbage, "half")}

(* repairTornTail: a whole object gets its newline, half of one is cut off. *)
RepairNothing(disk) == disk
RepairTornTail(disk) ==
    CASE disk.end = "closed" -> disk
      [] disk.end = "whole" -> [disk EXCEPT !.end = "closed"]
      [] disk.end = "half" -> [disk EXCEPT !.end = "closed", !.lines = Front(@)]

ReadLines(disk) == {line \in ToSet(disk.lines) : Parses(line)}
Foreign(disk) == \A i \in DOMAIN disk.lines : disk.lines[i].type # "transcript"

(* setEntryUsage: the line of that number among the last TAIL_SCAN, the    *)
(* last of them, or else the first in the file, is written anew.           *)
LineOf(disk, seq) ==
    LET same == {i \in DOMAIN disk.lines : Parses(disk.lines[i]) /\ disk.lines[i].seq = seq}
        near == {i \in same : i > Len(disk.lines) - TAIL_SCAN}
    IN  CASE near # {} -> Max(near)
          [] near = {} /\ same # {} -> Min(same)
          [] OTHER -> 0
Rewritten(disk, e) ==
    LET i == LineOf(disk, e.seq)
    IN  IF i = 0 THEN disk ELSE [disk EXCEPT !.lines[i] = e]

\* ----------------------------------------------------------- the memory
Empty == [nextSeq |-> 1, nodes |-> <<>>, thinkingSeqs |-> {}, entries |-> [s \in {} |-> Blank]]

Known(mem, e) == [mem EXCEPT !.entries =
    [s \in DOMAIN mem.entries \union {e.seq} |-> IF s = e.seq THEN e ELSE mem.entries[s]]]
Projected(mem, e) == [Known(mem, e) EXCEPT !.nodes = Append(@, e.seq)]
Thought(mem, e) == [Known(mem, e) EXCEPT !.thinkingSeqs = @ \union {e.seq}]

(* A summary takes the place of as many nodes as it covers, from the first *)
(* of them on.                                                             *)
Spliced(nodes, covers, seq) ==
    LET hit == {i \in DOMAIN nodes : nodes[i] \in covers}
    IN  IF hit = {} THEN nodes
        ELSE SubSeq(nodes, 1, Min(hit) - 1) \o <<seq>>
             \o SubSeq(nodes, Min(hit) + Cardinality(hit), Len(nodes))
Summed(mem, e) == [Known(mem, e) EXCEPT !.nodes = Spliced(@, e.covers, e.seq)]
SummedAtEnd(mem, e) == [Known(mem, e) EXCEPT
    !.nodes = Append(SelectSeq(@, LAMBDA s : s \notin e.covers), e.seq)]

(* What an append does to the memory of the process that makes it.         *)
Remembered(mem, e) ==
    LET counted == [mem EXCEPT !.nextSeq = @ + 1]
    IN  CASE e.type = "start"    -> counted
          [] e.type = "meta"     -> Known(counted, e)
          [] e.type = "thinking" -> Thought(counted, e)
          [] e.type = "summary"  -> Summed(counted, e)
          [] OTHER               -> Projected(counted, e)

(* And what reading a line back does: one that does not parse is skipped,  *)
(* and the numbers of metas are not counted.                               *)
ReplayedAtEnd(mem, e) ==
    LET seq == IF e.seq = 0 THEN mem.nextSeq ELSE e.seq
        counted == [mem EXCEPT !.nextSeq = Max({@, seq}) + 1]
        numbered == [e EXCEPT !.seq = seq]
    IN  CASE ~Parses(e) \/ e.type \in Unnumbered -> mem
          [] e.type = "start"    -> counted
          [] e.type = "thinking" -> Thought(counted, numbered)
          [] e.type = "summary"  -> SummedAtEnd(counted, numbered)
          [] OTHER               -> Projected(counted, numbered)
Replayed(mem, e) ==
    LET seq == IF e.seq = 0 THEN mem.nextSeq ELSE e.seq
        counted == [mem EXCEPT !.nextSeq = Max({@, seq}) + 1]
        numbered == [e EXCEPT !.seq = seq]
    IN  CASE ~Parses(e) \/ e.type \in Unnumbered -> mem
          [] e.type = "start"    -> counted
          [] e.type = "thinking" -> Thought(counted, numbered)
          [] e.type = "summary"  -> Summed(counted, numbered)
          [] OTHER               -> Projected(counted, numbered)

(* A log without the transcript line comes from another tool: its tool     *)
(* calls are taken out, and results are skipped like a line that does not  *)
(* parse.                                                                  *)
Stripped(lines) ==
    [i \in DOMAIN lines |->
        IF lines[i].type = "results" THEN Garbage ELSE [lines[i] EXCEPT !.uses = {}]]
RebuildSurface(disk) ==
    FoldLeft(Replayed, Empty, IF Foreign(disk) THEN Stripped(disk.lines) ELSE disk.lines)

\* --------------------------------------------------------- the messages
(* Where the thinking of the message after node i begins.                  *)
Boundary(mem, i) ==
    IF i = 0 THEN 0
    ELSE LET e == mem.entries[mem.nodes[i]]
         IN  IF e.type = "summary" /\ e.covers # {} THEN Max(e.covers) ELSE e.seq

ThinkingSinceEver(mem, i) ==
    {mem.entries[t] : t \in {t \in mem.thinkingSeqs : t < mem.nodes[i]}}
ThinkingBetween(mem, i) ==
    {mem.entries[t] : t \in {t \in mem.thinkingSeqs :
                                Boundary(mem, i - 1) < t /\ t < mem.nodes[i]}}

(* deriveMessages: only an assistant message with calls takes thinking in. *)
Message(e, thinking) == [type |-> e.type, uses |-> e.uses, entry |-> e, thinking |-> thinking]
DeriveMessages(mem) ==
    [i \in DOMAIN mem.nodes |->
        LET e == mem.entries[mem.nodes[i]]
        IN  Message(e, IF e.type = "assistant" /\ e.uses # {} THEN ThinkingBetween(mem, i) ELSE {})]

(* patchOrphanToolUses: the calls no later message answers are answered by *)
(* an error, in the message that follows if it answers others already, or  *)
(* else in one of their own.                                               *)
Orphans(msgs, i) ==
    IF msgs[i].type # "assistant" THEN {}
    ELSE msgs[i].uses \ UNION {msgs[j].uses : j \in {j \in DOMAIN msgs : j > i /\ msgs[j].type = "results"}}
Answers(uses) == Message([Blank EXCEPT !.type = "results", !.uses = uses], {})

PatchOneByOne(msgs) ==
    FlattenSeq([i \in DOMAIN msgs |->
        <<msgs[i]>> \o [k \in 1..Cardinality(Orphans(msgs, i)) |->
                           Answers({SetToSeq(Orphans(msgs, i))[k]})]])
PatchOrphanToolUses(msgs) ==
    LET joins(i) == i + 1 \in DOMAIN msgs /\ msgs[i + 1].type = "results"
        filled(i) == IF i > 1 /\ msgs[i].type = "results"
                     THEN [msgs[i] EXCEPT !.uses = @ \union Orphans(msgs, i - 1)]
                     ELSE msgs[i]
    IN  FlattenSeq([i \in DOMAIN msgs |->
            <<filled(i)>> \o IF Orphans(msgs, i) = {} \/ joins(i) THEN <<>>
                             ELSE <<Answers(Orphans(msgs, i))>>])
(* findCutPoint: a summary may cover what is before a message of the user  *)
(* or before a batch of calls, something else than summaries, and never in *)
(* a batch that waits for its results.  Which of them depends on sizes.    *)
OpenTail(msgs) == Last(msgs).type = "assistant" /\ Last(msgs).uses # {}
Novel(msgs, i) == \E j \in 1..(i - 1) : msgs[j].type # "summary"
AnyCutPoint(msgs) == {i \in 2..Len(msgs) : ~OpenTail(msgs) /\ Novel(msgs, i)}
CutPoints(msgs) ==
    {i \in 2..Len(msgs) :
        /\ ~OpenTail(msgs) /\ Novel(msgs, i)
        /\ \/ msgs[i].type = "user"
           \/ msgs[i].type = "assistant" /\ msgs[i].uses # {}}
=============================================================================
