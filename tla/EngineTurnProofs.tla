------------------------- MODULE EngineTurnProofs -------------------------
(***************************************************************************)
(* Theorems about EngineTurn, for every setting of the guards, every number*)
(* of calls in a reply and every height of the ladder of output tiers.     *)
(***************************************************************************)
EXTENDS EngineTurn, TLAPS

(***************************************************************************)
(* The inductive invariant.  A call that waits for an approval is still to *)
(* be run; a stop is set inside the stream or ends the turn, and no guard  *)
(* but those two looks into a stream; and the code's counters, which other *)
(* events reset, never run ahead of what happened.                         *)
(***************************************************************************)

Waiting == pc = "approval" => left > 0

Stops ==
  /\ stop # "none" => pc \in {"stream", "ended"}
  /\ stop \in {"stall", "meltdown", "upstream"} => pc = "ended"

StallCount ==
  /\ quietStalls = used["stall"]
  /\ StallBudgetHolds

StreamCounts == used["upstream"] <= deadRun /\ used["dead"] <= silentTrips

\* Every instruction to get on after failures took `errors` failed batches.
MeltdownCount ==
  /\ used["errors"] <= knobs.errors
  /\ knobs.meltdownHeal >= 0 =>
       /\ used["meltdown"] <= knobs.meltdownHeal
       /\ failRun >= knobs.errors * used["meltdown"] + used["errors"]

TypeInv == TypeOK /\ Waiting
StopInv == Stops /\ StallCount /\ StreamCounts /\ MeltdownCount /\ StopIsEarned

-----------------------------------------------------------------------------
(* Counters.                                                               *)

LEMMA UpToBounds ==
  ASSUME NEW n \in Nat, NEW max \in Int
  PROVE  UpTo(n, max) \in Nat /\ n <= UpTo(n, max) /\ UpTo(n, max) <= n + 1
BY DEF UpTo

LEMMA KnobTypes ==
  ASSUME NEW k \in Knobs
  PROVE  /\ k \in KnobSet
         /\ k.errors \in Nat /\ k.upstreamHeal \in Nat /\ k.deadRetry \in Nat
         /\ k.stallHeal \in Int /\ k.meltdownHeal \in Int /\ k.tokens \in 0..Top
BY KnobsAssumption DEF KnobSet

LEMMA SpendType ==
  ASSUME used \in [Counters -> Nat], NEW c \in Counters, NEW max \in Int
  PROVE  Spend(c, max) \in [Counters -> Nat]
BY UpToBounds DEF Spend

LEMMA CountedType ==
  ASSUME used \in [Counters -> Nat], knobs \in Knobs
  PROVE  counted \in [Counters -> Nat]
<1>1. knobs.iterations \in Int
  BY KnobTypes DEF KnobSet
<1> QED BY <1>1, UpToBounds DEF counted, Counters

LEMMA AfterBatchType ==
  ASSUME used \in [Counters -> Nat], knobs \in Knobs
  PROVE  afterBatch \in [Counters -> Nat]
<1>1. knobs.errors \in Int /\ knobs.streak \in Int
  BY KnobTypes DEF KnobSet
<1>2. UpTo(used["errors"], knobs.errors) \in Nat /\ UpTo(used["streak"], knobs.streak) \in Nat
  BY <1>1, UpToBounds DEF Counters
<1> QED BY <1>2 DEF afterBatch, Counters

-----------------------------------------------------------------------------
(* Types.                                                                  *)

LEMMA InitTypes == Init => TypeInv
<1> SUFFICES ASSUME Init PROVE TypeInv
  OBVIOUS
<1>1. tier \in 0..Top
  BY KnobTypes DEF Init
<1>2. left \in 0..MaxCalls
  BY BoundsAssumption DEF Init
<1> QED BY <1>1, <1>2 DEF Init, TypeInv, TypeOK, Waiting, Places, Reasons, Outcomes, Results, Counters

(* The flags, which hold the values of comparisons, apart from the rest.    *)

Flags ==
  /\ data \in BOOLEAN /\ asks \in BOOLEAN /\ healedLast \in BOOLEAN /\ hadError \in BOOLEAN
  /\ aborted \in BOOLEAN /\ open \in BOOLEAN /\ isError \in BOOLEAN
  /\ moved \in BOOLEAN

Shape ==
  /\ knobs \in Knobs /\ pc \in Places /\ used \in [Counters -> Nat]
  /\ idle \in Nat /\ elapsed \in Nat
  /\ left \in 0..MaxCalls /\ batch \subseteq Results
  /\ stop \in Reasons /\ tier \in 0..Top /\ outcome \in Outcomes
  /\ quietStalls \in Nat /\ failRun \in Nat /\ deadRun \in Nat /\ silentTrips \in Nat
  /\ Waiting

LEMMA TypeSplit == TypeInv <=> Shape /\ Flags
BY DEF TypeInv, TypeOK, Shape, Flags

LEMMA HeadFlags == Flags /\ Head => Flags'
<1> SUFFICES ASSUME Flags, Head PROVE Flags'
  OBVIOUS
<1>1. CASE WallClock
  BY <1>1, Zenon DEF WallClock, Stop, Finish, step, seen, Flags
<1>2. CASE IterCap
  BY <1>2, Zenon DEF IterCap, Finish, step, marks, seen, Flags
<1>3. CASE Stall
  BY <1>3, Zenon DEF Stall, Stop, Finish, GoOn, ends, step, Flags
<1>4. CASE PreStep
  BY <1>4, Zenon DEF PreStep, step, ends, seen, Flags
<1> QED BY <1>1, <1>2, <1>3, <1>4 DEF Head

LEMMA HeadShape == Shape /\ Head => Shape'
<1> SUFFICES ASSUME Shape, Head PROVE Shape'
  OBVIOUS
<1> USE DEF Shape, Waiting, Places, Reasons, Outcomes
<1>1. CASE WallClock
  BY <1>1 DEF WallClock, Stop, Finish, step, seen
<1>2. CASE IterCap
  BY <1>2 DEF IterCap, Finish, step, marks, seen
<1>3. CASE Stall
  <2>1. used' \in [Counters -> Nat]
    BY <1>3, CountedType DEF Stall, Counters
  <2> QED BY <1>3, <2>1 DEF Stall, Stop, Finish, GoOn, ends, step
<1>4. CASE PreStep
  <2>1. used' \in [Counters -> Nat]
    BY <1>4, CountedType DEF PreStep, Counters
  <2>2. tier' \in 0..Top
    BY <1>4, BoundsAssumption DEF PreStep
  <2> QED BY <1>4, <2>1, <2>2 DEF PreStep, step, ends, seen
<1> QED BY <1>1, <1>2, <1>3, <1>4 DEF Head

LEMMA FailsFlags == Flags /\ Fails => Flags'
<1> SUFFICES ASSUME Flags, Fails PROVE Flags'
  OBVIOUS
<1>1. CASE IdleTrips
  BY <1>1, Zenon DEF IdleTrips, Stop, Finish, GoOn, ends, step, Flags
<1>2. CASE DeadStream
  BY <1>2, Zenon DEF DeadStream, Stop, Finish, GoOn, ends, step, Flags
<1>3. CASE ConfigError
  BY <1>3, Zenon DEF ConfigError, Stop, Finish, step, seen, Flags
<1>4. CASE UnknownError
  BY <1>4, Zenon DEF UnknownError, Finish, step, marks, seen, Flags
<1>5. CASE WindowExceeded
  BY <1>5, Zenon DEF WindowExceeded, Finish, GoOn, ends, step, marks, seen, Flags
<1> QED BY <1>1, <1>2, <1>3, <1>4, <1>5 DEF Fails

LEMMA FailsShape == Shape /\ Fails => Shape'
<1> SUFFICES ASSUME Shape, Fails PROVE Shape'
  OBVIOUS
<1> USE DEF Shape, Waiting, Places, Reasons, Outcomes
<1>0. /\ knobs.deadRetry \in Int /\ knobs.idleHeal \in Int /\ knobs.upstreamHeal \in Int
      /\ knobs.deadRetry + 1 \in Int /\ knobs.upstreamHeal + 1 \in Int /\ knobs.overflow \in Int
  BY KnobTypes DEF KnobSet
<1>1. CASE IdleTrips
  <2>0. /\ Spend("dead", knobs.deadRetry) \in [Counters -> Nat]
        /\ Spend("idle", knobs.idleHeal) \in [Counters -> Nat]
    BY <1>0, SpendType DEF Counters
  <2>1. used' \in [Counters -> Nat]
    BY <1>1, <2>0 DEF IdleTrips
  <2>2. silentTrips' \in Nat
    BY <1>0, <1>1, UpToBounds DEF IdleTrips
  <2> QED BY <1>1, <2>1, <2>2 DEF IdleTrips, Stop, Finish, GoOn, ends, step
<1>2. CASE DeadStream
  <2>0. Spend("upstream", knobs.upstreamHeal) \in [Counters -> Nat]
    BY <1>0, SpendType DEF Counters
  <2>1. used' \in [Counters -> Nat]
    BY <1>2, <2>0 DEF DeadStream
  <2>2. deadRun' \in Nat
    BY <1>0, <1>2, UpToBounds DEF DeadStream
  <2> QED BY <1>2, <2>1, <2>2 DEF DeadStream, Stop, Finish, GoOn, ends, step
<1>3. CASE ConfigError
  BY <1>3 DEF ConfigError, Stop, Finish, step, seen
<1>4. CASE UnknownError
  BY <1>4 DEF UnknownError, Finish, step, marks, seen
<1>5. CASE WindowExceeded
  <2>1. UpTo(used["overflow"], knobs.overflow) \in Nat
    BY <1>0, UpToBounds DEF Counters
  <2>2. used' \in [Counters -> Nat]
    BY <1>5, <2>1 DEF WindowExceeded, Counters
  <2>3. tier' \in 0..Top
    BY <1>5, BoundsAssumption DEF WindowExceeded
  <2> QED BY <1>5, <2>2, <2>3 DEF WindowExceeded, Finish, GoOn, ends, step, marks, seen
<1> QED BY <1>1, <1>2, <1>3, <1>4, <1>5 DEF Fails

LEMMA RepliedFlags ==
  ASSUME Flags, NEW r \in Replies,
         EmptyReply(r) \/ CutCalls(r) \/ Continue(r) \/ Inject(r) \/ AskUser(r) \/ Done(r) \/ CallTools(r)
  PROVE  Flags'
<1>1. CASE EmptyReply(r)
  BY <1>1, Zenon DEF EmptyReply, Finish, GoOn, ends, step, marks, seen, Flags
<1>2. CASE CutCalls(r) \/ Continue(r)
  BY <1>2, Zenon DEF CutCalls, Continue, GoOn, ends, step, marks, Flags, seen
<1>3. CASE Inject(r)
  BY <1>3, Zenon DEF Inject, GoOn, ends, step, marks, seen, Flags
<1>4. CASE AskUser(r)
  BY <1>4, Zenon DEF AskUser, ends, step, marks, seen, Flags
<1>5. CASE Done(r)
  BY <1>5, Zenon DEF Done, Finish, step, marks, Flags, seen
<1>6. CASE CallTools(r)
  <2>1. asks' \in BOOLEAN
    BY <1>6 DEF CallTools, Replies
  <2> QED BY <1>6, <2>1, Zenon DEF CallTools, ends, marks, Flags, seen
<1> QED BY <1>1, <1>2, <1>3, <1>4, <1>5, <1>6

LEMMA RepliedShape ==
  ASSUME Shape, NEW r \in Replies,
         EmptyReply(r) \/ CutCalls(r) \/ Continue(r) \/ Inject(r) \/ AskUser(r) \/ Done(r) \/ CallTools(r)
  PROVE  Shape'
<1> USE DEF Shape, Waiting, Places, Reasons, Outcomes
<1>0. knobs.continueHeal \in Int /\ knobs.injects \in Int /\ 1 \in Int
  BY KnobTypes DEF KnobSet
<1>1. CASE EmptyReply(r)
  <2>1. used' \in [Counters -> Nat]
    <3>1. Spend("empty", 1) \in [Counters -> Nat]
      BY <1>0, SpendType DEF Counters
    <3> QED BY <1>1, <3>1 DEF EmptyReply
  <2> QED BY <1>1, <2>1 DEF EmptyReply, Finish, GoOn, ends, step, marks, seen
<1>2. CASE CutCalls(r)
  BY <1>2 DEF CutCalls, GoOn, ends, step, marks, seen
<1>3. CASE Continue(r)
  <2>1. used' \in [Counters -> Nat]
    <3>1. Spend("continue", knobs.continueHeal) \in [Counters -> Nat]
      BY <1>0, SpendType DEF Counters
    <3> QED BY <1>3, <3>1 DEF Continue
  <2>2. tier' \in 0..Top
    <3>1. tier < Top
      BY <1>3 DEF Continue, Whole, Disposition
    <3> QED BY <1>3, <3>1, BoundsAssumption DEF Continue
  <2> QED BY <1>3, <2>1, <2>2 DEF Continue, GoOn, ends, step, marks, seen
<1>4. CASE Inject(r)
  <2>1. used' \in [Counters -> Nat]
    <3>1. Spend("inject", knobs.injects) \in [Counters -> Nat]
      BY <1>0, SpendType DEF Counters
    <3> QED BY <1>4, <3>1 DEF Inject
  <2> QED BY <1>4, <2>1 DEF Inject, GoOn, ends, step, marks, seen
<1>5. CASE AskUser(r)
  BY <1>5 DEF AskUser, ends, step, marks, seen
<1>6. CASE Done(r)
  BY <1>6 DEF Done, Finish, step, marks, seen
<1>7. CASE CallTools(r)
  BY <1>7 DEF CallTools, Replies, ends, marks, seen
<1> QED BY <1>1, <1>2, <1>3, <1>4, <1>5, <1>6, <1>7

LEMMA StreamTypes == Shape /\ Flags /\ Stream => Shape' /\ Flags'
<1> SUFFICES ASSUME Shape, Flags, Stream PROVE Shape' /\ Flags'
  OBVIOUS
<1>0. knobs.repeatHeal \in Int
  BY KnobTypes DEF KnobSet, Shape
<1>1. CASE Chunk
  <2>1. used' \in [Counters -> Nat]
    BY <1>1 DEF Chunk, Shape, Counters
  <2>2. Shape'
    BY <1>1, <2>1 DEF Chunk, Shape, Waiting, marks, ends
  <2> QED BY <1>1, <2>2, Zenon DEF Chunk, marks, ends, Flags
<1>2. ASSUME NEW g \in {"timeout", "repeat"}, InStreamGuard(g) PROVE Shape' /\ Flags'
  <2>1. Shape'
    BY <1>2 DEF InStreamGuard, Shape, Waiting, Reasons, step, ends, seen
  <2> QED BY <1>2, <2>1, Zenon DEF InStreamGuard, step, ends, seen, Flags
<1>3. CASE StreamAborted
  <2>1. Shape'
    BY <1>3 DEF StreamAborted, Finish, Shape, Waiting, Places, Outcomes, step, marks, seen
  <2> QED BY <1>3, <2>1, Zenon DEF StreamAborted, Finish, step, marks, seen, Flags
<1>4. CASE StreamStopped
  <2>1. Spend("repeat", knobs.repeatHeal) \in [Counters -> Nat]
    BY <1>0, SpendType DEF Shape, Counters
  <2>2. Shape'
    BY <1>4, <2>1 DEF StreamStopped, Finish, GoOn, Shape, Waiting, Places, Reasons, Outcomes, step, ends, seen
  <2> QED BY <1>4, <2>2, Zenon DEF StreamStopped, Finish, GoOn, step, ends, seen, Flags
<1>5. CASE Fails
  BY <1>5, FailsFlags, FailsShape
<1>6. CASE Replied
  BY <1>6, RepliedFlags, RepliedShape DEF Replied
<1> QED BY <1>1, <1>2, <1>3, <1>4, <1>5, <1>6 DEF Stream

LEMMA ToolsTypes == Shape /\ Flags /\ Tools => Shape' /\ Flags'
<1> SUFFICES ASSUME Shape, Flags, Tools PROVE Shape' /\ Flags'
  OBVIOUS
<1>1. CASE CallEnds
  <2>1. Shape'
    <3>1. left' \in 0..MaxCalls
      BY <1>1, BoundsAssumption DEF CallEnds, Shape
    <3>2. batch' \subseteq Results
      BY <1>1, Zenon DEF CallEnds, Shape
    <3> QED BY <1>1, <3>1, <3>2 DEF CallEnds, Shape, Waiting, marks, ends, seen
  <2> QED BY <1>1, <2>1, Zenon DEF CallEnds, marks, ends, seen, Flags
<1>2. CASE AskApproval
  <2>1. Shape'
    BY <1>2 DEF AskApproval, Shape, Waiting, Places, step, marks, ends, seen
  <2> QED BY <1>2, <2>1, Zenon DEF AskApproval, step, marks, ends, seen, Flags
<1>3. CASE ApprovalEnds
  <2>1. Shape'
    <3>1. left' \in 0..MaxCalls
      BY <1>3, BoundsAssumption DEF ApprovalEnds, Shape, Waiting
    <3>2. batch' \subseteq Results
      BY <1>3, Zenon DEF ApprovalEnds, Shape
    <3> QED BY <1>3, <3>1, <3>2 DEF ApprovalEnds, Shape, Waiting, Places, marks, ends, seen
  <2> QED BY <1>3, <2>1, Zenon DEF ApprovalEnds, marks, ends, seen, Flags
<1>4. CASE BatchDone
  <2>1. knobs.meltdownHeal \in Int /\ knobs.errors * (1 + knobs.meltdownHeal) \in Int
    BY KnobTypes DEF Shape
  <2>2. used' \in [Counters -> Nat]
    <3>1. afterBatch \in [Counters -> Nat]
      BY AfterBatchType DEF Shape
    <3>2. UpTo(afterBatch["meltdown"], knobs.meltdownHeal) \in Nat
      BY <2>1, <3>1, UpToBounds DEF Counters
    <3> QED BY <1>4, <3>1, <3>2 DEF BatchDone, Counters
  <2>3. failRun' \in Nat
    BY <1>4, <2>1, UpToBounds DEF BatchDone, Shape
  <2>4. Shape'
    BY <1>4, <2>2, <2>3 DEF BatchDone, Stop, Finish, GoOn, Shape, Waiting, Places, Reasons, Outcomes, ends
  <2> QED BY <1>4, <2>4, Zenon DEF BatchDone, Stop, Finish, GoOn, ends, Flags
<1> QED BY <1>1, <1>2, <1>3, <1>4 DEF Tools

LEMMA OtherTypes ==
  Shape /\ Flags /\ (Request \/ AskTimesOut \/ User \/ Tick \/ UNCHANGED vars) => Shape' /\ Flags'
<1> SUFFICES ASSUME Shape, Flags, Request \/ AskTimesOut \/ User \/ Tick \/ UNCHANGED vars
             PROVE  Shape' /\ Flags'
  OBVIOUS
<1>1. CASE Request
  <2>1. Shape'
    BY <1>1 DEF Request, Finish, Shape, Waiting, Places, Outcomes, marks, ends
  <2> QED BY <1>1, <2>1, Zenon DEF Request, Finish, marks, ends, Flags
<1>2. CASE AskTimesOut
  <2>1. Shape'
    BY <1>2 DEF AskTimesOut, Finish, GoOn, Shape, Waiting, Places, Outcomes, step, marks, ends, seen
  <2> QED BY <1>2, <2>1, Zenon DEF AskTimesOut, Finish, GoOn, step, marks, ends, Flags, seen
<1>3. CASE Answer
  <2>1. Shape'
    BY <1>3 DEF Answer, GoOn, Shape, Waiting, Places, step, marks, ends, seen
  <2> QED BY <1>3, <2>1, Zenon DEF Answer, GoOn, step, marks, ends, Flags, seen
<1>4. CASE Cancel
  <2>1. Shape'
    <3>1. left' \in 0..MaxCalls
      BY <1>4, BoundsAssumption DEF Cancel, Shape, Waiting
    <3>2. "failed" \in Results
      BY DEF Results
    <3>3. batch' \subseteq Results
      BY <1>4, <3>2, Zenon DEF Cancel, Shape
    <3> QED BY <1>4, <3>1, <3>3 DEF Cancel, Finish, Shape, Waiting, Places, Outcomes, marks, ends, seen
  <2> QED BY <1>4, <2>1, Zenon DEF Cancel, Finish, marks, ends, seen, Flags
<1>5. CASE Tick
  <2>1. knobs.stallAfter \in Int /\ knobs.turnTime \in Int
    BY KnobTypes DEF KnobSet, Shape
  <2>2. idle' \in Nat /\ elapsed' \in Nat
    BY <1>5, <2>1, UpToBounds DEF Tick, Shape
  <2>3. Shape'
    BY <1>5, <2>2 DEF Tick, Shape, Waiting, step, marks, ends, seen
  <2> QED BY <1>5, <2>3, Zenon DEF Tick, step, marks, ends, seen, Flags
<1>6. CASE UNCHANGED vars
  <2>1. Shape'
    BY <1>6 DEF vars, Shape, Waiting, step, marks, ends, seen
  <2> QED BY <1>6, <2>1, Zenon DEF vars, step, marks, ends, seen, Flags
<1> QED BY <1>1, <1>2, <1>3, <1>4, <1>5, <1>6 DEF User

LEMMA NextTypes == TypeInv /\ [Next]_vars => TypeInv'
<1> SUFFICES ASSUME Shape, Flags, [Next]_vars PROVE Shape' /\ Flags'
  BY TypeSplit DEF TypeInv, TypeOK, Shape, Flags, Waiting
<1> QED BY HeadShape, HeadFlags, StreamTypes, ToolsTypes, OtherTypes DEF Next, Engine, Ended

\* Every variable of a turn keeps its type under every setting of the guards; in particular
\* no counter of calls to run goes below zero, whatever a cancel or a timeout interrupts, and
\* the output tier stays on the ladder.
THEOREM TurnTypeCorrect == Spec => []TypeOK
<1>1. Spec => []TypeInv
  BY InitTypes, NextTypes, PTL DEF Spec
<1>2. TypeInv => TypeOK
  BY DEF TypeInv
<1> QED BY <1>1, <1>2, PTL

-----------------------------------------------------------------------------
(* The counters behind the stops.  Most actions touch none of them.        *)

Counts == StallCount /\ StreamCounts /\ MeltdownCount

Earned == {"stall", "meltdown", "upstream"}

Untouched ==
  /\ UNCHANGED <<knobs, quietStalls, failRun, deadRun, silentTrips>>
  /\ \A c \in {"stall", "errors", "meltdown", "upstream", "dead"} : used'[c] = used[c]
  /\ stop' \in Earned => stop' = stop

LEMMA UntouchedKeeps ==
  ASSUME Counts, StopIsEarned, Untouched PROVE Counts' /\ StopIsEarned'
<1> USE DEF Untouched
<1>1. StallCount' /\ StreamCounts'
  BY DEF Counts, StallCount, StallBudgetHolds, StreamCounts
<1>2. MeltdownCount'
  BY DEF Counts, MeltdownCount
<1>3. StopIsEarned'
  BY DEF StopIsEarned, Earned
<1> QED BY <1>1, <1>2, <1>3 DEF Counts

LEMMA HeadUntouched == TypeInv /\ (WallClock \/ IterCap \/ PreStep \/ Request) => Untouched
<1> SUFFICES ASSUME TypeInv, WallClock \/ IterCap \/ PreStep \/ Request PROVE Untouched
  OBVIOUS
<1> USE DEF Untouched, Earned, seen, step
<1>1. CASE WallClock
  BY <1>1 DEF WallClock, Stop
<1>2. CASE IterCap
  BY <1>2 DEF IterCap, marks
<1>3. CASE PreStep
  <2>1. used \in [Counters -> Nat]
    BY DEF TypeInv, TypeOK
  <2> QED BY <1>3, <2>1 DEF PreStep, counted, Counters
<1>4. CASE Request
  BY <1>4 DEF Request, marks
<1> QED BY <1>1, <1>2, <1>3, <1>4

LEMMA StreamUntouched ==
  ASSUME TypeInv, \/ \E g \in {"timeout", "repeat"} : InStreamGuard(g)
                  \/ StreamAborted \/ StreamStopped \/ ConfigError \/ UnknownError \/ WindowExceeded
  PROVE  Untouched
<1> USE DEF Untouched, Earned, seen, step
<1>0. used \in [Counters -> Nat]
  BY DEF TypeInv, TypeOK
<1>1. ASSUME NEW g \in {"timeout", "repeat"}, InStreamGuard(g) PROVE Untouched
  BY <1>1 DEF InStreamGuard
<1>2. CASE StreamAborted
  BY <1>2 DEF StreamAborted, marks
<1>3. CASE StreamStopped
  BY <1>0, <1>3 DEF StreamStopped, Spend, Counters
<1>4. CASE ConfigError
  BY <1>4 DEF ConfigError, Stop
<1>5. CASE UnknownError
  BY <1>5 DEF UnknownError, marks
<1>6. CASE WindowExceeded
  BY <1>0, <1>6 DEF WindowExceeded, marks, Counters
<1> QED BY <1>1, <1>2, <1>3, <1>4, <1>5, <1>6

LEMMA RepliedUntouched == TypeInv /\ Replied => Untouched
<1> SUFFICES ASSUME TypeInv, NEW r \in Replies,
                    \/ EmptyReply(r) \/ CutCalls(r) \/ Continue(r) \/ Inject(r)
                    \/ AskUser(r) \/ Done(r) \/ CallTools(r)
             PROVE  Untouched
  BY DEF Replied
<1> USE DEF Untouched, Earned, seen, marks
<1>0. used \in [Counters -> Nat]
  BY DEF TypeInv, TypeOK
<1>1. CASE EmptyReply(r)
  BY <1>0, <1>1 DEF EmptyReply, Spend, Counters
<1>2. CASE CutCalls(r)
  BY <1>2 DEF CutCalls
<1>3. CASE Continue(r)
  BY <1>0, <1>3 DEF Continue, Spend, Counters
<1>4. CASE Inject(r)
  BY <1>0, <1>4 DEF Inject, Spend, Counters
<1>5. CASE AskUser(r)
  BY <1>5 DEF AskUser
<1>6. CASE Done(r)
  BY <1>6 DEF Done
<1>7. CASE CallTools(r)
  BY <1>7 DEF CallTools
<1> QED BY <1>1, <1>2, <1>3, <1>4, <1>5, <1>6, <1>7

LEMMA OtherUntouched ==
  CallEnds \/ AskApproval \/ ApprovalEnds \/ AskTimesOut \/ User \/ Tick \/ UNCHANGED vars => Untouched
<1> USE DEF Untouched, Earned, seen, marks
<1>1. CallEnds \/ AskApproval \/ ApprovalEnds => Untouched
  BY DEF CallEnds, AskApproval, ApprovalEnds
<1>2. AskTimesOut \/ User => Untouched
  BY DEF AskTimesOut, User, Answer, Cancel
<1>3. Tick \/ UNCHANGED vars => Untouched
  BY DEF Tick, vars
<1> QED BY <1>1, <1>2, <1>3

\* The five actions that do touch them.
LEMMA StallCounts ==
  ASSUME TypeInv, Counts, StopIsEarned, Stall PROVE Counts' /\ StopIsEarned'
<1>1. /\ used \in [Counters -> Nat] /\ knobs.stallHeal \in Int /\ knobs \in Knobs
  BY KnobTypes DEF TypeInv, TypeOK
<1>2. counted \in [Counters -> Nat]
  BY <1>1, CountedType
<1>3. \A c \in {"stall", "errors", "meltdown", "upstream", "dead"} : counted[c] = used[c]
  BY <1>1 DEF counted, Counters
<1>4. \A c \in {"errors", "meltdown", "upstream", "dead"} : used'[c] = used[c]
  BY <1>2, <1>3 DEF Stall, Counters
<1>5. StallCount'
  BY <1>1, <1>2, <1>3 DEF Stall, StallBudgetHolds, StallCount, Counts, Counters
<1>6. StreamCounts'
  BY <1>4 DEF Stall, StreamCounts, Counts
<1>7. MeltdownCount'
  BY <1>4 DEF Stall, MeltdownCount, Counts
<1>8. StopIsEarned'
  BY <1>1 DEF Stall, Stop, StopIsEarned, StallCount, Counts
<1> QED BY <1>5, <1>6, <1>7, <1>8 DEF Counts

LEMMA ChunkCounts ==
  ASSUME TypeInv, Stops, Counts, StopIsEarned, Chunk PROVE Counts' /\ StopIsEarned'
<1>1. used \in [Counters -> Nat] /\ silentTrips \in Nat /\ deadRun \in Nat
  BY DEF TypeInv, TypeOK
<1>2. /\ \A c \in {"stall", "errors", "meltdown", "dead"} : used'[c] = used[c]
      /\ used'["upstream"] = 0
  BY <1>1 DEF Chunk, Counters
<1>3. StallCount' /\ StreamCounts' /\ MeltdownCount'
  BY <1>2 DEF Chunk, StallCount, StallBudgetHolds, StreamCounts, MeltdownCount, Counts
<1>4. StopIsEarned'
  BY DEF Chunk, Stops, StopIsEarned, marks
<1> QED BY <1>3, <1>4 DEF Counts

LEMMA IdleCounts ==
  ASSUME TypeInv, Counts, StopIsEarned, IdleTrips PROVE Counts' /\ StopIsEarned'
<1>1. /\ used \in [Counters -> Nat] /\ silentTrips \in Nat /\ deadRun \in Nat
      /\ knobs.deadRetry \in Nat
  BY KnobTypes DEF TypeInv, TypeOK
<1>2. /\ \A c \in {"stall", "errors", "meltdown", "upstream"} : used'[c] = used[c]
      /\ \/ used'["dead"] = used["dead"]
         \/ ~data /\ used["dead"] < knobs.deadRetry /\ used'["dead"] = used["dead"] + 1
  BY <1>1 DEF IdleTrips, Spend, UpTo, Counters
<1>3. /\ silentTrips <= silentTrips'
      /\ ~data /\ used["dead"] < knobs.deadRetry => used["dead"] + 1 <= silentTrips'
  BY <1>1 DEF IdleTrips, UpTo, StreamCounts, Counts, Counters
<1>4. StreamCounts'
  <2>1. used'["upstream"] <= deadRun'
    BY <1>2 DEF IdleTrips, StreamCounts, Counts
  <2>2. silentTrips' \in Nat /\ used["dead"] \in Nat
    BY <1>1 DEF IdleTrips, UpTo, Counters
  <2>3. used'["dead"] <= silentTrips'
    BY <1>1, <1>2, <1>3, <2>2 DEF StreamCounts, Counts
  <2> QED BY <2>1, <2>3 DEF StreamCounts
<1>5. StallCount' /\ MeltdownCount'
  BY <1>2 DEF IdleTrips, StallCount, StallBudgetHolds, MeltdownCount, Counts
<1>6. stop' = "upstream" => silentTrips' > knobs.deadRetry
  BY <1>1 DEF IdleTrips, Broken, Stop, UpTo, StreamCounts, Counts, Counters
<1>7. StopIsEarned'
  BY <1>6 DEF IdleTrips, Broken, Stop, StopIsEarned
<1> QED BY <1>4, <1>5, <1>7 DEF Counts

LEMMA DeadCounts ==
  ASSUME TypeInv, Counts, StopIsEarned, DeadStream PROVE Counts' /\ StopIsEarned'
<1>1. /\ used \in [Counters -> Nat] /\ deadRun \in Nat /\ silentTrips \in Nat
      /\ knobs.upstreamHeal \in Nat
  BY KnobTypes DEF TypeInv, TypeOK
<1>2. \A c \in {"stall", "errors", "meltdown", "dead"} : used'[c] = used[c]
  BY <1>1 DEF DeadStream, Spend, Counters
<1>3. used'["upstream"] <= deadRun'
  BY <1>1 DEF DeadStream, Spend, UpTo, StreamCounts, Counts, Counters
<1>4. StallCount' /\ StreamCounts' /\ MeltdownCount'
  BY <1>2, <1>3 DEF DeadStream, StallCount, StallBudgetHolds, StreamCounts, MeltdownCount, Counts
<1>5. stop' = "upstream" => deadRun' > knobs.upstreamHeal
  BY <1>1 DEF DeadStream, Broken, Stop, UpTo, StreamCounts, Counts, Counters
<1>6. StopIsEarned'
  BY <1>5 DEF DeadStream, Broken, Stop, StopIsEarned
<1> QED BY <1>4, <1>6 DEF Counts

\* A batch: the meltdown guard spends budget only for as many failed batches as
\* its threshold says, all of them in a row.
LEMMA BatchMeltdown ==
  ASSUME TypeInv, Counts, BatchDone
  PROVE  /\ MeltdownCount'
         /\ stop' = "meltdown" => \/ stop = "meltdown"
                                  \/ failRun' >= knobs.errors * (1 + knobs.meltdownHeal)
<1> DEFINE E == knobs.errors
           M == knobs.meltdownHeal
           m == used["meltdown"]
           e == used["errors"]
           more == UpTo(e, E)
           enough == E * (1 + M)
<1>1. /\ used \in [Counters -> Nat] /\ failRun \in Nat
      /\ E \in Nat /\ M \in Int /\ m \in Nat /\ e \in Nat /\ knobs' = knobs
      /\ E * m \in Nat /\ E * (m + 1) \in Nat
  BY KnobTypes DEF TypeInv, TypeOK, Counters, BatchDone
<1>2. /\ more \in Nat /\ more <= E /\ e <= E
      /\ E > 0 /\ more < E => more = e + 1
      /\ more <= e + 1
  BY <1>1 DEF UpTo, Counts, MeltdownCount
<1>3. /\ enough \in Int /\ E * (m + 1) = E * m + E
      /\ enough = E * M + E
  BY <1>1
<1>4. CASE ~allToolResultsFailed
  <2>1. afterBatch["errors"] = 0 /\ afterBatch["meltdown"] = 0
    BY <1>1, <1>4 DEF afterBatch, Counters
  <2>2. afterBatch \in [Counters -> Nat]
    BY AfterBatchType DEF TypeInv, TypeOK
  <2>3. used' = afterBatch /\ failRun' = 0
    BY <1>1, <1>4, <2>1 DEF BatchDone
  <2>4. MeltdownCount'
    BY <1>1, <2>1, <2>3 DEF MeltdownCount
  <2>5. stop' = stop
    BY <1>1, <1>4, <2>1 DEF BatchDone
  <2> QED BY <2>4, <2>5
<1>5. CASE allToolResultsFailed
  <2>1. afterBatch["errors"] = more /\ afterBatch["meltdown"] = m
    BY <1>1, <1>5 DEF afterBatch, Counters
  <2>2. afterBatch \in [Counters -> Nat]
    BY AfterBatchType DEF TypeInv, TypeOK
  <2>3. failRun' = UpTo(failRun, enough)
    BY <1>5 DEF BatchDone
  <2>4. failRun' \in Nat
    BY <1>1, <1>3, <2>3, UpToBounds
  <2>5. M >= 0 => failRun' >= E * m + more
    <3> SUFFICES ASSUME M >= 0 PROVE failRun' >= E * m + more
      OBVIOUS
    <3>1. m <= M /\ failRun >= E * m + e
      BY DEF Counts, MeltdownCount
    <3>2. E * m <= E * M
      BY <1>1, <3>1
    <3>3. CASE failRun < enough
      BY <1>1, <1>2, <2>3, <3>1, <3>3 DEF UpTo
    <3>4. CASE ~(failRun < enough)
      <4>1. failRun' >= E * M + E
        BY <1>1, <1>3, <2>3, <3>4 DEF UpTo
      <4> QED BY <1>1, <1>2, <2>4, <3>2, <4>1
    <3> QED BY <3>3, <3>4
  <2>6. CASE E > 0 /\ more >= E /\ HasBudget(m, M)
    <3>1. used' = [afterBatch EXCEPT !["errors"] = 0, !["meltdown"] = UpTo(m, M)] /\ stop' = stop
      BY <2>1, <2>6 DEF BatchDone
    <3>2. used'["errors"] = 0 /\ used'["meltdown"] = UpTo(m, M)
      BY <2>2, <3>1 DEF Counters
    <3>3. M >= 0 => UpTo(m, M) = m + 1 /\ m + 1 <= M
      BY <1>1, <2>6 DEF HasBudget, UpTo
    <3>4. M >= 0 => failRun' >= E * (m + 1)
      BY <1>1, <1>2, <1>3, <2>4, <2>5, <2>6
    <3>5. M >= 0 => used'["meltdown"] <= M /\ failRun' >= E * used'["meltdown"] + used'["errors"]
      BY <1>1, <2>4, <3>2, <3>3, <3>4
    <3>6. MeltdownCount'
      BY <1>1, <3>2, <3>5 DEF MeltdownCount
    <3> QED BY <3>1, <3>6
  <2>7. CASE ~(E > 0 /\ more >= E /\ HasBudget(m, M))
    <3>1. used' = afterBatch
      BY <2>1, <2>7 DEF BatchDone
    <3>2. MeltdownCount'
      BY <1>1, <1>2, <2>1, <2>5, <3>1 DEF Counts, MeltdownCount
    <3>3. CASE ~(E > 0 /\ more >= E)
      <4>1. stop' = stop
        BY <2>1, <3>3 DEF BatchDone
      <4> QED BY <3>2, <4>1
    <3>4. CASE E > 0 /\ more >= E
      <4>1. M >= 0 /\ m >= M
        BY <1>1, <2>7, <3>4 DEF HasBudget
      <4>2. m = M
        BY <1>1, <4>1 DEF Counts, MeltdownCount
      <4>3. failRun' >= enough
        BY <1>1, <1>2, <1>3, <2>4, <2>5, <3>4, <4>1, <4>2
      <4> QED BY <3>2, <4>3
    <3> QED BY <3>3, <3>4
  <2> QED BY <2>6, <2>7
<1> QED BY <1>4, <1>5

LEMMA BatchCounts ==
  ASSUME TypeInv, Stops, Counts, StopIsEarned, BatchDone PROVE Counts' /\ StopIsEarned'
<1>1. /\ used \in [Counters -> Nat] /\ afterBatch \in [Counters -> Nat]
      /\ knobs.stallHeal \in Int
  BY AfterBatchType, KnobTypes DEF TypeInv, TypeOK
<1>2. /\ \A c \in {"upstream", "dead"} : used'[c] = used[c]
      /\ used'["stall"] = IF isRealProgress THEN 0 ELSE used["stall"]
  BY <1>1 DEF BatchDone, afterBatch, Counters
<1>3. StallCount'
  BY <1>1, <1>2 DEF BatchDone, StallCount, StallBudgetHolds, Counts
<1>4. StreamCounts'
  BY <1>2 DEF BatchDone, StreamCounts, Counts
<1>5. stop = "none" /\ stop' \in {"none", "meltdown"}
  BY DEF BatchDone, Stops, Stop
<1>6. StopIsEarned'
  <2>1. knobs' = knobs
    BY DEF BatchDone
  <2> QED BY <1>5, <2>1, BatchMeltdown DEF StopIsEarned
<1> QED BY <1>3, <1>4, <1>6, BatchMeltdown DEF Counts

-----------------------------------------------------------------------------
(* Where a stop may be set, what may be written while it is, and when      *)
(* calls are open.                                                         *)

Where == Stops /\ CallsAnswered

LEMMA HeadWhere == TypeInv /\ Where /\ (Head \/ Request) => Where'
<1> SUFFICES ASSUME TypeInv, Where, Head \/ Request PROVE Where'
  OBVIOUS
<1> USE DEF Where, Stops, CallsAnswered, seen
<1>1. CASE WallClock
  BY <1>1 DEF WallClock, Stop, Finish
<1>2. CASE IterCap
  BY <1>2 DEF IterCap, Finish, marks
<1>3. CASE Stall
  BY <1>3 DEF Stall, Stop, Finish, GoOn
<1>4. CASE PreStep
  BY <1>4 DEF PreStep
<1>5. CASE Request
  BY <1>5 DEF Request, Finish, marks
<1> QED BY <1>1, <1>2, <1>3, <1>4, <1>5 DEF Head

LEMMA StreamWhere == TypeInv /\ Where /\ Stream => Where'
<1> SUFFICES ASSUME TypeInv, Where, Stream PROVE Where'
  OBVIOUS
<1> USE DEF Where, Stops, CallsAnswered, seen
<1>1. CASE Chunk
  BY <1>1 DEF Chunk, marks
<1>2. ASSUME NEW g \in {"timeout", "repeat"}, InStreamGuard(g) PROVE Where'
  BY <1>2 DEF InStreamGuard
<1>3. CASE StreamAborted
  BY <1>3 DEF StreamAborted, Finish, marks
<1>4. CASE StreamStopped
  BY <1>4 DEF StreamStopped, Finish, GoOn
<1>5. CASE Fails
  <2>1. CASE IdleTrips
    BY <2>1 DEF IdleTrips, Broken, Stop, Finish, GoOn
  <2>2. CASE DeadStream
    BY <2>2 DEF DeadStream, Broken, Stop, Finish, GoOn
  <2>3. CASE ConfigError
    BY <2>3 DEF ConfigError, Broken, Stop, Finish
  <2>4. CASE UnknownError
    BY <2>4 DEF UnknownError, Broken, Finish, marks
  <2>5. CASE WindowExceeded
    BY <2>5 DEF WindowExceeded, Broken, Finish, GoOn, marks
  <2> QED BY <1>5, <2>1, <2>2, <2>3, <2>4, <2>5 DEF Fails
<1>6. CASE Replied
  <2> SUFFICES ASSUME NEW r \in Replies, Broken,
                      \/ EmptyReply(r) \/ CutCalls(r) \/ Continue(r) \/ Inject(r)
                      \/ AskUser(r) \/ Done(r) \/ CallTools(r)
               PROVE  Where'
    BY <1>6 DEF Replied
  <2> USE DEF Broken, marks
  <2>1. CASE EmptyReply(r)
    BY <2>1 DEF EmptyReply, Finish, GoOn
  <2>2. CASE CutCalls(r)
    BY <2>2 DEF CutCalls, GoOn
  <2>3. CASE Continue(r)
    BY <2>3 DEF Continue, GoOn
  <2>4. CASE Inject(r)
    BY <2>4 DEF Inject, GoOn
  <2>5. CASE AskUser(r)
    BY <2>5 DEF AskUser
  <2>6. CASE Done(r)
    BY <2>6 DEF Done, Finish
  <2>7. CASE CallTools(r)
    BY <2>7 DEF CallTools
  <2> QED BY <2>1, <2>2, <2>3, <2>4, <2>5, <2>6, <2>7
<1> QED BY <1>1, <1>2, <1>3, <1>4, <1>5, <1>6 DEF Stream

LEMMA OtherWhere ==
  TypeInv /\ Where /\ (Tools \/ AskTimesOut \/ User \/ Tick \/ UNCHANGED vars) => Where'
<1> SUFFICES ASSUME TypeInv, Where, Tools \/ AskTimesOut \/ User \/ Tick \/ UNCHANGED vars
             PROVE  Where'
  OBVIOUS
<1> USE DEF Where, Stops, CallsAnswered, seen, marks
<1>1. CASE CallEnds \/ AskApproval \/ ApprovalEnds
  BY <1>1 DEF CallEnds, AskApproval, ApprovalEnds
<1>2. CASE BatchDone
  BY <1>2 DEF BatchDone, Stop, Finish, GoOn
<1>3. CASE AskTimesOut
  BY <1>3 DEF AskTimesOut, Finish, GoOn
<1>4. CASE Answer
  BY <1>4 DEF Answer, GoOn
<1>5. CASE Cancel
  BY <1>5 DEF Cancel, Finish
<1>6. CASE Tick
  BY <1>6 DEF Tick
<1>7. CASE UNCHANGED vars
  BY <1>7 DEF vars
<1> QED BY <1>1, <1>2, <1>3, <1>4, <1>5, <1>6, <1>7 DEF Tools, User

-----------------------------------------------------------------------------
(* The inductive invariant and what follows from it.                       *)

TurnInv == TypeInv /\ Where /\ Counts /\ StopIsEarned

LEMMA InitTurn == Init => TurnInv
<1> SUFFICES ASSUME Init PROVE TurnInv
  OBVIOUS
<1>1. TypeInv
  BY InitTypes
<1>2. \A c \in Counters : used[c] = 0
  BY DEF Init
<1>3. Where
  BY DEF Init, Where, Stops, CallsAnswered
<1>4. StallCount /\ StreamCounts
  BY <1>2 DEF Init, StallCount, StallBudgetHolds, StreamCounts, Counters
<1>5. MeltdownCount
  <2>1. knobs.errors \in Nat
    BY KnobTypes DEF Init
  <2> QED BY <1>2, <2>1 DEF Init, MeltdownCount, Counters
<1>6. StopIsEarned
  BY DEF Init, StopIsEarned
<1> QED BY <1>1, <1>3, <1>4, <1>5, <1>6 DEF TurnInv, Counts

LEMMA NextTurn == TurnInv /\ [Next]_vars => TurnInv'
<1> SUFFICES ASSUME TurnInv, [Next]_vars PROVE TurnInv'
  OBVIOUS
<1> USE DEF TurnInv
<1>1. TypeInv'
  BY NextTypes
<1>2. Where'
  BY HeadWhere, StreamWhere, OtherWhere DEF Next, Engine, Ended
<1>3. Counts' /\ StopIsEarned'
  <2>1. CASE Stall
    BY <2>1, StallCounts
  <2>2. CASE Chunk
    BY <2>2, ChunkCounts DEF Where
  <2>3. CASE IdleTrips
    BY <2>3, IdleCounts
  <2>4. CASE DeadStream
    BY <2>4, DeadCounts
  <2>5. CASE BatchDone
    BY <2>5, BatchCounts DEF Where
  <2>6. CASE ~(Stall \/ Chunk \/ IdleTrips \/ DeadStream \/ BatchDone)
    <3>1. Untouched
      BY <2>6, HeadUntouched, StreamUntouched, RepliedUntouched, OtherUntouched
         DEF Next, Engine, Head, Stream, Fails, Tools, Ended
    <3> QED BY <3>1, UntouchedKeeps
  <2> QED BY <2>1, <2>2, <2>3, <2>4, <2>5, <2>6
<1> QED BY <1>1, <1>2, <1>3

LEMMA TurnInvariant == Spec => []TurnInv
BY InitTurn, NextTurn, PTL DEF Spec

\* Between two steps of real progress the stall guard heals at most STALL_HEAL_MAX times,
\* for every setting of every other guard: timeouts of tools, heals of the stream and
\* questions to the user never renew its budget.
THEOREM StallBudget == Spec => []StallBudgetHolds
<1>1. TurnInv => StallBudgetHolds
  BY DEF TurnInv, Counts, StallCount
<1> QED BY <1>1, TurnInvariant, PTL

\* A turn stopped for a stall, for failing tools or for a dead upstream has seen as many of
\* them as the settings allow, in a row where the guard says so: no reset of one guard's
\* counter is lost or taken for another's.
THEOREM StopsAreEarned == Spec => []StopIsEarned
<1>1. TurnInv => StopIsEarned
  BY DEF TurnInv
<1> QED BY <1>1, TurnInvariant, PTL

\* A turn never ends or goes on to the next request with a call whose result is missing.
THEOREM NoCallLeftOpen == Spec => []CallsAnswered
<1>1. TurnInv => CallsAnswered
  BY DEF TurnInv, Where
<1> QED BY <1>1, TurnInvariant, PTL
===========================================================================
