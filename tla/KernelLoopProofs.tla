------------------------- MODULE KernelLoopProofs -------------------------
(***************************************************************************)
(* Theorems about KernelLoop, for every set of handlers, loop options,     *)
(* inputs and bounds: its types; that a crash loses nothing of the loop,   *)
(* when the disk does not fail; that a round count which ends a loop has   *)
(* been spent; that a loop that goes on is within its limits; and, when no *)
(* turn ends in an await, that turns do not overlap, that a loop that was  *)
(* stopped or waits for a person stays so, and that it implements LoopLife. *)
(***************************************************************************)
EXTENDS KernelLoopLife, SequenceTheorems, TLAPS

(***************************************************************************)
(* Types.  Each controller method returns a loop record.                   *)
(***************************************************************************)

LEMMA UptoType == ASSUME NEW max \in Nat, NEW n \in Nat PROVE Upto(n, max) \in 0..max
BY DEF Upto

LEMMA ConstantTypes ==
    /\ 0 \in 0..MaxIndex /\ 0 \in 0..MaxUse /\ 0 \in 0..Threshold /\ 1 \in 0..Threshold
    /\ \A s \in TERMINAL \cup ActiveStatus : s \in Status
    /\ {"idle", "paused", "running", "pausing", "awaiting_approval", "verifying",
        "done", "cancelled", "budget_exceeded"} \subseteq Status
    /\ {"", "completed", "failed", "verify_hit", "until_hit", "judge_error", "cancelled",
        "budget_exceeded", "no_progress", "stalled"} \subseteq EndReason
BY BoundAssumption, ThresholdAssumption DEF Status, TERMINAL, ActiveStatus, EndReason

LEMMA FreshType == freshState \in LoopState
BY ConstantTypes DEF freshState, LoopState

LEMMA StartType ==
    ASSUME NEW o \in Opts, NEW who \in {"user", "payload"}
    PROVE  start(o, who) \in LoopState
BY ConstantTypes DEF start, freshState, LoopState, Opts

LEMMA StopType ==
    ASSUME NEW l \in LoopState, NEW r \in EndReason
    PROVE  stop(l, r) \in LoopState
BY ConstantTypes DEF stop, LoopState

LEMMA CommandTypes ==
    ASSUME NEW l \in LoopState, NEW cap \in Nat
    PROVE  /\ pause(l) \in LoopState
           /\ resume(l) \in LoopState
           /\ setBudget(l, cap) \in LoopState
           /\ markTurnStart(l) \in LoopState
<1>1. pause(l) \in LoopState
  BY ConstantTypes DEF pause, LoopState
<1>2. resume(l) \in LoopState
  <2>1. [l EXCEPT !.status = "running"] \in LoopState
    BY ConstantTypes DEF LoopState
  <2>2. [l EXCEPT !.status = "running", !.streak = 0, !.lastFp = NoFingerprint] \in LoopState
    BY ConstantTypes DEF LoopState
  <2> QED BY <2>1, <2>2 DEF resume
<1>3. setBudget(l, cap) \in LoopState
  BY DEF setBudget, LoopState
<1>4. markTurnStart(l) \in LoopState
  BY DEF markTurnStart, LoopState
<1> QED BY <1>1, <1>2, <1>3, <1>4

LEMMA CountedType ==
    ASSUME NEW l \in LoopState, NEW out \in Outcome
    PROVE  accrued(l, out) \in LoopState /\ counted(l, out) \in LoopState
<1> DEFINE u == Upto(l.used + out.use, MaxUse)
           i == Upto(l.index + 1, MaxIndex)
           s == IF out.fp = NoFingerprint THEN 0
                ELSE IF out.fp = l.lastFp THEN Upto(l.streak + 1, Threshold) ELSE 1
<1>1. u \in 0..MaxUse
  <2>1. MaxUse \in Nat /\ l.used + out.use \in Nat
    BY BoundAssumption DEF LoopState, Outcome
  <2> QED BY <2>1, UptoType
<1>2. i \in 0..MaxIndex
  <2>1. MaxIndex \in Nat /\ l.index + 1 \in Nat
    BY BoundAssumption DEF LoopState
  <2> QED BY <2>1, UptoType
<1>3. s \in 0..Threshold
  <2>1. Threshold \in Nat /\ l.streak + 1 \in Nat
    BY ThresholdAssumption DEF LoopState
  <2>2. Upto(l.streak + 1, Threshold) \in 0..Threshold
    BY <2>1, UptoType
  <2> QED BY <2>2, ConstantTypes
<1>4. accrued(l, out) = [l EXCEPT !.used = u]
  BY DEF accrued
<1>5. counted(l, out) = [l EXCEPT !.used = u, !.index = i, !.lastFp = out.fp, !.streak = s]
  BY DEF counted, accrued
<1>6. out.fp \in Fingerprints \cup {NoFingerprint}
  BY DEF Outcome
<1> HIDE DEF u, i, s
<1>7. [l EXCEPT !.used = u] \in LoopState
  BY <1>1 DEF LoopState
<1>8. [l EXCEPT !.used = u, !.index = i, !.lastFp = out.fp, !.streak = s] \in LoopState
  BY <1>1, <1>2, <1>3, <1>6 DEF LoopState
<1> QED BY <1>4, <1>5, <1>7, <1>8

LEMMA TurnEndTypes ==
    ASSUME NEW l \in LoopState, NEW r \in EndReason
    PROVE  /\ held(l) \in LoopState
           /\ paused(l) \in LoopState
           /\ escalated(l) \in LoopState
           /\ finished(l, r) \in LoopState
           /\ rearmed(l) \in LoopState
           /\ [l EXCEPT !.status = "verifying"] \in LoopState
           /\ [l EXCEPT !.status = "running"] \in LoopState
<1>1. held(l) \in LoopState /\ rearmed(l) \in LoopState
  BY DEF held, rearmed, LoopState
<1>2. paused(l) \in LoopState
  BY ConstantTypes DEF paused, LoopState
<1>3. escalated(l) \in LoopState
  BY ConstantTypes DEF escalated, LoopState
<1>4. finished(l, r) \in LoopState
  BY ConstantTypes DEF finished, LoopState
<1>5. [l EXCEPT !.status = "verifying"] \in LoopState
  BY ConstantTypes DEF LoopState
<1>6. [l EXCEPT !.status = "running"] \in LoopState
  BY ConstantTypes DEF LoopState
<1> QED BY <1>1, <1>2, <1>3, <1>4, <1>5, <1>6

LEMMA LoadType == ASSUME NEW d \in LoopState PROVE load(d) \in LoopState
BY FreshType DEF load

LEMMA PayloadType ==
    ASSUME NEW l \in LoopState PROVE Payload(l) \in Message
BY DEF Payload, NextMsg, nextPayloadOpts, Message, Opts, LoopState

LEMMA PlainType == Plain \in Message /\ Text \in Message
BY DEF Plain, Text, NoOpts, Message, Opts

(***************************************************************************)
(* The building blocks of the actions keep what they change in its type.   *)
(***************************************************************************)

\* The variables that starting a turn touches.
Scheduled ==
    /\ loop \in LoopState /\ disk \in LoopState
    /\ queue \in Seq(Message)
    /\ phase \in [Handlers -> Phase]
    /\ turnActive \in BOOLEAN
    /\ halted \in BOOLEAN

LEMMA PersistType ==
    ASSUME Scheduled, NEW l \in LoopState, Persist(l) \/ PersistIfChanged(l)
    PROVE  disk' \in LoopState
BY DEF Scheduled, Persist, PersistIfChanged

LEMMA EnteredType ==
    ASSUME NEW l \in LoopState, NEW m \in Message PROVE Entered(l, m) \in LoopState
<1>1. m.opts \in Opts
  BY DEF Message
<1>2. \A who \in {"user", "payload"} : start(m.opts, who) \in LoopState
  BY <1>1, StartType
<1>3. markTurnStart(l) \in LoopState
  BY CommandTypes
<1> QED BY <1>2, <1>3 DEF Entered

LEMMA LaunchType ==
    ASSUME Scheduled, NEW h \in Handlers, NEW m \in Message, NEW l \in LoopState,
           NEW q \in Seq(Message), NEW active \in BOOLEAN, Launch(h, m, l, q, active)
    PROVE  Scheduled'
<1>1. PICK l2 \in LoopState : loop' = l2 /\ PersistIfChanged(l2)
  BY EnteredType DEF Launch
<1>2. disk' \in LoopState
  BY <1>1, PersistType
<1>3. phase' \in [Handlers -> Phase]
  BY DEF Launch, Scheduled, Phase
<1>4. turnActive' \in BOOLEAN /\ halted' \in BOOLEAN /\ queue' \in Seq(Message)
  BY DEF Launch, Scheduled
<1> QED BY <1>1, <1>2, <1>3, <1>4 DEF Scheduled

LEMMA RestType ==
    ASSUME Scheduled, NEW h \in Handlers, NEW l \in LoopState, NEW q \in Seq(Message),
           NEW active \in BOOLEAN, Rest(h, l, q, active)
    PROVE  Scheduled'
<1>1. disk' \in LoopState
  BY PersistType DEF Rest
<1>2. phase' \in [Handlers -> Phase]
  BY DEF Rest, Scheduled, Phase
<1> QED BY <1>1, <1>2 DEF Rest, Scheduled

LEMMA ConcludeType ==
    ASSUME Scheduled, pending \in Nat, NEW h \in Handlers, NEW l \in LoopState,
           NEW q \in Seq(Message), NEW more \in {0, 1}, NEW active \in BOOLEAN,
           Conclude(h, l, q, more, active)
    PROVE  Scheduled' /\ pending' = 0
<1> DEFINE all == q \o [i \in 1..(pending + more) |-> Plain]
<1>1. all \in Seq(Message)
  <2>1. [i \in 1..(pending + more) |-> Plain] \in Seq(Message)
    BY PlainType
  <2> QED BY <2>1
<1> HIDE DEF all
<1>2. CASE all = <<>>
  BY <1>1, <1>2, RestType DEF Conclude, all
<1>3. CASE all # <<>>
  <2>1. Head(all) \in Message /\ Tail(all) \in Seq(Message)
    BY <1>1, <1>3, HeadTailProperties
  <2>2. Launch(h, Head(all), l, Tail(all), active)
    BY <1>3 DEF Conclude, all
  <2> QED BY <1>1, <2>1, <2>2, LaunchType DEF Conclude
<1> QED BY <1>2, <1>3

(***************************************************************************)
(* Type correctness.  clearLoopNextTimer cancels a timer that exists, which*)
(* is what keeps their number a natural one.                               *)
(***************************************************************************)

Surroundings ==
    /\ up \in BOOLEAN /\ cancelling \in BOOLEAN /\ resuming \in BOOLEAN
    /\ pending \in Nat
    /\ delay \in [Handlers -> BOOLEAN]
    /\ timers \in Nat /\ handle \in BOOLEAN /\ (handle => timers > 0)
    /\ inputs \in 0..MaxInputs /\ crashes \in 0..MaxCrashes

TypeInv == Scheduled /\ Surroundings

LEMMA TypeInvImpliesTypeOK == TypeInv => TypeOK
BY DEF TypeInv, Scheduled, Surroundings, TypeOK

LEMMA InitType == Init => TypeInv
<1> SUFFICES ASSUME Init PROVE TypeInv
  OBVIOUS
<1>1. Scheduled
  <2>1. <<>> \in Seq(Message)
    OBVIOUS
  <2>2. [h \in Handlers |-> "idle"] \in [Handlers -> Phase]
    BY DEF Phase
  <2> QED BY <2>1, <2>2, FreshType DEF Init, Scheduled
<1>2. Surroundings
  <2>1. pending = 0 /\ timers = 0 /\ inputs = 0 /\ crashes = 0
    BY DEF Init
  <2>2. handle \in BOOLEAN /\ ~handle
    BY Zenon DEF Init
  <2>3. up \in BOOLEAN /\ cancelling \in BOOLEAN /\ resuming \in BOOLEAN
    BY Zenon DEF Init
  <2>4. delay \in [Handlers -> BOOLEAN]
    BY DEF Init
  <2> QED BY <2>1, <2>2, <2>3, <2>4, RuntimeBoundAssumption DEF Surroundings
<1> QED BY <1>1, <1>2 DEF TypeInv

\* What every input, and every clearing of the timer, leaves well typed.
LEMMA ReceiveType ==
    ASSUME TypeInv, NEW kind, Receive(kind)
    PROVE  /\ up' \in BOOLEAN /\ resuming' \in BOOLEAN
           /\ inputs' \in 0..MaxInputs /\ crashes' \in 0..MaxCrashes
BY RuntimeBoundAssumption DEF TypeInv, Surroundings, Receive, Alive

LEMMA TimerType ==
    ASSUME TypeInv, clearLoopNextTimer \/ KeepTimer
    PROVE  timers' \in Nat /\ handle' \in BOOLEAN /\ (handle' => timers' > 0)
<1>1. timers \in Nat /\ handle \in BOOLEAN /\ (handle => timers > 0)
  BY DEF TypeInv, Surroundings
<1>2. CASE clearLoopNextTimer
  <2>1. timers' = IF handle THEN timers - 1 ELSE timers
    BY <1>2 DEF clearLoopNextTimer
  <2>2. timers' \in Nat
    BY <1>1, <2>1
  <2>3. handle' \in BOOLEAN /\ ~handle'
    BY <1>2, Zenon DEF clearLoopNextTimer
  <2> QED BY <2>2, <2>3
<1>3. CASE KeepTimer
  BY <1>1, <1>3 DEF KeepTimer
<1> QED BY <1>2, <1>3

LEMMA SayType ==
    ASSUME TypeInv, NEW m \in Message, NEW kind, Receive(kind), Say(m)
    PROVE  TypeInv'
<1>1. Scheduled'
  <2>1. CASE turnActive
    BY <2>1 DEF Say, TypeInv, Scheduled
  <2>2. CASE ~turnActive
    <3>1. PICK h \in Free : Launch(h, m, loop, queue, FALSE)
      BY <2>2 DEF Say
    <3>2. h \in Handlers
      BY DEF Free
    <3> QED BY <3>1, <3>2, LaunchType DEF TypeInv, Scheduled
  <2> QED BY <2>1, <2>2
<1>2. Surroundings'
  BY ReceiveType, TimerType DEF Say, TypeInv, Surroundings
<1> QED BY <1>1, <1>2 DEF TypeInv

LEMMA DeliverType ==
    ASSUME TypeInv, Deliver PROVE Scheduled'
<1> DEFINE p == Payload(loop)
<1>1. p \in Message
  BY PayloadType DEF TypeInv, Scheduled
<1> HIDE DEF p
<1>2. CASE turnActive
  <2>1. queue' = <<p>> \o queue
    BY <1>2 DEF Deliver, p
  <2>2. queue' \in Seq(Message)
    BY <1>1, <2>1 DEF TypeInv, Scheduled
  <2> QED BY <1>2, <2>2 DEF Deliver, TypeInv, Scheduled
<1>3. CASE ~turnActive
  <2>1. PICK h \in Free : Launch(h, p, loop, queue, FALSE)
    BY <1>3 DEF Deliver, p
  <2>2. h \in Handlers
    BY DEF Free
  <2> QED BY <1>1, <2>1, <2>2, LaunchType DEF TypeInv, Scheduled
<1> QED BY <1>2, <1>3

LEMMA UserInputType ==
    ASSUME TypeInv, UserPlain \/ UserText \/ UserStart \/ UserInterjects \/ UserUrgent
    PROVE  TypeInv'
<1>1. CASE UserPlain
  BY <1>1, PlainType, SayType DEF UserPlain
<1>2. CASE UserText
  BY <1>2, PlainType, SayType DEF UserText
<1>3. CASE UserStart
  <2>1. PICK o \in LoopOpts : Say(StartMsg(o))
    BY <1>3 DEF UserStart
  <2>2. StartMsg(o) \in Message
    BY OptsAssumption DEF StartMsg, Message
  <2>3. Receive("start")
    BY <1>3 DEF UserStart
  <2> QED BY <2>1, <2>2, <2>3, SayType
<1>4. CASE UserInterjects
  <2>1. Surroundings'
    BY <1>4, ReceiveType, TimerType DEF UserInterjects, TypeInv, Surroundings
  <2> QED BY <1>4, <2>1 DEF UserInterjects, TypeInv, Scheduled
<1>5. CASE UserUrgent
  <2>1. Surroundings'
    BY <1>5, ReceiveType, TimerType DEF UserUrgent, TypeInv, Surroundings
  <2>2. queue' \in Seq(Message)
    BY <1>5, PlainType DEF UserUrgent
  <2> QED BY <1>5, <2>1, <2>2 DEF UserUrgent, TypeInv, Scheduled
<1> QED BY <1>1, <1>2, <1>3, <1>4, <1>5

LEMMA CommandInputType ==
    ASSUME TypeInv,
           LoopPause \/ LoopResume \/ LoopStop \/ LoopBudget \/ LoopInject \/ Cancel
    PROVE  TypeInv'
<1>0. loop \in LoopState /\ Scheduled
  BY DEF TypeInv, Scheduled
<1>1. CASE LoopPause
  <2>1. pause(loop) \in LoopState
    BY <1>0, CommandTypes
  <2>2. disk' \in LoopState
    BY <1>0, <1>1, <2>1, PersistType DEF LoopPause, Scheduled
  <2>3. Surroundings'
    BY <1>1, ReceiveType, TimerType DEF LoopPause, TypeInv, Surroundings
  <2> QED BY <1>1, <2>1, <2>2, <2>3 DEF LoopPause, TypeInv, Scheduled
<1>2. CASE LoopResume
  <2> DEFINE l == resume(loop)
             p == Payload(l)
  <2>1. l \in LoopState /\ p \in Message
    BY <1>0, CommandTypes, PayloadType
  <2> HIDE DEF l, p
  <2>2. Scheduled'
    <3>1. CASE ~isActive(loop)
      <4>1. loop' = l /\ PersistIfChanged(l) /\ halted' \in BOOLEAN
        BY <1>0, <1>2, <3>1 DEF LoopResume, Scheduled, l
      <4>2. UNCHANGED <<turnActive, queue, phase>>
        BY <1>2, <3>1 DEF LoopResume
      <4> QED BY <1>0, <2>1, <4>1, <4>2, PersistType DEF Scheduled
    <3>2. CASE isActive(loop) /\ turnActive
      <4>1. loop' = l /\ PersistIfChanged(l) /\ queue' = <<p>> \o queue
        BY <1>2, <3>2 DEF LoopResume, l, p
      <4>2. UNCHANGED <<turnActive, phase, halted>>
        BY <1>2, <3>2 DEF LoopResume
      <4>3. queue' \in Seq(Message)
        BY <1>0, <2>1, <4>1 DEF Scheduled
      <4> QED BY <1>0, <2>1, <4>1, <4>2, <4>3, PersistType DEF Scheduled
    <3>3. CASE isActive(loop) /\ ~turnActive
      <4>1. PICK h \in Free : Launch(h, p, l, queue, FALSE)
        BY <1>2, <3>3 DEF LoopResume, l, p
      <4>2. h \in Handlers
        BY DEF Free
      <4> QED BY <1>0, <2>1, <4>1, <4>2, LaunchType DEF Scheduled
    <3> QED BY <3>1, <3>2, <3>3
  <2>3. Surroundings'
    BY <1>2, ReceiveType, TimerType DEF LoopResume, TypeInv, Surroundings
  <2> QED BY <2>2, <2>3 DEF TypeInv
<1>3. CASE LoopStop
  <2>1. stop(loop, "cancelled") \in LoopState
    BY <1>0, ConstantTypes, StopType
  <2>2. disk' \in LoopState
    BY <1>0, <1>3, <2>1, PersistType DEF LoopStop
  <2>3. Surroundings'
    BY <1>3, ReceiveType, TimerType DEF LoopStop, TypeInv, Surroundings
  <2> QED BY <1>3, <2>1, <2>2, <2>3 DEF LoopStop, TypeInv, Scheduled
<1>4. CASE LoopBudget
  <2>1. PICK c \in BudgetCaps : loop' = setBudget(loop, c) /\ Persist(setBudget(loop, c))
    BY <1>4 DEF LoopBudget
  <2>2. setBudget(loop, c) \in LoopState
    BY <1>0, CapsAssumption, CommandTypes
  <2>3. disk' \in LoopState
    BY <1>0, <2>1, <2>2, PersistType
  <2>4. Surroundings'
    BY <1>4, ReceiveType, TimerType DEF LoopBudget, TypeInv, Surroundings
  <2> QED BY <1>4, <2>1, <2>2, <2>3, <2>4 DEF LoopBudget, TypeInv, Scheduled
<1>5. CASE LoopInject
  <2>1. disk' \in LoopState
    BY <1>0, <1>5, PersistType DEF LoopInject
  <2>2. Surroundings'
    BY <1>5, ReceiveType, TimerType DEF LoopInject, TypeInv, Surroundings
  <2> QED BY <1>5, <2>1, <2>2 DEF LoopInject, TypeInv, Scheduled
<1>6. CASE Cancel
  <2> DEFINE l == IF isActive(loop) THEN stop(loop, "cancelled") ELSE loop
  <2>1. l \in LoopState
    BY <1>0, ConstantTypes, StopType
  <2> HIDE DEF l
  <2>2. loop' = l /\ PersistIfChanged(l)
    BY <1>6 DEF Cancel, l
  <2>3. disk' \in LoopState
    BY <1>0, <2>1, <2>2, PersistType
  <2>4. queue' \in Seq(Message) /\ halted' \in BOOLEAN
    BY <1>6 DEF Cancel
  <2>5. Surroundings'
    BY <1>6, ReceiveType, TimerType DEF Cancel, TypeInv, Scheduled, Surroundings
  <2> QED BY <1>6, <2>1, <2>2, <2>3, <2>4, <2>5 DEF Cancel, TypeInv, Scheduled
<1> QED BY <1>1, <1>2, <1>3, <1>4, <1>5, <1>6

LEMMA ArmType ==
    ASSUME TypeInv, NEW h \in Handlers, NEW l \in LoopState, NEW wait \in BOOLEAN,
           NEW active \in BOOLEAN, Arm(h, l, wait, active)
    PROVE  /\ Scheduled' /\ pending' = 0
           /\ timers' \in Nat /\ handle' \in BOOLEAN /\ (handle' => timers' > 0)
<1>1. Scheduled /\ pending \in Nat /\ queue \in Seq(Message)
  BY DEF TypeInv, Scheduled, Surroundings
<1>2. rearmed(l) \in LoopState
  BY ConstantTypes, TurnEndTypes
<1>3. CASE wait
  <2>1. timers' = timers + 1 /\ Conclude(h, rearmed(l), queue, 0, active)
    BY <1>3 DEF Arm
  <2>2. handle' \in BOOLEAN
    BY <1>3, Zenon DEF Arm
  <2>3. timers' \in Nat /\ timers' > 0
    BY <2>1 DEF TypeInv, Surroundings
  <2> QED BY <1>1, <1>2, <2>1, <2>2, <2>3, ConcludeType
<1>4. CASE ~wait
  <2> DEFINE p == Payload(l)
  <2>1. p \in Message
    BY PayloadType
  <2> HIDE DEF p
  <2>2. KeepTimer /\ Conclude(h, rearmed(l), <<p>> \o queue, 0, active)
    BY <1>4 DEF Arm, p
  <2>3. <<p>> \o queue \in Seq(Message)
    BY <1>1, <2>1
  <2>4. Scheduled' /\ pending' = 0
    BY <1>1, <1>2, <2>2, <2>3, ConcludeType
  <2> QED BY <2>2, <2>4, TimerType
<1> QED BY <1>3, <1>4

LEMMA NextDecisionType ==
    ASSUME TypeInv, NEW h \in Handlers, NEW l \in LoopState, NEW active \in BOOLEAN,
           NextDecision(h, l, active)
    PROVE  /\ Scheduled' /\ pending' \in Nat
           /\ delay' \in [Handlers -> BOOLEAN]
           /\ timers' \in Nat /\ handle' \in BOOLEAN /\ (handle' => timers' > 0)
<1>1. l.every \in BOOLEAN
  BY DEF LoopState
<1>2. CASE l.until
  <2>1. loop' = l /\ disk' \in LoopState
    BY <1>2, PersistType DEF NextDecision, TypeInv
  <2>2. phase' \in [Handlers -> Phase] /\ delay' \in [Handlers -> BOOLEAN]
    BY <1>1, <1>2 DEF NextDecision, TypeInv, Scheduled, Surroundings, Phase
  <2>3. KeepTimer
    BY <1>2 DEF NextDecision
  <2>4. turnActive' \in BOOLEAN /\ UNCHANGED <<queue, pending, halted>>
    BY <1>2 DEF NextDecision
  <2> QED BY <2>1, <2>2, <2>3, <2>4, TimerType DEF TypeInv, Scheduled, Surroundings
<1>3. CASE ~l.until
  <2>1. UNCHANGED delay /\ Arm(h, l, l.every, active)
    BY <1>3 DEF NextDecision
  <2> QED BY <1>1, <2>1, ArmType DEF TypeInv, Surroundings
<1> QED BY <1>2, <1>3

LEMMA TurnEndsType ==
    ASSUME TypeInv, NEW h \in Handlers, TurnEnds(h)
    PROVE  TypeInv'
<1>1. PICK out :
        \/ TurnEndsOutsideLoop(h, out) \/ TurnEndsHeld(h, out) \/ TurnEndsPaused(h, out)
        \/ TurnEndsOverBudget(h, out) \/ TurnEndsStalled(h, out)
        \/ TurnEndsToVerify(h, out) \/ TurnEndsCompleted(h, out) \/ TurnEndsNext(h, out)
  BY DEF TurnEnds
<1>2. TurnOver(h, out)
  BY <1>1 DEF TurnEndsOutsideLoop, TurnEndsHeld, TurnEndsPaused, TurnEndsOverBudget,
              TurnEndsStalled, TurnEndsToVerify, TurnEndsCompleted, TurnEndsNext, RoundOver
<1>3. out \in Outcome
  BY <1>2 DEF TurnOver, Outcome, NullOutcome
<1>4. /\ up' \in BOOLEAN /\ cancelling' \in BOOLEAN /\ resuming' \in BOOLEAN
      /\ inputs' \in 0..MaxInputs /\ crashes' \in 0..MaxCrashes
  <2>1. cancelling' \in BOOLEAN
    BY <1>2, Zenon DEF TurnOver
  <2> QED BY <1>2, <2>1 DEF TurnOver, Alive, TypeInv, Surroundings
<1> DEFINE l == counted(loop, out)
<1>5. /\ loop \in LoopState /\ queue \in Seq(Message) /\ pending \in Nat
      /\ Scheduled /\ delay \in [Handlers -> BOOLEAN]
  BY DEF TypeInv, Scheduled, Surroundings
<1>6. accrued(loop, out) \in LoopState /\ l \in LoopState
  BY <1>3, <1>5, CountedType
<1> HIDE DEF l
<1>7. ASSUME NEW k \in LoopState, NEW more \in {0, 1}, UNCHANGED delay, KeepTimer,
             Conclude(h, k, queue, more, FALSE)
      PROVE  TypeInv'
  <2>1. FALSE \in BOOLEAN
    OBVIOUS
  <2>2. Scheduled' /\ pending' = 0
    BY <1>5, <1>7, <2>1, ConcludeType
  <2> QED BY <1>4, <1>5, <1>7, <2>2, TimerType DEF TypeInv, Surroundings
<1>8. CASE TurnEndsOutsideLoop(h, out)
  BY <1>5, <1>7, <1>8 DEF TurnEndsOutsideLoop
<1>9. CASE TurnEndsHeld(h, out)
  <2>1. held(accrued(loop, out)) \in LoopState
    BY <1>6, ConstantTypes, TurnEndTypes
  <2> QED BY <1>7, <1>9, <2>1 DEF TurnEndsHeld
<1>10. CASE TurnEndsPaused(h, out)
  <2>1. paused(l) \in LoopState
    BY <1>6, ConstantTypes, TurnEndTypes
  <2> QED BY <1>7, <1>10, <2>1 DEF TurnEndsPaused, l
<1>11. CASE TurnEndsOverBudget(h, out)
  <2>1. stop(l, "budget_exceeded") \in LoopState
    BY <1>6, ConstantTypes, StopType
  <2> QED BY <1>7, <1>11, <2>1 DEF TurnEndsOverBudget, l
<1>12. CASE TurnEndsStalled(h, out)
  <2>1. stop(l, "no_progress") \in LoopState /\ escalated(l) \in LoopState
    BY <1>6, ConstantTypes, StopType, TurnEndTypes
  <2> QED BY <1>7, <1>12, <2>1 DEF TurnEndsStalled, l
<1>13. CASE TurnEndsToVerify(h, out)
  <2>1. [l EXCEPT !.status = "verifying"] \in LoopState
    BY <1>6, ConstantTypes, TurnEndTypes
  <2>2. loop' \in LoopState
    BY <1>13, <2>1 DEF TurnEndsToVerify, l
  <2>3. phase' \in [Handlers -> Phase]
    BY <1>5, <1>13 DEF TurnEndsToVerify, Scheduled, Phase
  <2>4. turnActive' \in BOOLEAN
    BY <1>13, Zenon DEF TurnEndsToVerify
  <2>5. UNCHANGED <<disk, queue, pending, delay, halted>> /\ KeepTimer
    BY <1>13 DEF TurnEndsToVerify
  <2> QED BY <1>4, <1>5, <2>2, <2>3, <2>4, <2>5, TimerType
          DEF TypeInv, Scheduled, Surroundings
<1>14. CASE TurnEndsCompleted(h, out)
  <2>1. finished(l, "completed") \in LoopState
    BY <1>6, ConstantTypes, TurnEndTypes
  <2> QED BY <1>7, <1>14, <2>1 DEF TurnEndsCompleted, l
<1>15. CASE TurnEndsNext(h, out)
  <2>1. NextDecision(h, l, FALSE)
    BY <1>15 DEF TurnEndsNext, l
  <2> QED BY <1>4, <1>6, <2>1, NextDecisionType DEF TypeInv, Surroundings
<1> QED BY <1>1, <1>8, <1>9, <1>10, <1>11, <1>12, <1>13, <1>14, <1>15

LEMMA VerdictType ==
    ASSUME TypeInv, NEW h \in Handlers,
           (\E passed \in BOOLEAN : VerifyReturns(h, passed))
             \/ (\E answer \in {"done", "error", "go_on"} : JudgeReturns(h, answer))
    PROVE  TypeInv'
<1>1. /\ loop \in LoopState /\ queue \in Seq(Message) /\ pending \in Nat
      /\ Scheduled /\ delay \in [Handlers -> BOOLEAN] /\ turnActive \in BOOLEAN
  BY DEF TypeInv, Scheduled, Surroundings
<1>2. /\ up' \in BOOLEAN /\ cancelling' \in BOOLEAN /\ resuming' \in BOOLEAN
      /\ inputs' \in 0..MaxInputs /\ crashes' \in 0..MaxCrashes
  BY DEF VerifyReturns, JudgeReturns, Alive, TypeInv, Surroundings
<1>3. ASSUME NEW k \in LoopState, UNCHANGED delay, KeepTimer,
             Conclude(h, k, queue, 0, turnActive)
      PROVE  TypeInv'
  <2>1. Scheduled' /\ pending' \in Nat
    BY <1>1, <1>3, ConcludeType
  <2> QED BY <1>1, <1>2, <1>3, <2>1, TimerType DEF TypeInv, Surroundings
<1>4. ASSUME NEW passed \in BOOLEAN, VerifyReturns(h, passed) PROVE TypeInv'
  <2> DEFINE l == [loop EXCEPT !.status = "running"]
  <2>1. l \in LoopState
    BY <1>1, ConstantTypes, TurnEndTypes
  <2>2. finished(l, "verify_hit") \in LoopState /\ finished(l, "failed") \in LoopState
    BY <2>1, ConstantTypes, TurnEndTypes
  <2> HIDE DEF l
  <2>3. CASE passed
    BY <1>3, <1>4, <2>2, <2>3 DEF VerifyReturns, l
  <2>4. CASE ~passed /\ roundsSpent(l)
    BY <1>3, <1>4, <2>2, <2>4 DEF VerifyReturns, l
  <2>5. CASE ~passed /\ ~roundsSpent(l)
    <3>1. NextDecision(h, l, turnActive)
      BY <1>4, <2>5 DEF VerifyReturns, l
    <3> QED BY <1>1, <1>2, <2>1, <3>1, NextDecisionType DEF TypeInv, Surroundings
  <2> QED BY <2>3, <2>4, <2>5
<1>5. ASSUME NEW answer \in {"done", "error", "go_on"}, JudgeReturns(h, answer) PROVE TypeInv'
  <2>1. stop(loop, "until_hit") \in LoopState /\ stop(loop, "judge_error") \in LoopState
    BY <1>1, ConstantTypes, StopType
  <2>2. CASE answer = "done" \/ answer = "error"
    BY <1>3, <1>5, <2>1, <2>2 DEF JudgeReturns
  <2>3. CASE answer = "go_on"
    <3>1. Arm(h, loop, delay[h], turnActive) /\ UNCHANGED delay
      BY <1>5, <2>3 DEF JudgeReturns
    <3>2. delay[h] \in BOOLEAN
      BY <1>1
    <3> QED BY <1>1, <1>2, <3>1, <3>2, ArmType DEF TypeInv, Surroundings
  <2> QED BY <2>2, <2>3
<1> QED BY <1>4, <1>5

LEMMA QuietType ==
    ASSUME TypeInv,
           \/ \E h \in Handlers : HookPasses(h)
           \/ EngineAbsorbs \/ TimerFires \/ ResumeDelivers \/ Crash \/ Restart
    PROVE  TypeInv'
<1>1. ASSUME NEW h \in Handlers, HookPasses(h) PROVE TypeInv'
  <2>1. phase' \in [Handlers -> Phase]
    BY <1>1 DEF HookPasses, TypeInv, Scheduled, Phase
  <2> QED BY <1>1, <2>1, TimerType DEF HookPasses, Alive, TypeInv, Scheduled, Surroundings
<1>2. CASE EngineAbsorbs
  BY <1>2, TimerType DEF EngineAbsorbs, Alive, TypeInv, Scheduled, Surroundings
<1>3. CASE TimerFires
  <2>1. Scheduled'
    <3>1. CASE loop.status # "running"
      BY <1>3, <3>1 DEF TimerFires, TypeInv, Scheduled
    <3>2. CASE loop.status = "running"
      BY <1>3, <3>2, DeliverType DEF TimerFires
    <3> QED BY <3>1, <3>2
  <2>2. timers' \in Nat
    BY <1>3 DEF TimerFires, TypeInv, Surroundings
  <2>3. handle' \in BOOLEAN /\ ~handle'
    BY <1>3, Zenon DEF TimerFires
  <2> QED BY <1>3, <2>1, <2>2, <2>3 DEF TimerFires, Alive, TypeInv, Surroundings
<1>4. CASE ResumeDelivers
  <2>1. Scheduled'
    <3>1. CASE loop.status # "running"
      BY <1>4, <3>1 DEF ResumeDelivers, TypeInv, Scheduled
    <3>2. CASE loop.status = "running"
      BY <1>4, <3>2, DeliverType DEF ResumeDelivers
    <3> QED BY <3>1, <3>2
  <2>2. resuming' \in BOOLEAN
    BY <1>4, Zenon DEF ResumeDelivers
  <2> QED BY <1>4, <2>1, <2>2, TimerType DEF ResumeDelivers, Alive, TypeInv, Surroundings
<1>5. CASE Crash
  <2>1. Scheduled'
    <3>1. [h \in Handlers |-> "idle"] \in [Handlers -> Phase] /\ <<>> \in Seq(Message)
      BY DEF Phase
    <3>2. turnActive' \in BOOLEAN
      BY <1>5, Zenon DEF Crash
    <3> QED BY <1>5, <3>1, <3>2, FreshType DEF Crash, TypeInv, Scheduled
  <2>2. up' \in BOOLEAN /\ cancelling' \in BOOLEAN /\ resuming' \in BOOLEAN
    BY <1>5, Zenon DEF Crash
  <2>3. handle' \in BOOLEAN /\ ~handle'
    BY <1>5, Zenon DEF Crash
  <2>4. pending' \in Nat /\ timers' \in Nat /\ delay' \in [Handlers -> BOOLEAN]
    BY <1>5 DEF Crash
  <2>5. inputs' \in 0..MaxInputs /\ crashes' \in 0..MaxCrashes
    BY <1>5, RuntimeBoundAssumption DEF Crash, TypeInv, Surroundings
  <2> QED BY <2>1, <2>2, <2>3, <2>4, <2>5 DEF TypeInv, Surroundings
<1>6. CASE Restart
  <2>1. loop' \in LoopState
    BY <1>6, LoadType DEF Restart, TypeInv, Scheduled
  <2>2. up' \in BOOLEAN
    BY <1>6, Zenon DEF Restart
  <2>3. resuming' \in BOOLEAN
    BY <1>6 DEF Restart
  <2> QED BY <1>6, <2>1, <2>2, <2>3 DEF Restart, TypeInv, Scheduled, Surroundings
<1> QED BY <1>1, <1>2, <1>3, <1>4, <1>5, <1>6

LEMMA NextType == TypeInv /\ [Next]_vars => TypeInv'
<1> SUFFICES ASSUME TypeInv, [Next]_vars PROVE TypeInv'
  OBVIOUS
<1>1. CASE HostInput
  BY <1>1, UserInputType, CommandInputType DEF HostInput
<1>2. ASSUME NEW h \in Handlers, HandlerStep(h) PROVE TypeInv'
  BY <1>2, QuietType, TurnEndsType, VerdictType DEF HandlerStep
<1>3. CASE EngineAbsorbs \/ TimerFires \/ ResumeDelivers \/ Crash \/ Restart
  BY <1>3, QuietType
<1>4. CASE UNCHANGED vars
  BY <1>4 DEF vars, TypeInv, Scheduled, Surroundings
<1> QED BY <1>1, <1>2, <1>3, <1>4 DEF Next

\* Every variable of the kernel keeps its type, whatever the host sends and in whatever
\* order turns, verdicts, timers and crashes fall.
THEOREM TypeCorrect == Spec => []TypeOK
<1>1. Spec => []TypeInv
  BY InitType, NextType, PTL DEF Spec
<1> QED BY <1>1, TypeInvImpliesTypeOK, PTL

(***************************************************************************)
(* A crash loses nothing of the loop, for every instance whose disk does   *)
(* not fail.  The inductive invariant: onTurnEnd counts a round and enters *)
(* "verifying" without a write, so the file is behind exactly while such a *)
(* loop waits for its verifier; every other change is persisted at once.   *)
(***************************************************************************)

Saved == load(disk) = load(loop)

Behind == loop.status = "verifying" /\ \E h \in Handlers : phase[h] = "verify"

Recoverable == up => Saved \/ Behind

LEMMA RecoverableImplies == Recoverable => RestartLosesNothing
BY DEF Recoverable, Saved, Behind, RestartLosesNothing

LEMMA InitRecoverable == Init => Recoverable
BY DEF Init, Recoverable, Saved

LEMMA LoadTwice == ASSUME NEW d PROVE load(load(d)) = load(d)
BY DEF load, freshState, TERMINAL

\* A write that cannot fail leaves the file equal to the record.
LEMMA SaveOrSame ==
    ASSUME ~DiskFails, NEW l, loop' = l, Persist(l) \/ PersistIfChanged(l)
    PROVE  (loop' = loop /\ disk' = disk) \/ disk' = loop'
BY DEF Persist, PersistIfChanged

LEMMA EnteredStatus ==
    ASSUME NEW l \in LoopState, NEW m \in Message, l.status # "verifying"
    PROVE  Entered(l, m).status # "verifying"
BY DEF Entered, start, freshState, markTurnStart, LoopState

\* Starting a turn by h, or not, keeps the file recoverable; a handler whose own
\* verification just ended has taken the record out of "verifying".
LEMMA LaunchRecovers ==
    ASSUME ~DiskFails, Saved \/ Behind, Scheduled,
           NEW h \in Handlers, NEW m \in Message, NEW l \in LoopState, NEW q, NEW active,
           phase[h] = "verify" => l.status # "verifying", Launch(h, m, l, q, active)
    PROVE  Saved' \/ Behind'
<1> DEFINE l2 == IF m.kind = "text" THEN l ELSE Entered(l, m)
<1>1. loop' = l2 /\ PersistIfChanged(l2)
  BY DEF Launch
<1>2. phase[h] = "verify" => l2.status # "verifying"
  BY EnteredStatus
<1>3. \A g \in Handlers \ {h} : phase'[g] = phase[g]
  BY DEF Launch, Scheduled
<1> HIDE DEF l2
<1>4. CASE disk' = loop'
  BY <1>4 DEF Saved
<1>5. CASE loop' = loop /\ disk' = disk
  BY <1>1, <1>2, <1>3, <1>5 DEF Saved, Behind
<1> QED BY <1>1, <1>4, <1>5, SaveOrSame

LEMMA ConcludeRecovers ==
    ASSUME ~DiskFails, Saved \/ Behind, Scheduled, pending \in Nat,
           NEW h \in Handlers, NEW l \in LoopState, NEW q \in Seq(Message),
           NEW more \in {0, 1}, NEW active,
           phase[h] = "verify" => l.status # "verifying", Conclude(h, l, q, more, active)
    PROVE  Saved' \/ Behind'
<1> DEFINE all == q \o [i \in 1..(pending + more) |-> Plain]
<1>1. all \in Seq(Message)
  <2>1. [i \in 1..(pending + more) |-> Plain] \in Seq(Message)
    BY PlainType
  <2> QED BY <2>1
<1> HIDE DEF all
<1>2. CASE all = <<>>
  <2>1. Rest(h, l, all, active)
    BY <1>2 DEF Conclude, all
  <2>2. loop' = l /\ PersistIfChanged(l)
    BY <2>1 DEF Rest
  <2>3. \A g \in Handlers \ {h} : phase'[g] = phase[g]
    BY <2>1 DEF Rest, Scheduled
  <2>4. CASE disk' = loop'
    BY <2>4 DEF Saved
  <2>5. CASE loop' = loop /\ disk' = disk
    BY <2>2, <2>3, <2>5 DEF Saved, Behind
  <2> QED BY <2>2, <2>4, <2>5, SaveOrSame
<1>3. CASE all # <<>>
  <2>1. Head(all) \in Message
    BY <1>1, <1>3, HeadTailProperties
  <2>2. Launch(h, Head(all), l, Tail(all), active)
    BY <1>3 DEF Conclude, all
  <2> QED BY <2>1, <2>2, LaunchRecovers
<1> QED BY <1>2, <1>3

LEMMA ArmRecovers ==
    ASSUME ~DiskFails, Saved \/ Behind, TypeInv,
           NEW h \in Handlers, NEW l \in LoopState, NEW wait, NEW active,
           phase[h] = "verify" => l.status # "verifying", Arm(h, l, wait, active)
    PROVE  Saved' \/ Behind'
<1>1. Scheduled /\ pending \in Nat /\ queue \in Seq(Message)
  BY DEF TypeInv, Scheduled, Surroundings
<1>2. rearmed(l) \in LoopState /\ rearmed(l).status = l.status
  BY DEF rearmed, LoopState
<1>3. CASE wait
  BY <1>1, <1>2, <1>3, ConcludeRecovers DEF Arm
<1>4. CASE ~wait
  <2> DEFINE p == Payload(l)
  <2>1. <<p>> \o queue \in Seq(Message)
    BY <1>1, PayloadType
  <2>2. Conclude(h, rearmed(l), <<p>> \o queue, 0, active)
    BY <1>4 DEF Arm
  <2> HIDE DEF p
  <2> QED BY <1>1, <1>2, <2>1, <2>2, ConcludeRecovers
<1> QED BY <1>3, <1>4

LEMMA NextDecisionRecovers ==
    ASSUME ~DiskFails, Saved \/ Behind, TypeInv,
           NEW h \in Handlers, NEW l \in LoopState, NEW active,
           phase[h] = "verify" => l.status # "verifying", NextDecision(h, l, active)
    PROVE  Saved' \/ Behind'
<1>1. CASE l.until
  BY <1>1 DEF NextDecision, Persist, Saved
<1>2. CASE ~l.until
  BY <1>2, ArmRecovers DEF NextDecision
<1> QED BY <1>1, <1>2

(***************************************************************************)
(* The actions.                                                            *)
(***************************************************************************)

LEMMA DeliverRecovers ==
    ASSUME ~DiskFails, Saved \/ Behind, TypeInv, Deliver
    PROVE  Saved' \/ Behind'
<1>1. CASE turnActive
  BY <1>1 DEF Deliver, Saved, Behind
<1>2. CASE ~turnActive
  <2> DEFINE p == Payload(loop)
  <2>1. p \in Message /\ Scheduled /\ loop \in LoopState
    BY PayloadType DEF TypeInv, Scheduled
  <2>2. PICK h \in Free : Launch(h, p, loop, queue, FALSE)
    BY <1>2 DEF Deliver
  <2>3. h \in Handlers /\ phase[h] # "verify"
    BY DEF Free
  <2> HIDE DEF p
  <2> QED BY <2>1, <2>2, <2>3, LaunchRecovers
<1> QED BY <1>1, <1>2

LEMMA SayRecovers ==
    ASSUME ~DiskFails, Saved \/ Behind, TypeInv, NEW m \in Message, Say(m)
    PROVE  Saved' \/ Behind'
<1>1. CASE turnActive
  BY <1>1 DEF Say, Saved, Behind
<1>2. CASE ~turnActive
  <2>1. PICK h \in Free : Launch(h, m, loop, queue, FALSE)
    BY <1>2 DEF Say
  <2>2. h \in Handlers /\ phase[h] # "verify"
    BY DEF Free
  <2>3. Scheduled /\ loop \in LoopState
    BY DEF TypeInv, Scheduled
  <2> QED BY <2>1, <2>2, <2>3, LaunchRecovers
<1> QED BY <1>1, <1>2

LEMMA HostInputRecovers ==
    ASSUME ~DiskFails, Saved \/ Behind, TypeInv, HostInput
    PROVE  Saved' \/ Behind'
<1>1. CASE UserPlain \/ UserText
  BY <1>1, PlainType, SayRecovers DEF UserPlain, UserText
<1>2. CASE UserStart
  <2>1. PICK o \in LoopOpts : Say(StartMsg(o))
    BY <1>2 DEF UserStart
  <2>2. StartMsg(o) \in Message
    BY OptsAssumption DEF StartMsg, Message
  <2> QED BY <2>1, <2>2, SayRecovers
<1>3. CASE UserInterjects \/ UserUrgent
  BY <1>3 DEF UserInterjects, UserUrgent, Saved, Behind
<1>4. CASE LoopPause
  <2>1. CASE isActive(loop)
    BY <1>4, <2>1 DEF LoopPause, Persist, Saved
  <2>2. CASE ~isActive(loop)
    BY <1>4, <2>2 DEF LoopPause, pause, Saved, Behind
  <2> QED BY <2>1, <2>2
<1>5. CASE LoopResume
  <2> DEFINE l == resume(loop)
             p == Payload(l)
  <2>1. Scheduled /\ l \in LoopState /\ p \in Message
    BY CommandTypes, PayloadType DEF TypeInv, Scheduled
  <2> HIDE DEF l, p
  <2>2. CASE ~isActive(loop) \/ turnActive
    <3>1. loop' = l /\ PersistIfChanged(l) /\ phase' = phase
      BY <1>5, <2>2 DEF LoopResume, l
    <3> QED BY <3>1, SaveOrSame DEF Saved, Behind
  <2>3. CASE isActive(loop) /\ ~turnActive
    <3>1. PICK h \in Free : Launch(h, p, l, queue, FALSE)
      BY <1>5, <2>3 DEF LoopResume, l, p
    <3>2. h \in Handlers /\ phase[h] # "verify"
      BY DEF Free
    <3> QED BY <2>1, <3>1, <3>2, LaunchRecovers
  <2> QED BY <2>2, <2>3
<1>6. CASE LoopStop \/ LoopBudget \/ LoopInject
  BY <1>6 DEF LoopStop, LoopBudget, LoopInject, Persist, Saved
<1>7. CASE Cancel
  <2>1. CASE isActive(loop)
    <3>1. loop' = stop(loop, "cancelled") /\ PersistIfChanged(stop(loop, "cancelled"))
      BY <1>7, <2>1 DEF Cancel
    <3>2. phase' = phase
      BY <1>7 DEF Cancel
    <3> QED BY <3>1, <3>2, SaveOrSame DEF Saved, Behind
  <2>2. CASE ~isActive(loop)
    BY <1>7, <2>2 DEF Cancel, PersistIfChanged, Saved, Behind
  <2> QED BY <2>1, <2>2
<1> QED BY <1>1, <1>2, <1>3, <1>4, <1>5, <1>6, <1>7 DEF HostInput

LEMMA TurnEndsRecovers ==
    ASSUME ~DiskFails, Saved \/ Behind, TypeInv, NEW h \in Handlers, TurnEnds(h)
    PROVE  Saved' \/ Behind'
<1>1. PICK out :
        \/ TurnEndsOutsideLoop(h, out) \/ TurnEndsHeld(h, out) \/ TurnEndsPaused(h, out)
        \/ TurnEndsOverBudget(h, out) \/ TurnEndsStalled(h, out)
        \/ TurnEndsToVerify(h, out) \/ TurnEndsCompleted(h, out) \/ TurnEndsNext(h, out)
  BY DEF TurnEnds
<1>2. TurnOver(h, out)
  BY <1>1 DEF TurnEndsOutsideLoop, TurnEndsHeld, TurnEndsPaused, TurnEndsOverBudget,
              TurnEndsStalled, TurnEndsToVerify, TurnEndsCompleted, TurnEndsNext, RoundOver
<1>3. out \in Outcome /\ phase[h] # "verify"
  BY <1>2 DEF TurnOver, Outcome, NullOutcome
<1> DEFINE l == counted(loop, out)
<1>4. /\ Scheduled /\ pending \in Nat /\ queue \in Seq(Message) /\ loop \in LoopState
      /\ accrued(loop, out) \in LoopState /\ l \in LoopState
  BY <1>3, CountedType DEF TypeInv, Scheduled, Surroundings
<1>5. /\ held(accrued(loop, out)) \in LoopState /\ paused(l) \in LoopState
      /\ escalated(l) \in LoopState /\ finished(l, "completed") \in LoopState
      /\ stop(l, "budget_exceeded") \in LoopState /\ stop(l, "no_progress") \in LoopState
  BY <1>4, ConstantTypes, TurnEndTypes, StopType
<1> HIDE DEF l
<1>6. ASSUME NEW k \in LoopState, NEW more \in {0, 1}, Conclude(h, k, queue, more, FALSE)
      PROVE  Saved' \/ Behind'
  BY <1>3, <1>4, <1>6, ConcludeRecovers
<1>7. CASE TurnEndsOutsideLoop(h, out)
  BY <1>4, <1>6, <1>7 DEF TurnEndsOutsideLoop
<1>8. CASE TurnEndsHeld(h, out)
  BY <1>5, <1>6, <1>8 DEF TurnEndsHeld
<1>9. CASE TurnEndsPaused(h, out)
  BY <1>5, <1>6, <1>9 DEF TurnEndsPaused, l
<1>10. CASE TurnEndsOverBudget(h, out)
  BY <1>5, <1>6, <1>10 DEF TurnEndsOverBudget, l
<1>11. CASE TurnEndsStalled(h, out)
  BY <1>5, <1>6, <1>11 DEF TurnEndsStalled, l
<1>12. CASE TurnEndsToVerify(h, out)
  <2>1. loop' = [l EXCEPT !.status = "verifying"]
    BY <1>12 DEF TurnEndsToVerify, l
  <2>2. loop'.status = "verifying"
    BY <1>4, <2>1 DEF LoopState
  <2>3. phase'[h] = "verify"
    BY <1>4, <1>12 DEF TurnEndsToVerify, Scheduled
  <2> QED BY <2>2, <2>3 DEF Behind
<1>13. CASE TurnEndsCompleted(h, out)
  BY <1>5, <1>6, <1>13 DEF TurnEndsCompleted, l
<1>14. CASE TurnEndsNext(h, out)
  <2>1. NextDecision(h, l, FALSE)
    BY <1>14 DEF TurnEndsNext, l
  <2> QED BY <1>3, <1>4, <2>1, NextDecisionRecovers
<1> QED BY <1>1, <1>7, <1>8, <1>9, <1>10, <1>11, <1>12, <1>13, <1>14

LEMMA VerdictRecovers ==
    ASSUME ~DiskFails, Saved \/ Behind, TypeInv, NEW h \in Handlers,
           (\E passed \in BOOLEAN : VerifyReturns(h, passed))
             \/ (\E answer \in {"done", "error", "go_on"} : JudgeReturns(h, answer))
    PROVE  Saved' \/ Behind'
<1>1. Scheduled /\ pending \in Nat /\ queue \in Seq(Message) /\ loop \in LoopState
  BY DEF TypeInv, Scheduled, Surroundings
<1>2. ASSUME NEW passed \in BOOLEAN, VerifyReturns(h, passed) PROVE Saved' \/ Behind'
  <2> DEFINE l == [loop EXCEPT !.status = "running"]
  <2>1. l \in LoopState /\ l.status = "running"
    BY <1>1, ConstantTypes DEF LoopState
  <2>2. /\ finished(l, "verify_hit") \in LoopState /\ finished(l, "failed") \in LoopState
    BY <2>1, ConstantTypes, TurnEndTypes
  <2>3. /\ finished(l, "verify_hit").status = "done" /\ finished(l, "failed").status = "done"
    BY <2>1 DEF finished, LoopState
  <2> HIDE DEF l
  <2>4. CASE passed
    BY <1>1, <1>2, <2>2, <2>3, <2>4, ConcludeRecovers DEF VerifyReturns, l
  <2>5. CASE ~passed /\ roundsSpent(l)
    BY <1>1, <1>2, <2>2, <2>3, <2>5, ConcludeRecovers DEF VerifyReturns, l
  <2>6. CASE ~passed /\ ~roundsSpent(l)
    <3>1. NextDecision(h, l, turnActive)
      BY <1>2, <2>6 DEF VerifyReturns, l
    <3> QED BY <2>1, <3>1, NextDecisionRecovers
  <2> QED BY <2>4, <2>5, <2>6
<1>3. ASSUME NEW answer \in {"done", "error", "go_on"}, JudgeReturns(h, answer)
      PROVE  Saved' \/ Behind'
  <2>1. stop(loop, "until_hit") \in LoopState /\ stop(loop, "judge_error") \in LoopState
    BY <1>1, ConstantTypes, StopType
  <2>2. phase[h] # "verify"
    BY <1>3 DEF JudgeReturns
  <2>3. CASE answer = "done" \/ answer = "error"
    BY <1>1, <1>3, <2>1, <2>2, <2>3, ConcludeRecovers DEF JudgeReturns
  <2>4. CASE answer = "go_on"
    BY <1>1, <1>3, <2>2, <2>4, ArmRecovers DEF JudgeReturns
  <2> QED BY <2>3, <2>4
<1> QED BY <1>2, <1>3

LEMMA QuietRecovers ==
    ASSUME ~DiskFails, Recoverable, TypeInv,
           \/ \E h \in Handlers : HookPasses(h)
           \/ EngineAbsorbs \/ TimerFires \/ ResumeDelivers \/ Crash \/ Restart
    PROVE  Recoverable'
<1>1. ASSUME NEW h \in Handlers, HookPasses(h) PROVE Recoverable'
  <2>1. phase[h] = "hook" /\ UNCHANGED <<loop, disk>> /\ up' = up
    BY <1>1 DEF HookPasses, Alive
  <2>2. \A g \in Handlers : phase[g] = "verify" => phase'[g] = "verify"
    BY <1>1, <2>1 DEF HookPasses, TypeInv, Scheduled
  <2> QED BY <2>1, <2>2 DEF Recoverable, Saved, Behind
<1>2. CASE EngineAbsorbs
  BY <1>2 DEF EngineAbsorbs, Alive, Recoverable, Saved, Behind
<1>3. CASE TimerFires
  <2>1. CASE loop.status # "running"
    BY <1>3, <2>1 DEF TimerFires, Alive, Recoverable, Saved, Behind
  <2>2. CASE loop.status = "running"
    BY <1>3, <2>2, DeliverRecovers DEF TimerFires, Alive, Recoverable
  <2> QED BY <2>1, <2>2
<1>4. CASE ResumeDelivers
  <2>1. CASE loop.status # "running"
    BY <1>4, <2>1 DEF ResumeDelivers, Alive, Recoverable, Saved, Behind
  <2>2. CASE loop.status = "running"
    BY <1>4, <2>2, DeliverRecovers DEF ResumeDelivers, Alive, Recoverable
  <2> QED BY <2>1, <2>2
<1>5. CASE Crash
  BY <1>5 DEF Crash, Recoverable
<1>6. CASE Restart
  BY <1>6, LoadTwice DEF Restart, Recoverable, Saved
<1> QED BY <1>1, <1>2, <1>3, <1>4, <1>5, <1>6

LEMMA NextRecoverable ==
    ASSUME ~DiskFails, TypeInv, Recoverable, [Next]_vars PROVE Recoverable'
<1>1. CASE HostInput
  <2>1. up
    BY <1>1 DEF HostInput, UserPlain, UserText, UserStart, UserInterjects, UserUrgent,
                LoopPause, LoopResume, LoopStop, LoopBudget, LoopInject, Cancel,
                Receive, Alive
  <2> QED BY <1>1, <2>1, HostInputRecovers DEF Recoverable
<1>2. ASSUME NEW h \in Handlers, HandlerStep(h) PROVE Recoverable'
  <2>1. CASE HookPasses(h)
    BY <2>1, QuietRecovers
  <2>2. CASE TurnEnds(h)
    <3>1. up
      BY <2>2 DEF TurnEnds, TurnEndsOutsideLoop, TurnEndsHeld, TurnEndsPaused,
                  TurnEndsOverBudget, TurnEndsStalled, TurnEndsToVerify,
                  TurnEndsCompleted, TurnEndsNext, RoundOver, TurnOver, Alive
    <3> QED BY <2>2, <3>1, TurnEndsRecovers DEF Recoverable
  <2>3. CASE (\E passed \in BOOLEAN : VerifyReturns(h, passed))
               \/ (\E answer \in {"done", "error", "go_on"} : JudgeReturns(h, answer))
    <3>1. up
      BY <2>3 DEF VerifyReturns, JudgeReturns, Alive
    <3> QED BY <2>3, <3>1, VerdictRecovers DEF Recoverable
  <2> QED BY <1>2, <2>1, <2>2, <2>3 DEF HandlerStep
<1>3. CASE EngineAbsorbs \/ TimerFires \/ ResumeDelivers \/ Crash \/ Restart
  BY <1>3, QuietRecovers
<1>4. CASE UNCHANGED vars
  BY <1>4 DEF vars, Recoverable, Saved, Behind
<1> QED BY <1>1, <1>2, <1>3, <1>4 DEF Next

\* On a disk that does not fail, the file is at every moment worth the live record to a
\* --resume start, but for the round a running verification is about.
THEOREM RestartIsLossless ==
    ASSUME ~DiskFails PROVE Spec => []RestartLosesNothing
<1>1. TypeInv /\ Recoverable /\ [Next]_vars => TypeInv' /\ Recoverable'
  BY NextType, NextRecoverable
<1>2. Spec => [](TypeInv /\ Recoverable)
  BY <1>1, InitType, InitRecoverable, PTL DEF Spec
<1> QED BY <1>2, RecoverableImplies, PTL

(***************************************************************************)
(* What a step makes of the record.  Turn ends, verdicts, timers and       *)
(* commands first leave a record of their own, and then a message may be   *)
(* picked up: one that was queued, or the one just delivered.              *)
(***************************************************************************)

\* A message leaves the record alone, takes its wake-up, or begins a loop where none is active.
Picked(l, l2) ==
    \/ l2 = l
    \/ isActive(l) /\ l2 = markTurnStart(l)
    \/ ~isActive(l) /\ \E o \in Opts, who \in {"user", "payload"} : l2 = start(o, who)

LEMMA LaunchPicks ==
    ASSUME NEW h, NEW m \in Message, NEW l, NEW q, NEW active, Launch(h, m, l, q, active)
    PROVE  /\ Picked(l, loop')
           /\ m.kind \in {"plain", "text"} => loop' = l
           /\ isActive(l) => m.kind = "text" \/ loop' \in {l, markTurnStart(l)}
<1>1. m.opts \in Opts
  BY DEF Message
<1>2. loop' = IF m.kind = "text" THEN l ELSE Entered(l, m)
  BY DEF Launch
<1> QED BY <1>1, <1>2 DEF Entered, Picked

\* What lies in the queue decides: without a loop's message in it, the record stays.
LoopMessageIn(q) == \E i \in DOMAIN q : q[i].kind \in {"start", "next"}

LEMMA ConcludePicks ==
    ASSUME pending \in Nat, NEW h, NEW l, NEW q \in Seq(Message), NEW more \in {0, 1},
           NEW active, Conclude(h, l, q, more, active)
    PROVE  Picked(l, loop') /\ (~LoopMessageIn(q) => loop' = l)
<1> DEFINE waiting == [i \in 1..(pending + more) |-> Plain]
           all == q \o waiting
<1>1. waiting \in Seq(Message)
  BY PlainType
<1>2. all \in Seq(Message)
  BY <1>1
<1>3. CASE all = <<>>
  BY <1>3 DEF Conclude, Rest, Picked
<1>4. CASE all # <<>>
  <2>1. Launch(h, Head(all), l, Tail(all), active)
    BY <1>4 DEF Conclude
  <2>2. Head(all) \in Message /\ Head(all) = all[1]
    BY <1>2, <1>4, HeadTailProperties
  <2>3. ASSUME ~LoopMessageIn(q) PROVE Head(all).kind \in {"plain", "text"}
    <3>1. CASE q = <<>>
      <4>1. Len(waiting) = pending + more /\ all = waiting
        BY <1>1, <3>1
      <4>2. 1 \in 1..(pending + more)
        BY <1>2, <1>4, <4>1
      <4> QED BY <2>2, <4>1, <4>2 DEF Plain
    <3>2. CASE q # <<>>
      <4>1. 1 \in DOMAIN q /\ all[1] = q[1] /\ q[1] \in Message
        BY <1>1, <3>2
      <4> QED BY <2>2, <2>3, <4>1 DEF LoopMessageIn, Message
    <3> QED BY <3>1, <3>2
  <2> HIDE DEF all
  <2> QED BY <2>1, <2>2, <2>3, LaunchPicks
<1> QED BY <1>3, <1>4

\* The record a turn's end leaves, by the way onTurnEnd decides.
TurnLeaves(out, k) ==
    \/ ~isActive(loop) /\ k = loop
    \/ loop.status = "awaiting_approval" /\ k = held(accrued(loop, out))
    \/ loop.status = "pausing" /\ k = paused(counted(loop, out))
    \/ /\ loop.status \in {"running", "verifying"}
       /\ LET l == counted(loop, out)
          IN  \/ k \in {stop(l, "budget_exceeded"), stop(l, "no_progress"), escalated(l)}
              \/ l.done /\ k = [l EXCEPT !.status = "verifying"]
              \/ roundsSpent(l) /\ k = finished(l, "completed")
              \/ ~overBudget(l) /\ ~noProgress(l) /\ ~roundsSpent(l) /\ k \in {l, rearmed(l)}

LEMMA ArmPicks ==
    ASSUME TypeInv, NEW h, NEW l \in LoopState, NEW wait, NEW active, Arm(h, l, wait, active)
    PROVE  Picked(rearmed(l), loop')
<1>1. queue \in Seq(Message) /\ pending \in Nat /\ Payload(l) \in Message
  BY PayloadType DEF TypeInv, Scheduled, Surroundings
<1> DEFINE p == Payload(l)
<1>2. <<p>> \o queue \in Seq(Message)
  BY <1>1
<1>3. \/ Conclude(h, rearmed(l), queue, 0, active)
      \/ Conclude(h, rearmed(l), <<p>> \o queue, 0, active)
  BY DEF Arm
<1> HIDE DEF p
<1> QED BY <1>1, <1>2, <1>3, ConcludePicks

LEMMA NextDecisionPicks ==
    ASSUME TypeInv, NEW h, NEW l \in LoopState, NEW active, NextDecision(h, l, active)
    PROVE  \E k \in {l, rearmed(l)} : Picked(k, loop')
<1>1. CASE l.until
  BY <1>1 DEF NextDecision, Picked
<1>2. CASE ~l.until
  BY <1>2, ArmPicks DEF NextDecision
<1> QED BY <1>1, <1>2

LEMMA TurnEndsRecord ==
    ASSUME TypeInv, NEW h \in Handlers, TurnEnds(h)
    PROVE  \E out \in Outcome : \E k : TurnLeaves(out, k) /\ Picked(k, loop')
<1>1. PICK out :
        \/ TurnEndsOutsideLoop(h, out) \/ TurnEndsHeld(h, out) \/ TurnEndsPaused(h, out)
        \/ TurnEndsOverBudget(h, out) \/ TurnEndsStalled(h, out)
        \/ TurnEndsToVerify(h, out) \/ TurnEndsCompleted(h, out) \/ TurnEndsNext(h, out)
  BY DEF TurnEnds
<1>2. TurnOver(h, out)
  BY <1>1 DEF TurnEndsOutsideLoop, TurnEndsHeld, TurnEndsPaused, TurnEndsOverBudget,
              TurnEndsStalled, TurnEndsToVerify, TurnEndsCompleted, TurnEndsNext, RoundOver
<1>3. out \in Outcome
  BY <1>2 DEF TurnOver, Outcome, NullOutcome
<1> DEFINE l == counted(loop, out)
<1>4. /\ queue \in Seq(Message) /\ pending \in Nat /\ loop \in LoopState /\ l \in LoopState
  BY <1>3, CountedType DEF TypeInv, Scheduled, Surroundings
<1>5. ASSUME NEW k, NEW more \in {0, 1}, Conclude(h, k, queue, more, FALSE), TurnLeaves(out, k)
      PROVE  \E k2 : TurnLeaves(out, k2) /\ Picked(k2, loop')
  BY <1>4, <1>5, ConcludePicks
<1> SUFFICES \E k : TurnLeaves(out, k) /\ Picked(k, loop')
  BY <1>3
<1> HIDE DEF l
<1>6. CASE TurnEndsOutsideLoop(h, out)
  BY <1>5, <1>6 DEF TurnEndsOutsideLoop, TurnLeaves
<1>7. CASE TurnEndsHeld(h, out)
  BY <1>5, <1>7 DEF TurnEndsHeld, TurnLeaves
<1>8. CASE TurnEndsPaused(h, out)
  BY <1>5, <1>8 DEF TurnEndsPaused, TurnLeaves
<1>9. CASE TurnEndsOverBudget(h, out)
  BY <1>5, <1>9 DEF TurnEndsOverBudget, RoundOver, TurnLeaves, l
<1>10. CASE TurnEndsStalled(h, out)
  BY <1>5, <1>10 DEF TurnEndsStalled, RoundOver, TurnLeaves, l
<1>11. CASE TurnEndsToVerify(h, out)
  BY <1>11 DEF TurnEndsToVerify, RoundOver, TurnLeaves, Picked, l
<1>12. CASE TurnEndsCompleted(h, out)
  BY <1>5, <1>12 DEF TurnEndsCompleted, RoundOver, TurnLeaves, l
<1>13. CASE TurnEndsNext(h, out)
  <2>1. /\ loop.status \in {"running", "verifying"} /\ NextDecision(h, l, FALSE)
        /\ ~overBudget(l) /\ ~noProgress(l) /\ ~roundsSpent(l)
    BY <1>13 DEF TurnEndsNext, RoundOver, l
  <2>2. PICK k \in {l, rearmed(l)} : Picked(k, loop')
    BY <1>4, <2>1, NextDecisionPicks
  <2>3. TurnLeaves(out, k)
    BY <2>1, <2>2 DEF TurnLeaves, l
  <2> QED BY <2>2, <2>3
<1> QED BY <1>1, <1>6, <1>7, <1>8, <1>9, <1>10, <1>11, <1>12, <1>13

\* The record a verification or a judgement leaves.
VerdictLeaves(k) ==
    LET l == [loop EXCEPT !.status = "running"]
    IN  \/ k \in {finished(l, "verify_hit"), l, rearmed(l)}
        \/ roundsSpent(l) /\ k = finished(l, "failed")
        \/ k \in {stop(loop, "until_hit"), stop(loop, "judge_error"), rearmed(loop)}

LEMMA VerdictRecord ==
    ASSUME TypeInv, NEW h \in Handlers,
           (\E passed \in BOOLEAN : VerifyReturns(h, passed))
             \/ (\E answer \in {"done", "error", "go_on"} : JudgeReturns(h, answer))
    PROVE  \E k : VerdictLeaves(k) /\ Picked(k, loop')
<1>1. queue \in Seq(Message) /\ pending \in Nat /\ loop \in LoopState
  BY DEF TypeInv, Scheduled, Surroundings
<1>2. ASSUME NEW k, Conclude(h, k, queue, 0, turnActive), VerdictLeaves(k)
      PROVE  \E k2 : VerdictLeaves(k2) /\ Picked(k2, loop')
  BY <1>1, <1>2, ConcludePicks
<1>3. ASSUME NEW passed \in BOOLEAN, VerifyReturns(h, passed)
      PROVE  \E k : VerdictLeaves(k) /\ Picked(k, loop')
  <2> DEFINE l == [loop EXCEPT !.status = "running"]
  <2>1. l \in LoopState
    BY <1>1, TurnEndTypes, ConstantTypes
  <2>2. /\ VerdictLeaves(finished(l, "verify_hit"))
        /\ roundsSpent(l) => VerdictLeaves(finished(l, "failed"))
        /\ \A k \in {l, rearmed(l)} : VerdictLeaves(k)
    BY DEF VerdictLeaves
  <2> HIDE DEF l
  <2>3. CASE passed
    BY <1>2, <1>3, <2>2, <2>3 DEF VerifyReturns, l
  <2>4. CASE ~passed /\ roundsSpent(l)
    BY <1>2, <1>3, <2>2, <2>4 DEF VerifyReturns, l
  <2>5. CASE ~passed /\ ~roundsSpent(l)
    <3>1. NextDecision(h, l, turnActive)
      BY <1>3, <2>5 DEF VerifyReturns, l
    <3> QED BY <2>1, <2>2, <3>1, NextDecisionPicks
  <2> QED BY <2>3, <2>4, <2>5
<1>4. ASSUME NEW answer \in {"done", "error", "go_on"}, JudgeReturns(h, answer)
      PROVE  \E k : VerdictLeaves(k) /\ Picked(k, loop')
  <2>1. \A k \in {stop(loop, "until_hit"), stop(loop, "judge_error"), rearmed(loop)} : VerdictLeaves(k)
    BY DEF VerdictLeaves
  <2>2. CASE answer = "done" \/ answer = "error"
    BY <1>2, <1>4, <2>1, <2>2 DEF JudgeReturns
  <2>3. CASE answer = "go_on"
    BY <1>1, <1>4, <2>1, <2>3, ArmPicks DEF JudgeReturns
  <2> QED BY <2>2, <2>3
<1> QED BY <1>3, <1>4

\* The record a command or a message of the host leaves.
InputLeaves(k) ==
    \/ k \in {loop, pause(loop), resume(loop), stop(loop, "cancelled")}
    \/ \E cap \in Nat : k = setBudget(loop, cap)

LEMMA HostInputRecord ==
    ASSUME TypeInv, HostInput PROVE \E k : InputLeaves(k) /\ Picked(k, loop')
<1>1. ASSUME NEW m \in Message, Say(m) PROVE Picked(loop, loop')
  BY <1>1, LaunchPicks DEF Say, Picked
<1>2. \A k \in {loop, pause(loop), resume(loop), stop(loop, "cancelled")} : InputLeaves(k)
  BY DEF InputLeaves
<1>3. CASE UserPlain \/ UserText
  BY <1>1, <1>2, <1>3, PlainType DEF UserPlain, UserText
<1>4. CASE UserStart
  <2>1. PICK o \in LoopOpts : Say(StartMsg(o))
    BY <1>4 DEF UserStart
  <2>2. StartMsg(o) \in Message
    BY OptsAssumption DEF StartMsg, Message
  <2> QED BY <1>1, <1>2, <2>1, <2>2
<1>5. CASE UserInterjects \/ UserUrgent \/ LoopInject
  BY <1>2, <1>5 DEF UserInterjects, UserUrgent, LoopInject, Picked
<1>6. CASE LoopPause \/ LoopStop \/ Cancel
  BY <1>2, <1>6 DEF LoopPause, LoopStop, Cancel, Picked
<1>7. CASE LoopResume
  <2> DEFINE l == resume(loop)
             p == Payload(l)
  <2>1. l \in LoopState /\ p \in Message
    BY CommandTypes, PayloadType DEF TypeInv, Scheduled
  <2> HIDE DEF l, p
  <2>2. CASE ~isActive(loop) \/ turnActive
    BY <1>2, <1>7, <2>2 DEF LoopResume, Picked, l
  <2>3. CASE isActive(loop) /\ ~turnActive
    <3>1. PICK h \in Free : Launch(h, p, l, queue, FALSE)
      BY <1>7, <2>3 DEF LoopResume, l, p
    <3> QED BY <1>2, <2>1, <3>1, LaunchPicks DEF l
  <2> QED BY <2>2, <2>3
<1>8. CASE LoopBudget
  BY <1>8, CapsAssumption DEF LoopBudget, InputLeaves, Picked
<1> QED BY <1>3, <1>4, <1>5, <1>6, <1>7, <1>8 DEF HostInput

\* A timer and a resumed start deliver the next round of a running loop, and nothing else.
LEMMA TimedRecord ==
    ASSUME TypeInv, TimerFires \/ ResumeDelivers
    PROVE  loop' = loop \/ (loop.status = "running" /\ loop' = markTurnStart(loop))
<1>1. CASE loop.status # "running"
  BY <1>1 DEF TimerFires, ResumeDelivers
<1>2. CASE loop.status = "running"
  <2>1. isActive(loop) /\ Payload(loop) \in Message
    BY <1>2, PayloadType DEF isActive, ActiveStatus, TypeInv, Scheduled
  <2> DEFINE p == Payload(loop)
  <2>2. Deliver
    BY <1>2 DEF TimerFires, ResumeDelivers
  <2>3. CASE turnActive
    BY <2>2, <2>3 DEF Deliver
  <2>4. CASE ~turnActive
    <3>1. PICK h \in Free : Launch(h, p, loop, queue, FALSE)
      BY <2>2, <2>4 DEF Deliver
    <3>2. p.kind = "next"
      BY DEF Payload, NextMsg
    <3> HIDE DEF p
    <3> QED BY <1>2, <2>1, <3>1, <3>2, LaunchPicks DEF p
  <2> QED BY <2>3, <2>4
<1> QED BY <1>1, <1>2

\* Each of these records is one of the controller's.
LEMMA LeftTypes ==
    ASSUME TypeInv, NEW k,
           \/ \E out \in Outcome : TurnLeaves(out, k)
           \/ VerdictLeaves(k) \/ InputLeaves(k)
    PROVE  k \in LoopState
<1>1. loop \in LoopState
  BY DEF TypeInv, Scheduled
<1>2. ASSUME NEW out \in Outcome, TurnLeaves(out, k) PROVE k \in LoopState
  <2> DEFINE l == counted(loop, out)
  <2>1. accrued(loop, out) \in LoopState /\ l \in LoopState
    BY <1>1, CountedType
  <2> HIDE DEF l
  <2>2. /\ held(accrued(loop, out)) \in LoopState /\ paused(l) \in LoopState
        /\ stop(l, "budget_exceeded") \in LoopState /\ stop(l, "no_progress") \in LoopState
        /\ escalated(l) \in LoopState /\ [l EXCEPT !.status = "verifying"] \in LoopState
        /\ finished(l, "completed") \in LoopState /\ rearmed(l) \in LoopState
    BY <2>1, ConstantTypes, StopType, TurnEndTypes
  <2> QED BY <1>1, <1>2, <2>1, <2>2 DEF TurnLeaves, l
<1>3. CASE VerdictLeaves(k)
  <2> DEFINE l == [loop EXCEPT !.status = "running"]
  <2>1. l \in LoopState
    BY <1>1, ConstantTypes, TurnEndTypes
  <2> HIDE DEF l
  <2>2. /\ finished(l, "verify_hit") \in LoopState /\ finished(l, "failed") \in LoopState
        /\ rearmed(l) \in LoopState /\ rearmed(loop) \in LoopState
        /\ stop(loop, "until_hit") \in LoopState /\ stop(loop, "judge_error") \in LoopState
    BY <1>1, <2>1, ConstantTypes, StopType, TurnEndTypes
  <2> QED BY <1>3, <2>1, <2>2 DEF VerdictLeaves, l
<1>4. CASE InputLeaves(k)
  <2>1. stop(loop, "cancelled") \in LoopState /\ pause(loop) \in LoopState /\ resume(loop) \in LoopState
    BY <1>1, ConstantTypes, StopType, CommandTypes
  <2>2. \A cap \in Nat : setBudget(loop, cap) \in LoopState
    BY <1>1, CommandTypes
  <2> QED BY <1>1, <1>4, <2>1, <2>2 DEF InputLeaves
<1> QED BY <1>2, <1>3, <1>4

\* Every way the record can change while the process runs, in one statement.
LEMMA RunningRecord ==
    ASSUME TypeInv, [Next]_vars, ~Crash, ~Restart
    PROVE  \E k \in LoopState :
             /\ \/ \E out \in Outcome : TurnLeaves(out, k)
                \/ VerdictLeaves(k) /\ \E h \in Handlers : phase[h] \in {"verify", "judge"}
                \/ InputLeaves(k)
             /\ Picked(k, loop')
<1>1. ASSUME loop' = loop
      PROVE  \E k \in LoopState : InputLeaves(k) /\ Picked(k, loop')
  BY <1>1 DEF InputLeaves, Picked, TypeInv, Scheduled
<1>2. CASE HostInput
  BY <1>2, HostInputRecord, LeftTypes
<1>3. ASSUME NEW h \in Handlers, HandlerStep(h)
      PROVE  \E k \in LoopState :
               /\ \/ \E out \in Outcome : TurnLeaves(out, k)
                  \/ VerdictLeaves(k) /\ phase[h] \in {"verify", "judge"}
                  \/ InputLeaves(k)
               /\ Picked(k, loop')
  <2>1. CASE HookPasses(h)
    BY <1>1, <2>1 DEF HookPasses
  <2>2. CASE TurnEnds(h)
    BY <2>2, TurnEndsRecord, LeftTypes
  <2>3. CASE (\E passed \in BOOLEAN : VerifyReturns(h, passed))
               \/ (\E answer \in {"done", "error", "go_on"} : JudgeReturns(h, answer))
    <3>1. phase[h] \in {"verify", "judge"}
      BY <2>3 DEF VerifyReturns, JudgeReturns
    <3> QED BY <2>3, <3>1, VerdictRecord, LeftTypes
  <2> QED BY <1>3, <2>1, <2>2, <2>3 DEF HandlerStep
<1>4. CASE EngineAbsorbs \/ UNCHANGED vars
  BY <1>1, <1>4 DEF EngineAbsorbs, vars
<1>5. CASE TimerFires \/ ResumeDelivers
  <2>1. CASE loop' = loop
    BY <1>1, <2>1
  <2>2. CASE loop.status = "running" /\ loop' = markTurnStart(loop)
    BY <2>2 DEF InputLeaves, Picked, isActive, ActiveStatus, TypeInv, Scheduled
  <2> QED BY <1>5, <2>1, <2>2, TimedRecord
<1> QED BY <1>2, <1>3, <1>4, <1>5 DEF Next

(***************************************************************************)
(* A loop that is done for its round count has spent it.  No condition is  *)
(* needed: a verdict that arrives late still counts rounds on the current  *)
(* record, and a file that holds an ended loop is read as a fresh one.     *)
(***************************************************************************)

Earned(l) ==
    (l.status = "done" /\ l.endReason \in {"completed", "failed"}) => roundsSpent(l)

LEMMA EarnedIsEndIsEarned == EndIsEarned <=> Earned(loop)
BY DEF EndIsEarned, Earned, roundsSpent

LEMMA PickedEarned ==
    ASSUME NEW l \in LoopState, Earned(l), NEW l2, Picked(l, l2) PROVE Earned(l2)
<1>1. CASE isActive(l) /\ l2 = markTurnStart(l)
  BY <1>1 DEF isActive, ActiveStatus, markTurnStart, Earned, LoopState
<1>2. ASSUME NEW o \in Opts, NEW who, l2 = start(o, who) PROVE Earned(l2)
  BY <1>2 DEF start, freshState, Earned
<1> QED BY <1>1, <1>2 DEF Picked

LEMMA LeftEarned ==
    ASSUME TypeInv, Earned(loop), NEW k,
           \/ \E out \in Outcome : TurnLeaves(out, k)
           \/ VerdictLeaves(k) \/ InputLeaves(k)
    PROVE  Earned(k)
<1>1. loop \in LoopState
  BY DEF TypeInv, Scheduled
\* Only a loop with its rounds spent is finished for that reason.
<1>2. ASSUME NEW l \in LoopState, NEW r \in EndReason
      PROVE  /\ Earned(stop(l, r)) /\ Earned(escalated(l)) /\ Earned(paused(l))
             /\ Earned([l EXCEPT !.status = "verifying"]) /\ Earned([l EXCEPT !.status = "running"])
             /\ Earned(l) => Earned(rearmed(l)) /\ Earned(held(l))
             /\ roundsSpent(l) \/ r \notin {"completed", "failed"} => Earned(finished(l, r))
  <2>1. Earned(stop(l, r)) /\ Earned(escalated(l)) /\ Earned(paused(l))
    BY DEF stop, escalated, paused, Earned, LoopState
  <2>2. Earned([l EXCEPT !.status = "verifying"]) /\ Earned([l EXCEPT !.status = "running"])
    BY DEF Earned, LoopState
  <2>3. Earned(l) => Earned(rearmed(l)) /\ Earned(held(l))
    BY DEF rearmed, held, Earned, roundsSpent, LoopState
  <2>4. roundsSpent(l) \/ r \notin {"completed", "failed"} => Earned(finished(l, r))
    BY DEF finished, Earned, roundsSpent, LoopState
  <2> QED BY <2>1, <2>2, <2>3, <2>4
<1>3. ASSUME NEW out \in Outcome, TurnLeaves(out, k) PROVE Earned(k)
  <2> DEFINE l == counted(loop, out)
             a == accrued(loop, out)
  <2>1. a \in LoopState /\ l \in LoopState
    BY <1>1, CountedType
  <2>2. a.status = loop.status /\ l.status = loop.status
    BY <1>1 DEF accrued, counted, LoopState
  <2> HIDE DEF l, a
  <2>3. CASE ~isActive(loop) /\ k = loop
    BY <2>3
  <2>4. CASE loop.status = "awaiting_approval" /\ k = held(a)
    <3>1. Earned(a)
      BY <2>2, <2>4 DEF Earned
    <3> QED BY <1>2, <2>1, <2>4, <3>1, ConstantTypes
  <2>5. CASE loop.status = "pausing" /\ k = paused(l)
    BY <1>2, <2>1, <2>5, ConstantTypes
  <2>6. CASE k \in {stop(l, "budget_exceeded"), stop(l, "no_progress"), escalated(l),
                    [l EXCEPT !.status = "verifying"]}
    BY <1>2, <2>1, <2>6, ConstantTypes
  <2>7. CASE roundsSpent(l) /\ k = finished(l, "completed")
    BY <1>2, <2>1, <2>7, ConstantTypes
  <2>8. CASE loop.status \in {"running", "verifying"} /\ k \in {l, rearmed(l)}
    <3>1. Earned(l)
      BY <2>2, <2>8 DEF Earned
    <3> QED BY <1>2, <2>1, <2>8, <3>1, ConstantTypes
  <2> QED BY <1>3, <2>3, <2>4, <2>5, <2>6, <2>7, <2>8 DEF TurnLeaves, l, a
<1>4. CASE VerdictLeaves(k)
  <2> DEFINE l == [loop EXCEPT !.status = "running"]
  <2>1. l \in LoopState /\ Earned(l)
    BY <1>1, <1>2, ConstantTypes, TurnEndTypes
  <2> HIDE DEF l
  <2> QED BY <1>1, <1>2, <1>4, <2>1, ConstantTypes DEF VerdictLeaves, l
<1>5. CASE InputLeaves(k)
  <2>1. Earned(pause(loop))
    BY <1>1 DEF pause, Earned, LoopState
  <2>2. Earned(resume(loop))
    BY <1>1 DEF resume, Earned, TERMINAL, LoopState
  <2>3. \A cap \in Nat : Earned(setBudget(loop, cap))
    BY <1>1 DEF setBudget, Earned, roundsSpent, LoopState
  <2> QED BY <1>1, <1>2, <1>5, <2>1, <2>2, <2>3, ConstantTypes DEF InputLeaves
<1> QED BY <1>3, <1>4, <1>5

LEMMA NextEarned ==
    ASSUME TypeInv, EndIsEarned, [Next]_vars PROVE EndIsEarned'
<1>1. CASE Crash
  BY <1>1 DEF Crash, freshState, EndIsEarned
<1>2. CASE Restart
  BY <1>2 DEF Restart, load, freshState, TERMINAL, EndIsEarned
<1>3. CASE ~Crash /\ ~Restart
  BY <1>3, RunningRecord, LeftEarned, PickedEarned, EarnedIsEndIsEarned DEF Earned, EndIsEarned, roundsSpent
<1> QED BY <1>1, <1>2, <1>3

\* Whatever ends a loop "completed" or "failed" -- a turn, a verification that comes late, on
\* whatever record it then finds, or a restart -- the loop had a round count and has spent it.
THEOREM EndsAreEarned == Spec => []EndIsEarned
<1>1. Init => EndIsEarned
  <2>1. Init => loop = freshState
    BY Zenon DEF Init
  <2>2. freshState.status = "idle"
    BY DEF freshState
  <2> QED BY <2>1, <2>2 DEF EndIsEarned
<1>2. TypeInv /\ EndIsEarned /\ [Next]_vars => TypeInv' /\ EndIsEarned'
  BY NextType, NextEarned
<1> QED BY <1>1, <1>2, InitType, PTL DEF Spec

(***************************************************************************)
(* A loop that goes on after a round is within its limits, with            *)
(* verifications and judgements as well: onTurnEnd asks for the budget, the*)
(* progress and the rounds before it begins either.                        *)
(***************************************************************************)

WithinLimits(l) == ~overBudget(l) /\ ~roundsSpent(l) /\ ~noProgress(l)

\* What a step owes: a round that is counted, in a loop that goes on, is within the limits.
GoesOn(l, l2) == (l2.index # l.index /\ l2.status = "running") => WithinLimits(l2)

LEMMA PickedGoesOn ==
    ASSUME NEW l \in LoopState, NEW k \in LoopState, GoesOn(l, k), NEW l2, Picked(k, l2)
    PROVE  GoesOn(l, l2)
<1>1. CASE isActive(k) /\ l2 = markTurnStart(k)
  <2>1. /\ l2.index = k.index /\ l2.status = k.status /\ l2.cap = k.cap /\ l2.used = k.used
        /\ l2.count = k.count /\ l2.streak = k.streak
    BY <1>1 DEF markTurnStart, LoopState
  <2> QED BY <2>1 DEF GoesOn, WithinLimits, overBudget, roundsSpent, noProgress
<1>2. ASSUME NEW o \in Opts, NEW who, l2 = start(o, who) PROVE GoesOn(l, l2)
  BY <1>2, ThresholdAssumption
     DEF start, freshState, Opts, GoesOn, WithinLimits, overBudget, roundsSpent, noProgress
<1> QED BY <1>1, <1>2 DEF Picked

LEMMA LeftGoesOn ==
    ASSUME TypeInv, NEW k,
           \/ \E out \in Outcome : TurnLeaves(out, k)
           \/ VerdictLeaves(k) \/ InputLeaves(k)
    PROVE  GoesOn(loop, k)
<1>1. loop \in LoopState
  BY DEF TypeInv, Scheduled
<1>2. ASSUME NEW out \in Outcome, TurnLeaves(out, k) PROVE GoesOn(loop, k)
  <2> DEFINE l == counted(loop, out)
             a == accrued(loop, out)
  <2>1. a \in LoopState /\ l \in LoopState
    BY <1>1, CountedType
  <2>2. a.index = loop.index
    BY <1>1 DEF accrued, LoopState
  <2> HIDE DEF l, a
  <2>3. held(a).index = a.index
    BY <2>1 DEF held, LoopState
  <2>4. /\ paused(l).status # "running" /\ escalated(l).status # "running"
        /\ stop(l, "budget_exceeded").status # "running" /\ stop(l, "no_progress").status # "running"
        /\ [l EXCEPT !.status = "verifying"].status # "running"
        /\ finished(l, "completed").status # "running"
    BY <2>1 DEF paused, escalated, stop, finished, LoopState
  <2>5. ASSUME ~overBudget(l), ~noProgress(l), ~roundsSpent(l)
        PROVE  WithinLimits(l) /\ WithinLimits(rearmed(l))
    BY <2>1, <2>5 DEF rearmed, WithinLimits, overBudget, roundsSpent, noProgress, LoopState
  <2> QED BY <1>2, <2>2, <2>3, <2>4, <2>5 DEF TurnLeaves, GoesOn, l, a
<1>3. CASE VerdictLeaves(k)
  <2>1. k.index = loop.index
    BY <1>1, <1>3 DEF VerdictLeaves, finished, rearmed, stop, LoopState
  <2> QED BY <2>1 DEF GoesOn
<1>4. CASE InputLeaves(k)
  <2>1. k.index = loop.index
    BY <1>1, <1>4 DEF InputLeaves, pause, resume, stop, setBudget, LoopState
  <2> QED BY <2>1 DEF GoesOn
<1> QED BY <1>2, <1>3, <1>4

LEMMA NextGoesOn ==
    ASSUME TypeInv, [Next]_vars, up PROVE GoesOn(loop, loop')
<1>1. CASE Crash
  BY <1>1 DEF Crash, freshState, GoesOn
<1>2. ~Restart
  BY DEF Restart
<1>3. CASE ~Crash
  BY <1>2, <1>3, RunningRecord, LeftGoesOn, PickedGoesOn DEF TypeInv, Scheduled
<1> QED BY <1>1, <1>3

\* In no order of turns, commands, verdicts and timers does a loop go on after a round past
\* its budget, past its rounds, or over as many equal turns as stop it.
THEOREM RoundsStayWithinLimits == Spec => GoesOnWithinLimits
<1>1. TypeInv /\ TypeInv' /\ [Next]_vars =>
        [(loop'.index # loop.index /\ loop'.status = "running" /\ up) =>
            /\ loop'.cap > 0 => loop'.used <= loop'.cap
            /\ loop'.count > 0 => loop'.index < loop'.count
            /\ loop'.streak < Threshold]_vars
  <2> SUFFICES ASSUME TypeInv, TypeInv', [Next]_vars,
                      loop'.index # loop.index, loop'.status = "running", up
               PROVE  /\ loop'.cap > 0 => loop'.used <= loop'.cap
                      /\ loop'.count > 0 => loop'.index < loop'.count
                      /\ loop'.streak < Threshold
    OBVIOUS
  <2>1. loop' \in LoopState
    BY DEF TypeInv, Scheduled
  <2>2. WithinLimits(loop')
    BY NextGoesOn DEF GoesOn
  <2>3. /\ loop'.cap \in Nat /\ loop'.used \in Nat /\ loop'.count \in Nat /\ loop'.index \in Nat
        /\ loop'.streak \in Nat /\ Threshold \in Nat
    BY <2>1, ThresholdAssumption, BoundAssumption DEF LoopState
  <2> QED BY <2>2, <2>3 DEF WithinLimits, overBudget, roundsSpent, noProgress
<1> QED BY <1>1, InitType, NextType, PTL DEF Spec, GoesOnWithinLimits

(***************************************************************************)
(* When no turn ends in an await: for loops without done_when and without  *)
(* --until, no two turns overlap, and a wake-up is armed only in a loop    *)
(* that is going.  With such an await two turns can overlap, as the run    *)
(* LoopTwoTurns shows.  On this rest the stop button, the wait for a       *)
(* person, and the refinement of LoopLife.                                 *)
(***************************************************************************)

AwaitFree == \A o \in LoopOpts : ~o.done /\ ~o.until

(***************************************************************************)
(* The inductive invariant: nothing that would make a turn end in an await *)
(* is in the record, on disk or in the queue, so no handler is in one, and *)
(* turnActive is exact.                                                    *)
(***************************************************************************)

EasyLoop == {l \in LoopState : /\ ~l.done /\ ~l.until /\ l.status # "verifying"
                               /\ l.armed => l.status \in {"running", "pausing"}}

EasyMessage == {m \in Message : ~m.opts.done /\ ~m.opts.until}

NoAwait ==
    /\ loop \in EasyLoop /\ disk \in EasyLoop
    /\ queue \in Seq(EasyMessage)
    /\ \A h \in Handlers : phase[h] \notin {"verify", "judge"}

Turns == NoAwait /\ SingleTurn

LEMMA TurnsImply == Turns => SingleTurn /\ ArmedIsPending
BY DEF Turns, NoAwait, EasyLoop, ArmedIsPending

(***************************************************************************)
(* The controller's methods stay among such records.                       *)
(***************************************************************************)

LEMMA EasyFresh == freshState \in EasyLoop
BY FreshType DEF EasyLoop, freshState

LEMMA EasyStart ==
    ASSUME NEW o \in Opts, ~o.done, ~o.until, NEW who \in {"user", "payload"}
    PROVE  start(o, who) \in EasyLoop
<1>1. start(o, who) \in LoopState
  BY StartType
<1> QED BY <1>1 DEF EasyLoop, start, freshState

LEMMA EasyCommands ==
    ASSUME NEW l \in EasyLoop, NEW cap \in Nat, NEW r \in EndReason
    PROVE  /\ stop(l, r) \in EasyLoop
           /\ pause(l) \in EasyLoop
           /\ resume(l) \in EasyLoop
           /\ setBudget(l, cap) \in EasyLoop
           /\ markTurnStart(l) \in EasyLoop
           /\ load(l) \in EasyLoop
<1>1. l \in LoopState
  BY DEF EasyLoop
<1>2. stop(l, r) \in EasyLoop
  <2>1. stop(l, r) \in LoopState
    BY <1>1, StopType
  <2> QED BY <1>1, <2>1 DEF EasyLoop, stop, LoopState
<1>3. pause(l) \in EasyLoop
  <2>1. pause(l) \in LoopState
    BY <1>1, CommandTypes
  <2> QED BY <1>1, <2>1 DEF EasyLoop, pause, LoopState
<1>4. resume(l) \in EasyLoop
  <2>1. resume(l) \in LoopState
    BY <1>1, CommandTypes
  <2> QED BY <1>1, <2>1 DEF EasyLoop, resume, LoopState
<1>5. setBudget(l, cap) \in EasyLoop
  <2>1. setBudget(l, cap) \in LoopState
    BY <1>1, CommandTypes
  <2> QED BY <1>1, <2>1 DEF EasyLoop, setBudget, LoopState
<1>6. markTurnStart(l) \in EasyLoop
  <2>1. markTurnStart(l) \in LoopState
    BY <1>1, CommandTypes
  <2> QED BY <1>1, <2>1 DEF EasyLoop, markTurnStart, LoopState
<1>7. load(l) \in EasyLoop
  BY EasyFresh DEF load
<1> QED BY <1>2, <1>3, <1>4, <1>5, <1>6, <1>7

LEMMA EasyCounted ==
    ASSUME NEW l \in EasyLoop, NEW out \in Outcome
    PROVE  /\ accrued(l, out) \in EasyLoop /\ counted(l, out) \in EasyLoop
           /\ counted(l, out).status = l.status
<1>1. l \in LoopState
  BY DEF EasyLoop
<1>2. accrued(l, out) \in LoopState /\ counted(l, out) \in LoopState
  BY <1>1, CountedType
<1>3. \A f \in {"done", "until", "status", "armed"} : accrued(l, out)[f] = l[f]
  BY <1>1 DEF accrued, LoopState
<1>4. \A f \in {"done", "until", "status", "armed"} : counted(l, out)[f] = l[f]
  BY <1>1 DEF counted, accrued, LoopState
<1> QED BY <1>2, <1>3, <1>4 DEF EasyLoop

LEMMA EasyTurnEnds ==
    ASSUME NEW l \in EasyLoop, NEW r \in EndReason
    PROVE  /\ held(l) \in EasyLoop
           /\ paused(l) \in EasyLoop
           /\ escalated(l) \in EasyLoop
           /\ finished(l, r) \in EasyLoop
           /\ l.status = "running" => rearmed(l) \in EasyLoop
<1>1. l \in LoopState
  BY DEF EasyLoop
<1>2. /\ held(l) \in LoopState /\ paused(l) \in LoopState /\ escalated(l) \in LoopState
      /\ finished(l, r) \in LoopState /\ rearmed(l) \in LoopState
  BY <1>1, TurnEndTypes
<1>3. held(l) \in EasyLoop
  BY <1>1, <1>2 DEF EasyLoop, held, LoopState
<1>4. paused(l) \in EasyLoop
  BY <1>1, <1>2 DEF EasyLoop, paused, LoopState
<1>5. escalated(l) \in EasyLoop
  BY <1>1, <1>2 DEF EasyLoop, escalated, LoopState
<1>6. finished(l, r) \in EasyLoop
  BY <1>1, <1>2 DEF EasyLoop, finished, LoopState
<1>7. l.status = "running" => rearmed(l) \in EasyLoop
  BY <1>1, <1>2 DEF EasyLoop, rearmed, LoopState
<1> QED BY <1>3, <1>4, <1>5, <1>6, <1>7

LEMMA EasyMessages ==
    /\ Plain \in EasyMessage /\ Text \in EasyMessage
    /\ \A l \in EasyLoop : Payload(l) \in EasyMessage
    /\ AwaitFree => \A o \in LoopOpts : StartMsg(o) \in EasyMessage
<1>1. Plain \in EasyMessage /\ Text \in EasyMessage
  BY PlainType DEF EasyMessage, Plain, Text, NoOpts
<1>2. ASSUME NEW l \in EasyLoop PROVE Payload(l) \in EasyMessage
  <2>1. Payload(l) \in Message
    BY PayloadType DEF EasyLoop
  <2> QED BY <2>1 DEF EasyMessage, EasyLoop, Payload, NextMsg, nextPayloadOpts
<1>3. ASSUME AwaitFree, NEW o \in LoopOpts PROVE StartMsg(o) \in EasyMessage
  BY <1>3, OptsAssumption DEF AwaitFree, StartMsg, Message, EasyMessage
<1> QED BY <1>1, <1>2, <1>3

LEMMA EasyEntered ==
    ASSUME NEW l \in EasyLoop, NEW m \in EasyMessage PROVE Entered(l, m) \in EasyLoop
<1>1. m.opts \in Opts /\ ~m.opts.done /\ ~m.opts.until
  BY DEF EasyMessage, Message
<1>2. \A who \in {"user", "payload"} : start(m.opts, who) \in EasyLoop
  BY <1>1, EasyStart
<1>3. markTurnStart(l) \in EasyLoop
  BY ConstantTypes, EasyCommands
<1> QED BY <1>2, <1>3 DEF Entered

(***************************************************************************)
(* Starting the next turn, once no other handler is in one.                *)
(***************************************************************************)

Alone(h) == \A g \in Handlers \ {h} : ~InTurn(g)

LEMMA PersistEasy ==
    ASSUME disk \in EasyLoop, NEW l \in EasyLoop, Persist(l) \/ PersistIfChanged(l)
    PROVE  disk' \in EasyLoop
BY DEF Persist, PersistIfChanged

LEMMA LaunchTurns ==
    ASSUME Turns, Scheduled, NEW h \in Handlers, Alone(h), NEW m \in EasyMessage,
           NEW l \in EasyLoop, NEW q \in Seq(EasyMessage), Launch(h, m, l, q, FALSE)
    PROVE  Turns'
<1>1. PICK l2 \in EasyLoop : loop' = l2 /\ PersistIfChanged(l2)
  BY EasyEntered DEF Launch
<1>2. disk' \in EasyLoop
  BY <1>1, PersistEasy DEF Turns, NoAwait
<1>3. queue' \in Seq(EasyMessage)
  BY DEF Launch
<1>4. \A g \in Handlers \ {h} : phase'[g] = phase[g]
  BY DEF Launch, Scheduled
<1>5. CASE m.kind = "text"
  <2>1. phase'[h] = "idle"
    BY <1>5 DEF Launch, Scheduled
  <2>2. turnActive' = FALSE
    BY <1>5 DEF Launch
  <2> QED BY <1>1, <1>2, <1>3, <1>4, <2>1, <2>2
          DEF Turns, NoAwait, SingleTurn, Alone, InTurn
<1>6. CASE m.kind # "text"
  <2>1. phase'[h] = "hook"
    BY <1>6 DEF Launch, Scheduled
  <2>2. turnActive' = TRUE
    BY <1>6 DEF Launch
  <2> QED BY <1>1, <1>2, <1>3, <1>4, <2>1, <2>2
          DEF Turns, NoAwait, SingleTurn, Alone, InTurn
<1> QED BY <1>5, <1>6

LEMMA RestTurns ==
    ASSUME Turns, Scheduled, NEW h \in Handlers, Alone(h),
           NEW l \in EasyLoop, NEW q \in Seq(EasyMessage), Rest(h, l, q, FALSE)
    PROVE  Turns'
<1>1. loop' = l /\ disk' \in EasyLoop
  BY PersistEasy DEF Rest, Turns, NoAwait
<1>2. phase'[h] = "idle" /\ \A g \in Handlers \ {h} : phase'[g] = phase[g]
  BY DEF Rest, Scheduled
<1>3. queue' \in Seq(EasyMessage) /\ turnActive' = FALSE
  BY DEF Rest
<1> QED BY <1>1, <1>2, <1>3 DEF Turns, NoAwait, SingleTurn, Alone, InTurn

LEMMA ConcludeTurns ==
    ASSUME Turns, Scheduled, pending \in Nat, NEW h \in Handlers, Alone(h),
           NEW l \in EasyLoop, NEW q \in Seq(EasyMessage), NEW more \in {0, 1},
           Conclude(h, l, q, more, FALSE)
    PROVE  Turns'
<1> DEFINE all == q \o [i \in 1..(pending + more) |-> Plain]
<1>1. all \in Seq(EasyMessage)
  <2>1. [i \in 1..(pending + more) |-> Plain] \in Seq(EasyMessage)
    BY EasyMessages
  <2> QED BY <2>1
<1> HIDE DEF all
<1>2. CASE all = <<>>
  <2>1. Rest(h, l, all, FALSE)
    BY <1>2 DEF Conclude, all
  <2> QED BY <1>1, <2>1, RestTurns
<1>3. CASE all # <<>>
  <2>1. Head(all) \in EasyMessage /\ Tail(all) \in Seq(EasyMessage)
    BY <1>1, <1>3, HeadTailProperties
  <2>2. Launch(h, Head(all), l, Tail(all), FALSE)
    BY <1>3 DEF Conclude, all
  <2> QED BY <2>1, <2>2, LaunchTurns
<1> QED BY <1>2, <1>3

\* Between turns nobody is in one; in a turn only its own handler is.
LEMMA WhoIsAlone ==
    ASSUME Turns, NEW h \in Handlers, (~turnActive /\ h \in Free) \/ InTurn(h)
    PROVE  Alone(h)
BY DEF Turns, SingleTurn, Alone, Free, InTurn

(***************************************************************************)
(* The actions.                                                            *)
(***************************************************************************)

LEMMA SayTurns ==
    ASSUME Turns, TypeInv, NEW m \in EasyMessage, Say(m)
    PROVE  Turns'
<1>1. CASE turnActive
  <2>1. queue' \in Seq(EasyMessage)
    BY <1>1 DEF Say, Turns, NoAwait
  <2>2. UNCHANGED <<loop, disk, phase, turnActive>>
    BY <1>1 DEF Say
  <2> QED BY <2>1, <2>2 DEF Turns, NoAwait, SingleTurn, InTurn
<1>2. CASE ~turnActive
  <2>1. PICK h \in Free : Launch(h, m, loop, queue, FALSE)
    BY <1>2 DEF Say
  <2>2. h \in Handlers /\ Alone(h)
    BY <1>2, WhoIsAlone DEF Free
  <2> QED BY <2>1, <2>2, LaunchTurns DEF TypeInv, Turns, NoAwait
<1> QED BY <1>1, <1>2

LEMMA DeliverTurns ==
    ASSUME Turns, TypeInv, Deliver
    PROVE  Turns'
<1> DEFINE p == Payload(loop)
<1>1. p \in EasyMessage
  BY EasyMessages DEF Turns, NoAwait
<1> HIDE DEF p
<1>2. CASE turnActive
  <2>1. queue' = <<p>> \o queue
    BY <1>2 DEF Deliver, p
  <2>2. queue' \in Seq(EasyMessage)
    BY <1>1, <2>1 DEF Turns, NoAwait
  <2>3. UNCHANGED <<loop, disk, phase, turnActive>>
    BY <1>2 DEF Deliver
  <2> QED BY <2>2, <2>3 DEF Turns, NoAwait, SingleTurn, InTurn
<1>3. CASE ~turnActive
  <2>1. PICK h \in Free : Launch(h, p, loop, queue, FALSE)
    BY <1>3 DEF Deliver, p
  <2>2. h \in Handlers /\ Alone(h)
    BY <1>3, WhoIsAlone DEF Free
  <2> QED BY <1>1, <2>1, <2>2, LaunchTurns DEF TypeInv, Turns, NoAwait
<1> QED BY <1>2, <1>3

LEMMA HostInputTurns ==
    ASSUME AwaitFree, Turns, TypeInv, HostInput PROVE Turns'
<1>0. loop \in EasyLoop /\ disk \in EasyLoop /\ queue \in Seq(EasyMessage)
  BY DEF Turns, NoAwait
<1>1. CASE UserPlain \/ UserText
  BY <1>1, EasyMessages, SayTurns DEF UserPlain, UserText
<1>2. CASE UserStart
  <2>1. PICK o \in LoopOpts : Say(StartMsg(o))
    BY <1>2 DEF UserStart
  <2>2. StartMsg(o) \in EasyMessage
    BY EasyMessages
  <2> QED BY <2>1, <2>2, SayTurns
<1>3. CASE UserInterjects
  BY <1>3 DEF UserInterjects, Turns, NoAwait, SingleTurn, InTurn
<1>4. CASE UserUrgent
  <2>1. queue' \in Seq(EasyMessage)
    BY <1>4, EasyMessages DEF UserUrgent
  <2> QED BY <1>4, <2>1 DEF UserUrgent, Turns, NoAwait, SingleTurn, InTurn
\* A command that leaves the turns and the queue alone.
<1>5. ASSUME NEW l \in EasyLoop, loop' = l, Persist(l) \/ PersistIfChanged(l),
             queue' \in Seq(EasyMessage), UNCHANGED <<turnActive, phase>>
      PROVE  Turns'
  <2>1. disk' \in EasyLoop
    BY <1>0, <1>5, PersistEasy
  <2> QED BY <1>5, <2>1 DEF Turns, NoAwait, SingleTurn, InTurn
<1>6. CASE LoopPause
  <2>1. CASE isActive(loop)
    <3>1. pause(loop) \in EasyLoop
      BY <1>0, ConstantTypes, EasyCommands
    <3> QED BY <1>0, <1>5, <1>6, <2>1, <3>1 DEF LoopPause
  <2>2. CASE ~isActive(loop)
    <3>1. UNCHANGED <<loop, disk, queue, turnActive, phase>>
      BY <1>6, <2>2 DEF LoopPause, pause
    <3> QED BY <3>1 DEF Turns, NoAwait, SingleTurn, InTurn
  <2> QED BY <2>1, <2>2
<1>7. CASE LoopResume
  <2> DEFINE l == resume(loop)
             p == Payload(l)
  <2>1. l \in EasyLoop
    BY <1>0, ConstantTypes, EasyCommands
  <2>2. p \in EasyMessage
    BY <2>1, EasyMessages
  <2> HIDE DEF l, p
  <2>3. CASE ~isActive(loop)
    <3>1. loop' = l /\ PersistIfChanged(l) /\ UNCHANGED <<queue, turnActive, phase>>
      BY <1>7, <2>3 DEF LoopResume, l
    <3> QED BY <1>0, <1>5, <2>1, <3>1
  <2>4. CASE isActive(loop) /\ turnActive
    <3>1. /\ loop' = l /\ PersistIfChanged(l) /\ UNCHANGED <<turnActive, phase>>
          /\ queue' = <<p>> \o queue
      BY <1>7, <2>4 DEF LoopResume, l, p
    <3>2. queue' \in Seq(EasyMessage)
      BY <1>0, <2>2, <3>1
    <3> QED BY <1>5, <2>1, <3>1, <3>2
  <2>5. CASE isActive(loop) /\ ~turnActive
    <3>1. PICK h \in Free : Launch(h, p, l, queue, FALSE)
      BY <1>7, <2>5 DEF LoopResume, l, p
    <3>2. h \in Handlers /\ Alone(h)
      BY <2>5, WhoIsAlone DEF Free
    <3> QED BY <1>0, <2>1, <2>2, <3>1, <3>2, LaunchTurns DEF TypeInv
  <2> QED BY <2>3, <2>4, <2>5
<1>8. CASE LoopStop
  <2>1. stop(loop, "cancelled") \in EasyLoop
    BY <1>0, ConstantTypes, EasyCommands
  <2> QED BY <1>0, <1>5, <1>8, <2>1 DEF LoopStop
<1>9. CASE LoopBudget
  <2>1. PICK c \in BudgetCaps : loop' = setBudget(loop, c) /\ Persist(setBudget(loop, c))
    BY <1>9 DEF LoopBudget
  <2>2. setBudget(loop, c) \in EasyLoop
    BY <1>0, CapsAssumption, ConstantTypes, EasyCommands
  <2> QED BY <1>0, <1>5, <1>9, <2>1, <2>2 DEF LoopBudget
<1>10. CASE LoopInject
  BY <1>0, <1>5, <1>10 DEF LoopInject
<1>11. CASE Cancel
  <2> DEFINE l == IF isActive(loop) THEN stop(loop, "cancelled") ELSE loop
  <2>1. l \in EasyLoop
    BY <1>0, ConstantTypes, EasyCommands
  <2> HIDE DEF l
  <2>2. /\ loop' = l /\ PersistIfChanged(l) /\ UNCHANGED <<turnActive, phase>>
        /\ queue' = <<>>
    BY <1>11 DEF Cancel, l
  <2> QED BY <1>5, <2>1, <2>2
<1> QED BY <1>1, <1>2, <1>3, <1>4, <1>6, <1>7, <1>8, <1>9, <1>10, <1>11 DEF HostInput

LEMMA TurnEndsTurns ==
    ASSUME Turns, TypeInv, NEW h \in Handlers, TurnEnds(h)
    PROVE  Turns'
<1>1. PICK out :
        \/ TurnEndsOutsideLoop(h, out) \/ TurnEndsHeld(h, out) \/ TurnEndsPaused(h, out)
        \/ TurnEndsOverBudget(h, out) \/ TurnEndsStalled(h, out)
        \/ TurnEndsToVerify(h, out) \/ TurnEndsCompleted(h, out) \/ TurnEndsNext(h, out)
  BY DEF TurnEnds
<1>2. TurnOver(h, out)
  BY <1>1 DEF TurnEndsOutsideLoop, TurnEndsHeld, TurnEndsPaused, TurnEndsOverBudget,
              TurnEndsStalled, TurnEndsToVerify, TurnEndsCompleted, TurnEndsNext, RoundOver
<1>3. out \in Outcome /\ Alone(h)
  BY <1>2, WhoIsAlone DEF TurnOver, Outcome, NullOutcome, InTurn
<1> DEFINE l == counted(loop, out)
<1>4. loop \in EasyLoop /\ queue \in Seq(EasyMessage) /\ Scheduled /\ pending \in Nat
  BY DEF Turns, NoAwait, TypeInv, Surroundings
<1>5. accrued(loop, out) \in EasyLoop /\ l \in EasyLoop /\ l.status = loop.status
  BY <1>3, <1>4, EasyCounted
<1>6. /\ held(accrued(loop, out)) \in EasyLoop /\ paused(l) \in EasyLoop
      /\ escalated(l) \in EasyLoop /\ finished(l, "completed") \in EasyLoop
      /\ stop(l, "budget_exceeded") \in EasyLoop /\ stop(l, "no_progress") \in EasyLoop
  BY <1>5, ConstantTypes, EasyTurnEnds, EasyCommands
<1> HIDE DEF l
<1>7. ASSUME NEW k \in EasyLoop, NEW q \in Seq(EasyMessage), NEW more \in {0, 1},
             Conclude(h, k, q, more, FALSE)
      PROVE  Turns'
  BY <1>3, <1>4, <1>7, ConcludeTurns
<1>8. CASE TurnEndsOutsideLoop(h, out)
  BY <1>4, <1>7, <1>8 DEF TurnEndsOutsideLoop
<1>9. CASE TurnEndsHeld(h, out)
  BY <1>4, <1>6, <1>7, <1>9 DEF TurnEndsHeld
<1>10. CASE TurnEndsPaused(h, out)
  BY <1>4, <1>6, <1>7, <1>10 DEF TurnEndsPaused, l
<1>11. CASE TurnEndsOverBudget(h, out)
  BY <1>4, <1>6, <1>7, <1>11 DEF TurnEndsOverBudget, l
<1>12. CASE TurnEndsStalled(h, out)
  BY <1>4, <1>6, <1>7, <1>12 DEF TurnEndsStalled, l
<1>13. CASE TurnEndsToVerify(h, out)
  \* Only a loop with done_when verifies.
  BY <1>5, <1>13 DEF TurnEndsToVerify, EasyLoop, l
<1>14. CASE TurnEndsCompleted(h, out)
  BY <1>4, <1>6, <1>7, <1>14 DEF TurnEndsCompleted, l
<1>15. CASE TurnEndsNext(h, out)
  <2>1. ~l.until /\ l.status = "running"
    BY <1>4, <1>5, <1>15 DEF TurnEndsNext, RoundOver, EasyLoop
  <2>2. Arm(h, l, l.every, FALSE)
    BY <1>15, <2>1 DEF TurnEndsNext, NextDecision, l
  <2>3. rearmed(l) \in EasyLoop
    BY <1>5, <2>1, ConstantTypes, EasyTurnEnds
  <2>4. CASE l.every
    BY <1>4, <1>7, <2>2, <2>3, <2>4 DEF Arm
  <2>5. CASE ~l.every
    <3> DEFINE p == Payload(l)
    <3>1. <<p>> \o queue \in Seq(EasyMessage)
      BY <1>4, <1>5, EasyMessages
    <3>2. Conclude(h, rearmed(l), <<p>> \o queue, 0, FALSE)
      BY <2>2, <2>5 DEF Arm
    <3> HIDE DEF p
    <3> QED BY <1>7, <2>3, <3>1, <3>2
  <2> QED BY <2>4, <2>5
<1> QED BY <1>1, <1>8, <1>9, <1>10, <1>11, <1>12, <1>13, <1>14, <1>15

LEMMA QuietTurns ==
    ASSUME Turns, TypeInv,
           \/ \E h \in Handlers : HookPasses(h)
           \/ EngineAbsorbs \/ TimerFires \/ ResumeDelivers \/ Crash \/ Restart
    PROVE  Turns'
<1>1. ASSUME NEW h \in Handlers, HookPasses(h) PROVE Turns'
  <2>1. phase[h] = "hook" /\ phase'[h] = "turn"
    BY <1>1 DEF HookPasses, TypeInv, Scheduled
  <2>2. \A g \in Handlers \ {h} : phase'[g] = phase[g]
    BY <1>1 DEF HookPasses, TypeInv, Scheduled
  <2>3. UNCHANGED <<loop, disk, queue, turnActive>>
    BY <1>1 DEF HookPasses
  <2> QED BY <2>1, <2>2, <2>3 DEF Turns, NoAwait, SingleTurn, InTurn
<1>2. CASE EngineAbsorbs
  BY <1>2 DEF EngineAbsorbs, Turns, NoAwait, SingleTurn, InTurn
<1>3. CASE TimerFires
  <2>1. CASE loop.status # "running"
    BY <1>3, <2>1 DEF TimerFires, Turns, NoAwait, SingleTurn, InTurn
  <2>2. CASE loop.status = "running"
    BY <1>3, <2>2, DeliverTurns DEF TimerFires
  <2> QED BY <2>1, <2>2
<1>4. CASE ResumeDelivers
  <2>1. CASE loop.status # "running"
    BY <1>4, <2>1 DEF ResumeDelivers, Turns, NoAwait, SingleTurn, InTurn
  <2>2. CASE loop.status = "running"
    BY <1>4, <2>2, DeliverTurns DEF ResumeDelivers
  <2> QED BY <2>1, <2>2
<1>5. CASE Crash
  <2>1. loop' \in EasyLoop /\ disk' \in EasyLoop
    BY <1>5, EasyFresh DEF Crash, Turns, NoAwait
  <2>2. \A h \in Handlers : phase'[h] = "idle"
    BY <1>5 DEF Crash
  <2>3. turnActive' = FALSE /\ queue' = <<>>
    BY <1>5 DEF Crash
  <2> QED BY <2>1, <2>2, <2>3 DEF Turns, NoAwait, SingleTurn, InTurn
<1>6. CASE Restart
  <2>1. loop' \in EasyLoop
    BY <1>6, ConstantTypes, EasyCommands DEF Restart, Turns, NoAwait
  <2> QED BY <1>6, <2>1 DEF Restart, Turns, NoAwait, SingleTurn, InTurn
<1> QED BY <1>1, <1>2, <1>3, <1>4, <1>5, <1>6

LEMMA InitTurns == Init => Turns
<1> SUFFICES ASSUME Init PROVE Turns
  OBVIOUS
<1>1. loop \in EasyLoop /\ disk \in EasyLoop /\ queue \in Seq(EasyMessage)
  BY EasyFresh DEF Init
<1>2. \A h \in Handlers : phase[h] = "idle"
  BY DEF Init
<1>3. turnActive = FALSE
  BY DEF Init
<1> QED BY <1>1, <1>2, <1>3 DEF Turns, NoAwait, SingleTurn, InTurn

LEMMA NextTurns ==
    ASSUME AwaitFree, TypeInv, Turns, [Next]_vars PROVE Turns'
<1>1. CASE HostInput
  BY <1>1, HostInputTurns
<1>2. ASSUME NEW h \in Handlers, HandlerStep(h) PROVE Turns'
  <2>1. ~ \E passed \in BOOLEAN : VerifyReturns(h, passed)
    BY DEF VerifyReturns, Turns, NoAwait
  <2>2. ~ \E answer \in {"done", "error", "go_on"} : JudgeReturns(h, answer)
    BY DEF JudgeReturns, Turns, NoAwait
  <2> QED BY <1>2, <2>1, <2>2, QuietTurns, TurnEndsTurns DEF HandlerStep
<1>3. CASE EngineAbsorbs \/ TimerFires \/ ResumeDelivers \/ Crash \/ Restart
  BY <1>3, QuietTurns
<1>4. CASE UNCHANGED vars
  BY <1>4 DEF vars, Turns, NoAwait, SingleTurn, InTurn
<1> QED BY <1>1, <1>2, <1>3, <1>4 DEF Next

LEMMA AlwaysTurns == ASSUME AwaitFree PROVE Spec => [](TypeInv /\ Turns)
<1>1. TypeInv /\ Turns /\ [Next]_vars => TypeInv' /\ Turns'
  BY NextType, NextTurns
<1> QED BY <1>1, InitType, InitTurns, PTL DEF Spec

\* Without done_when and --until, one turn runs at a time, and turnActive says so, in any
\* order of messages, commands, timers, crashes and restarts.
THEOREM OneTurnAtATime == ASSUME AwaitFree PROVE Spec => []SingleTurn
BY AlwaysTurns, TurnsImply, PTL

\* Without done_when and --until, a wake-up is armed only in a loop that is going, so
\* the host's supervisor wakes no loop that has ended, is paused or waits for a person.
THEOREM WakeUpsArePending == ASSUME AwaitFree PROVE Spec => []ArmedIsPending
BY AlwaysTurns, TurnsImply, PTL

(***************************************************************************)
(* The stop button is final, for a disk that does not fail.  The           *)
(* conditions are needed: a cancel is overwritten by a verification or a   *)
(* judgement that ends after it, and a cancel whose write fails is undone  *)
(* by the next resume.                                                     *)
(***************************************************************************)

UserMessage == {m \in Message : m.kind # "next"}

(***************************************************************************)
(* The inductive invariant: after a cancel the loop is inactive, no round  *)
(* of it is queued, and no restart would find it active.                   *)
(***************************************************************************)

Stopped == halted => ~isActive(loop) /\ ~isActive(load(disk)) /\ queue \in Seq(UserMessage)

\* What a step of the running process has to show of Stopped.
StoppedLive == halted => ~isActive(loop) /\ queue \in Seq(UserMessage)

LEMMA StoppedImplies == Stopped => CancelIsFinal
BY DEF Stopped, CancelIsFinal

LEMMA InitStopped == Init => Stopped
BY Zenon DEF Init, Stopped

LEMMA LoadInactive == ASSUME NEW l, ~isActive(l) PROVE ~isActive(load(l))
BY DEF load, isActive, freshState, ActiveStatus

(***************************************************************************)
(* Starting a turn under a cancel.                                         *)
(***************************************************************************)

LEMMA LaunchStopped ==
    ASSUME NEW h, NEW m \in Message, NEW l, NEW q, NEW active, Launch(h, m, l, q, active),
           halted => ~isActive(l) /\ m \in UserMessage /\ q \in Seq(UserMessage)
    PROVE  StoppedLive'
<1> SUFFICES ASSUME halted' PROVE ~isActive(loop') /\ queue' \in Seq(UserMessage)
  BY DEF StoppedLive
<1>1. halted /\ m.kind # "start"
  BY DEF Launch
<1>2. m.kind \in {"plain", "text"}
  BY <1>1 DEF UserMessage, Message
<1>3. loop' = l /\ queue' = q
  BY <1>2 DEF Launch, Entered
<1> QED BY <1>1, <1>3

LEMMA ConcludeStopped ==
    ASSUME pending \in Nat, NEW h, NEW l, NEW q \in Seq(Message), NEW more \in {0, 1},
           NEW active, Conclude(h, l, q, more, active),
           halted => ~isActive(l) /\ q \in Seq(UserMessage)
    PROVE  StoppedLive'
<1> DEFINE waiting == [i \in 1..(pending + more) |-> Plain]
           all == q \o waiting
<1>1. Plain \in UserMessage /\ Plain \in Message
  BY PlainType DEF UserMessage, Plain
<1>2. waiting \in Seq(UserMessage) /\ waiting \in Seq(Message)
  BY <1>1
<1>3. all \in Seq(Message) /\ (halted => all \in Seq(UserMessage))
  BY <1>2, ConcatProperties
<1> HIDE DEF waiting, all
<1>4. CASE all = <<>>
  <2>1. Rest(h, l, all, active)
    BY <1>4 DEF Conclude, all, waiting
  <2> QED BY <1>3, <2>1 DEF Rest, StoppedLive
<1>5. CASE all # <<>>
  <2>1. Launch(h, Head(all), l, Tail(all), active)
    BY <1>5 DEF Conclude, all, waiting
  <2>2. Head(all) \in Message
    BY <1>3, <1>5, HeadTailProperties
  <2>3. halted => Head(all) \in UserMessage /\ Tail(all) \in Seq(UserMessage)
    BY <1>3, <1>5, HeadTailProperties
  <2> QED BY <2>1, <2>2, <2>3, LaunchStopped
<1> QED BY <1>4, <1>5

(***************************************************************************)
(* The actions of a running process.                                       *)
(***************************************************************************)

LEMMA SayStopped ==
    ASSUME TypeInv, StoppedLive, NEW m \in Message, m.kind # "next", Say(m)
    PROVE  StoppedLive'
<1>1. m \in UserMessage
  BY DEF UserMessage
<1>2. CASE turnActive
  <2>1. queue' = Append(queue, m) /\ UNCHANGED <<loop, halted>>
    BY <1>2 DEF Say
  <2> QED BY <1>1, <2>1 DEF StoppedLive
<1>3. CASE ~turnActive
  <2>1. PICK h \in Free : Launch(h, m, loop, queue, FALSE)
    BY <1>3 DEF Say
  <2> QED BY <1>1, <2>1, LaunchStopped DEF StoppedLive
<1> QED BY <1>2, <1>3

\* The next round is delivered for an active loop only: none after a cancel.
LEMMA DeliverStopped ==
    ASSUME TypeInv, ~halted, Deliver PROVE StoppedLive'
<1>1. CASE turnActive
  BY <1>1 DEF Deliver, StoppedLive
<1>2. CASE ~turnActive
  BY <1>2 DEF Deliver, Launch, StoppedLive
<1> QED BY <1>1, <1>2

LEMMA HostInputStopped ==
    ASSUME TypeInv, StoppedLive, HostInput PROVE StoppedLive'
<1>1. CASE UserPlain \/ UserText
  <2>1. Plain \in Message /\ Plain.kind # "next" /\ Text \in Message /\ Text.kind # "next"
    BY PlainType DEF Plain, Text
  <2> QED BY <1>1, <2>1, SayStopped DEF UserPlain, UserText
<1>2. CASE UserStart
  <2>1. PICK o \in LoopOpts : Say(StartMsg(o))
    BY <1>2 DEF UserStart
  <2>2. StartMsg(o) \in Message /\ StartMsg(o).kind # "next"
    BY OptsAssumption DEF StartMsg, Message
  <2> QED BY <2>1, <2>2, SayStopped
<1>3. CASE UserInterjects \/ LoopInject
  BY <1>3 DEF UserInterjects, LoopInject, StoppedLive
<1>4. CASE UserUrgent
  <2>1. Plain \in UserMessage
    BY PlainType DEF UserMessage, Plain
  <2> QED BY <1>4, <2>1 DEF UserUrgent, StoppedLive
<1>5. CASE LoopPause
  BY <1>5 DEF LoopPause, pause, StoppedLive
<1>6. CASE LoopResume
  <2>1. CASE ~isActive(loop)
    \* Only a person's resume of a paused loop leaves it active, and that ends the halt.
    <3>1. /\ loop' = resume(loop) /\ queue' = queue
          /\ halted' = (halted /\ loop.status \in TERMINAL)
      BY <1>6, <2>1 DEF LoopResume
    <3> QED BY <2>1, <3>1 DEF StoppedLive, resume
  <2>2. CASE isActive(loop) /\ turnActive
    BY <1>6, <2>2 DEF LoopResume, StoppedLive
  <2>3. CASE isActive(loop) /\ ~turnActive
    BY <1>6, <2>3 DEF LoopResume, Launch, StoppedLive
  <2> QED BY <2>1, <2>2, <2>3
<1>7. CASE LoopStop
  <2>1. loop' = stop(loop, "cancelled") /\ UNCHANGED <<queue, halted>>
    BY <1>7 DEF LoopStop
  <2>2. loop'.status = "cancelled"
    BY <2>1 DEF stop, TypeInv, Scheduled, LoopState
  <2> QED BY <2>1, <2>2 DEF StoppedLive, isActive, ActiveStatus
<1>8. CASE LoopBudget
  <2>1. PICK c \in BudgetCaps : loop' = setBudget(loop, c) /\ UNCHANGED <<queue, halted>>
    BY <1>8 DEF LoopBudget
  <2>2. loop'.status = loop.status
    BY <2>1 DEF setBudget, TypeInv, Scheduled, LoopState
  <2> QED BY <2>1, <2>2 DEF StoppedLive, isActive
<1>9. CASE Cancel
  <2>1. queue' \in Seq(UserMessage)
    BY <1>9 DEF Cancel
  <2>2. CASE isActive(loop)
    <3>1. loop' = stop(loop, "cancelled")
      BY <1>9, <2>2 DEF Cancel
    <3>2. loop'.status = "cancelled"
      BY <3>1 DEF stop, TypeInv, Scheduled, LoopState
    <3> QED BY <2>1, <3>2 DEF StoppedLive, isActive, ActiveStatus
  <2>3. CASE ~isActive(loop)
    BY <1>9, <2>1, <2>3 DEF Cancel, StoppedLive
  <2> QED BY <2>2, <2>3
<1> QED BY <1>1, <1>2, <1>3, <1>4, <1>5, <1>6, <1>7, <1>8, <1>9 DEF HostInput

LEMMA TurnEndsStopped ==
    ASSUME TypeInv, Turns, StoppedLive, NEW h \in Handlers, TurnEnds(h)
    PROVE  StoppedLive'
<1>1. pending \in Nat /\ queue \in Seq(Message)
  BY DEF TypeInv, Scheduled, Surroundings
<1>2. CASE isActive(loop)
  <2>1. ~halted
    BY <1>2 DEF StoppedLive
  <2>2. ~halted'
    <3>1. \A k, q, more : Conclude(h, k, q, more, FALSE) => ~halted'
      BY <2>1 DEF Conclude, Launch, Rest
    <3>2. \A k : NextDecision(h, k, FALSE) => ~halted'
      BY <2>1, <3>1 DEF NextDecision, Arm
    <3> QED BY <2>1, <3>1, <3>2
            DEF TurnEnds, TurnEndsOutsideLoop, TurnEndsHeld, TurnEndsPaused,
                TurnEndsOverBudget, TurnEndsStalled, TurnEndsToVerify,
                TurnEndsCompleted, TurnEndsNext
  <2> QED BY <2>2 DEF StoppedLive
<1>3. CASE ~isActive(loop)
  <2>1. PICK out : TurnEndsOutsideLoop(h, out)
    BY <1>3 DEF TurnEnds, TurnEndsHeld, TurnEndsPaused, TurnEndsOverBudget,
                TurnEndsStalled, TurnEndsToVerify, TurnEndsCompleted, TurnEndsNext,
                RoundOver, isActive, ActiveStatus
  <2> QED BY <1>1, <1>3, <2>1, ConcludeStopped DEF TurnEndsOutsideLoop, StoppedLive
<1> QED BY <1>2, <1>3

LEMMA TimedStopped ==
    ASSUME TypeInv, StoppedLive, TimerFires \/ ResumeDelivers PROVE StoppedLive'
<1>1. CASE loop.status # "running"
  BY <1>1 DEF TimerFires, ResumeDelivers, StoppedLive
<1>2. CASE loop.status = "running"
  <2>1. ~halted
    BY <1>2 DEF StoppedLive, isActive, ActiveStatus
  <2> QED BY <1>2, <2>1, DeliverStopped DEF TimerFires, ResumeDelivers
<1> QED BY <1>1, <1>2

LEMMA LiveStopped ==
    ASSUME TypeInv, Turns, StoppedLive,
           HostInput \/ (\E h \in Handlers : HandlerStep(h))
             \/ EngineAbsorbs \/ TimerFires \/ ResumeDelivers
    PROVE  StoppedLive' /\ up'
<1>1. CASE HostInput
  <2>1. up /\ up' = up
    BY <1>1 DEF HostInput, UserPlain, UserText, UserStart, UserInterjects, UserUrgent,
                LoopPause, LoopResume, LoopStop, LoopBudget, LoopInject, Cancel,
                Receive, Alive
  <2>2. up'
    BY <2>1, Zenon
  <2> QED BY <1>1, <2>2, HostInputStopped
<1>2. ASSUME NEW h \in Handlers, HandlerStep(h) PROVE StoppedLive' /\ up'
  <2>1. ~ \E passed \in BOOLEAN : VerifyReturns(h, passed)
    BY DEF VerifyReturns, Turns, NoAwait
  <2>2. ~ \E answer \in {"done", "error", "go_on"} : JudgeReturns(h, answer)
    BY DEF JudgeReturns, Turns, NoAwait
  <2>3. CASE HookPasses(h)
    BY <2>3 DEF HookPasses, Alive, StoppedLive
  <2>4. CASE TurnEnds(h)
    <3>1. up /\ up' = up
      BY <2>4 DEF TurnEnds, TurnEndsOutsideLoop, TurnEndsHeld, TurnEndsPaused,
                  TurnEndsOverBudget, TurnEndsStalled, TurnEndsToVerify,
                  TurnEndsCompleted, TurnEndsNext, RoundOver, TurnOver, Alive
    <3>2. up'
      BY <3>1, Zenon
    <3> QED BY <2>4, <3>2, TurnEndsStopped
  <2> QED BY <1>2, <2>1, <2>2, <2>3, <2>4 DEF HandlerStep
<1>3. CASE EngineAbsorbs
  BY <1>3 DEF EngineAbsorbs, Alive, StoppedLive
<1>4. CASE TimerFires \/ ResumeDelivers
  <2>1. up /\ up' = up
    BY <1>4 DEF TimerFires, ResumeDelivers, Alive
  <2>2. up'
    BY <2>1, Zenon
  <2> QED BY <1>4, <2>2, TimedStopped
<1> QED BY <1>1, <1>2, <1>3, <1>4

LEMMA NextStopped ==
    ASSUME TypeInv, Turns, Turns', Recoverable', Stopped, [Next]_vars PROVE Stopped'
<1>1. StoppedLive
  BY DEF Stopped, StoppedLive
<1>2. CASE HostInput \/ (\E h \in Handlers : HandlerStep(h))
             \/ EngineAbsorbs \/ TimerFires \/ ResumeDelivers
  <2>1. StoppedLive' /\ up'
    BY <1>1, <1>2, LiveStopped
  <2>2. ~Behind'
    BY DEF Behind, Turns, NoAwait, EasyLoop
  <2>3. load(disk') = load(loop')
    BY <2>1, <2>2 DEF Recoverable, Saved
  <2> QED BY <2>1, <2>3, LoadInactive DEF Stopped, StoppedLive
<1>3. CASE Crash
  <2>1. loop'.status = "idle" /\ queue' = <<>> /\ UNCHANGED <<disk, halted>>
    BY <1>3 DEF Crash, freshState
  <2>2. queue' \in Seq(UserMessage)
    BY <2>1
  <2> QED BY <2>1, <2>2 DEF Stopped, isActive, ActiveStatus
<1>4. CASE Restart
  BY <1>4 DEF Restart, Stopped
<1>5. CASE UNCHANGED vars
  BY <1>5 DEF vars, Stopped
<1> QED BY <1>2, <1>3, <1>4, <1>5 DEF Next

\* After the stop button only a person sets a loop going again: no queued round, timer,
\* running turn, crash or restart does.
THEOREM CancelStays ==
    ASSUME AwaitFree, ~DiskFails PROVE Spec => []CancelIsFinal
<1>1. TypeInv /\ Turns /\ Recoverable /\ Stopped /\ [Next]_vars
        => TypeInv' /\ Turns' /\ Recoverable' /\ Stopped'
  BY NextType, NextTurns, NextRecoverable, NextStopped
<1>2. Spec => [](TypeInv /\ Turns /\ Recoverable /\ Stopped)
  BY <1>1, InitType, InitTurns, InitRecoverable, InitStopped, PTL DEF Spec
<1> QED BY <1>2, StoppedImplies, PTL

(***************************************************************************)
(* A loop that waits for a person goes on waiting, for loops without       *)
(* done_when and --until: a verdict would set the status to "running"      *)
(* without a look at it.                                                   *)
(***************************************************************************)

\* While the process is down there is no live record.
Down == ~up => loop = freshState

LEMMA LiveOrDown ==
    ASSUME TypeInv, [Next]_vars
    PROVE  (up /\ up') \/ Crash \/ Restart \/ UNCHANGED vars
<1>1. CASE HostInput \/ EngineAbsorbs \/ TimerFires \/ ResumeDelivers
  <2>1. up /\ up' = up
    BY <1>1 DEF HostInput, UserPlain, UserText, UserStart, UserInterjects, UserUrgent,
                LoopPause, LoopResume, LoopStop, LoopBudget, LoopInject, Cancel,
                Receive, EngineAbsorbs, TimerFires, ResumeDelivers, Alive
  <2> QED BY <2>1, Zenon
<1>2. ASSUME NEW h \in Handlers, HandlerStep(h) PROVE up /\ up'
  <2>1. up /\ up' = up
    BY <1>2 DEF HandlerStep, HookPasses, TurnEnds, TurnEndsOutsideLoop, TurnEndsHeld,
                TurnEndsPaused, TurnEndsOverBudget, TurnEndsStalled, TurnEndsToVerify,
                TurnEndsCompleted, TurnEndsNext, RoundOver, TurnOver, VerifyReturns,
                JudgeReturns, Alive
  <2> QED BY <2>1, Zenon
<1> QED BY <1>1, <1>2 DEF Next

LEMMA NextDown == ASSUME TypeInv, Down, [Next]_vars PROVE Down'
<1>1. CASE up /\ up'
  BY <1>1 DEF Down
<1>2. CASE Crash
  BY <1>2 DEF Crash, Down
<1>3. CASE Restart
  <2>1. up'
    BY <1>3, Zenon DEF Restart
  <2> QED BY <2>1 DEF Down
<1>4. CASE UNCHANGED vars
  BY <1>4 DEF vars, Down
<1> QED BY <1>1, <1>2, <1>3, <1>4, LiveOrDown

\* What a step owes a loop that waits.
GoesOnWaiting ==
    /\ loop.status = "awaiting_approval" => loop'.status = "awaiting_approval"
    /\ loop.status \in {"pausing", "paused"} /\ ~LoopMessageWaits =>
         loop'.status \in {"pausing", "paused"}

LEMMA TurnEndsWaits ==
    ASSUME TypeInv, NEW h \in Handlers, TurnEnds(h) PROVE GoesOnWaiting
<1>1. loop \in LoopState /\ queue \in Seq(Message) /\ pending \in Nat
  BY DEF TypeInv, Scheduled, Surroundings
<1>2. CASE loop.status = "awaiting_approval"
  <2>0. PICK out \in Outcome : \E k : TurnLeaves(out, k) /\ Picked(k, loop')
    BY TurnEndsRecord
  <2>1. PICK k : TurnLeaves(out, k) /\ Picked(k, loop')
    BY <2>0
  <2>2. k = held(accrued(loop, out))
    BY <1>2, <2>1 DEF TurnLeaves, isActive, ActiveStatus
  <2>3. k \in LoopState
    BY <2>1, LeftTypes
  <2>4. k.status = "awaiting_approval"
    BY <1>1, <1>2, <2>2 DEF held, accrued, LoopState
  <2>5. loop' \in {k, markTurnStart(k)}
    BY <2>1, <2>4 DEF Picked, isActive, ActiveStatus
  <2>6. markTurnStart(k).status = k.status
    BY <2>3 DEF markTurnStart, LoopState
  <2> QED BY <1>2, <2>4, <2>5, <2>6 DEF GoesOnWaiting
<1>3. CASE loop.status \in {"pausing", "paused"} /\ ~LoopMessageWaits
  <2>1. ~LoopMessageIn(queue)
    BY <1>3 DEF LoopMessageWaits, LoopMessageIn
  <2>2. PICK out : TurnEndsOutsideLoop(h, out) \/ TurnEndsPaused(h, out)
    BY <1>3 DEF TurnEnds, TurnEndsHeld, TurnEndsOverBudget, TurnEndsStalled, TurnEndsToVerify,
                TurnEndsCompleted, TurnEndsNext, RoundOver
  <2>3. PICK k \in {loop, paused(counted(loop, out))} : Conclude(h, k, queue, 0, FALSE)
    BY <2>2 DEF TurnEndsOutsideLoop, TurnEndsPaused
  <2>4. loop' = k
    BY <1>1, <2>1, <2>3, ConcludePicks
  <2>5. out \in Outcome
    <3>1. TurnOver(h, out)
      BY <2>2 DEF TurnEndsOutsideLoop, TurnEndsPaused
    <3> QED BY <3>1 DEF TurnOver, Outcome, NullOutcome
  <2>6. paused(counted(loop, out)).status = "paused"
    BY <1>1, <2>5, CountedType DEF paused, LoopState
  <2> QED BY <1>3, <2>3, <2>4, <2>6 DEF GoesOnWaiting
<1> QED BY <1>2, <1>3 DEF GoesOnWaiting

LEMMA QuietWaits ==
    ASSUME TypeInv, Turns, Down, [Next]_vars, Quiet PROVE GoesOnWaiting
<1>1. CASE loop' = loop
  BY <1>1 DEF GoesOnWaiting
<1>2. ~HostInput
  <2>1. HostInput => inputs' = inputs + 1
    BY DEF HostInput, UserPlain, UserText, UserStart, UserInterjects, UserUrgent, LoopPause,
           LoopResume, LoopStop, LoopBudget, LoopInject, Cancel, Receive
  <2> QED BY <2>1 DEF Quiet, TypeInv, Surroundings
<1>3. ASSUME NEW h \in Handlers, HandlerStep(h) PROVE GoesOnWaiting
  <2>1. ~ \E passed \in BOOLEAN : VerifyReturns(h, passed)
    BY DEF VerifyReturns, Turns, NoAwait
  <2>2. ~ \E answer \in {"done", "error", "go_on"} : JudgeReturns(h, answer)
    BY DEF JudgeReturns, Turns, NoAwait
  <2> QED BY <1>1, <1>3, <2>1, <2>2, TurnEndsWaits DEF HandlerStep, HookPasses
<1>4. CASE EngineAbsorbs \/ UNCHANGED vars
  BY <1>1, <1>4 DEF EngineAbsorbs, vars
<1>5. CASE TimerFires \/ ResumeDelivers
  BY <1>5, TimedRecord DEF GoesOnWaiting
<1>6. ~Crash
  BY Zenon DEF Crash, Quiet
<1>7. CASE Restart
  <2>1. loop = freshState
    BY <1>7, Zenon DEF Restart, Down
  <2>2. loop.status = "idle"
    BY <2>1 DEF freshState
  <2> QED BY <2>2 DEF GoesOnWaiting
<1> QED BY <1>2, <1>3, <1>4, <1>5, <1>6, <1>7 DEF Next

\* A loop that waits for approval, or was asked to pause, is set going by a person's input or
\* by a loop's message that had been waiting: by no timer, turn end or restart.
THEOREM WaitingLoopsWait == ASSUME AwaitFree PROVE Spec => WaitsForPerson
<1>1. TypeInv /\ Turns /\ Down /\ [Next]_vars => TypeInv' /\ Turns' /\ Down'
  BY NextType, NextTurns, NextDown
<1>2. Init => Down
  BY Zenon DEF Init, Down
<1>3. TypeInv /\ Turns /\ Down /\ [Next]_vars =>
        [Quiet =>
           /\ loop.status = "awaiting_approval" => loop'.status = "awaiting_approval"
           /\ loop.status \in {"pausing", "paused"} /\ ~LoopMessageWaits =>
                loop'.status \in {"pausing", "paused"}]_vars
  BY QuietWaits DEF GoesOnWaiting
<1> QED BY <1>1, <1>2, <1>3, InitType, InitTurns, PTL DEF Spec, WaitsForPerson

(***************************************************************************)
(* KernelLoop implements LoopLife, for loops without done_when and --until *)
(* and a disk that does not fail.  Seen through `view`, every step of the  *)
(* running kernel is one of LoopLife's or a stutter, a crash forgets at    *)
(* most a loop that is over, and a restart is a stutter.                   *)
(***************************************************************************)

LEMMA Stages ==
    ASSUME NEW l
    PROVE  /\ l.status = "idle" => stageOf(l) = "off"
           /\ l.status = "running" => stageOf(l) = "going"
           /\ l.status \in {"pausing", "paused", "awaiting_approval", "verifying"} =>
                stageOf(l) = "waiting"
           /\ l.status \in TERMINAL => stageOf(l) = "over"
BY DEF stageOf, TERMINAL

\* What of a record LoopLife sees.
SameLife(l, l2) == stageOf(l2) = stageOf(l) /\ l2.index = l.index /\ l2.count = l.count

After(n) == IF n < MaxIndex THEN n + 1 ELSE n

\* LoopLife's actions, between two records.
LifeStep(l, l2) ==
    \/ SameLife(l, l2)
    \/ stageOf(l2) = "going" /\ l2.index = 0 /\ l2.count \in Nat
    \/ /\ stageOf(l) = "going" /\ stageOf(l2) = "going"
       /\ l2.index = After(l.index) /\ l2.count = l.count /\ (l.count > 0 => l2.index < l.count)
    \/ /\ stageOf(l) \in {"going", "waiting"} /\ stageOf(l2) = "waiting"
       /\ l2.index \in {l.index, After(l.index)} /\ l2.count = l.count
    \/ /\ stageOf(l) \in {"waiting", "off"} /\ stageOf(l2) = "going"
       /\ l2.index = l.index /\ l2.count = l.count
    \/ /\ stageOf(l2) = "over"
       /\ l2.index \in {l.index, After(l.index)} /\ l2.count = l.count
    \/ stageOf(l) = "over" /\ stageOf(l2) = "off" /\ l2.index = 0 /\ l2.count = 0

LEMMA LifeSteps ==
    ASSUME LifeStep(view, view') PROVE [Life!LifeNext]_(Life!lifeVars)
BY DEF LifeStep, SameLife, After, Life!LifeNext, Life!lifeVars, Life!Begin, Life!Round, Life!Wait,
       Life!Release, Life!End, Life!Forget, Life!NextRound

LEMMA PickedLife ==
    ASSUME NEW l, NEW k \in LoopState, LifeStep(l, k), NEW l2, Picked(k, l2)
    PROVE  LifeStep(l, l2)
<1>1. CASE l2 = k
  BY <1>1
<1>2. CASE l2 = markTurnStart(k)
  <2>1. l2.status = k.status /\ l2.index = k.index /\ l2.count = k.count
    BY <1>2 DEF markTurnStart, LoopState
  <2>2. stageOf(l2) = stageOf(k)
    BY <2>1 DEF stageOf
  <2> QED BY <2>1, <2>2 DEF LifeStep, SameLife
<1>3. ASSUME NEW o \in Opts, NEW who, l2 = start(o, who) PROVE LifeStep(l, l2)
  <2>1. l2.status = "running" /\ l2.index = 0 /\ l2.count \in Nat
    BY <1>3 DEF start, freshState, Opts
  <2> QED BY <2>1, Stages DEF LifeStep
<1> QED BY <1>1, <1>2, <1>3 DEF Picked

\* A counted round is the next one, and nothing else that LoopLife sees.
LEMMA CountedLife ==
    ASSUME NEW l \in LoopState, NEW out \in Outcome
    PROVE  /\ counted(l, out).index = After(l.index)
           /\ counted(l, out).count = l.count /\ counted(l, out).status = l.status
           /\ SameLife(l, accrued(l, out))
<1>1. /\ counted(l, out).index = Upto(l.index + 1, MaxIndex)
      /\ counted(l, out).count = l.count /\ counted(l, out).status = l.status
  BY DEF counted, accrued, LoopState
<1>2. Upto(l.index + 1, MaxIndex) = After(l.index)
  BY BoundAssumption DEF Upto, After, LoopState
<1>3. /\ accrued(l, out).index = l.index /\ accrued(l, out).count = l.count
      /\ accrued(l, out).status = l.status
  BY DEF accrued, LoopState
<1> QED BY <1>1, <1>2, <1>3 DEF SameLife, stageOf

LEMMA TurnLeavesLife ==
    ASSUME TypeInv, Turns, NEW out \in Outcome, NEW k, TurnLeaves(out, k)
    PROVE  LifeStep(loop, k)
<1> DEFINE l == counted(loop, out)
           a == accrued(loop, out)
<1>1. loop \in LoopState /\ loop \in EasyLoop /\ l \in LoopState /\ a \in LoopState
  BY CountedType DEF TypeInv, Scheduled, Turns, NoAwait
<1>2. /\ l.index = After(loop.index) /\ l.count = loop.count /\ l.status = loop.status
      /\ SameLife(loop, a) /\ a.status = loop.status /\ ~l.done
  BY <1>1, CountedLife, EasyCounted DEF EasyLoop, accrued, LoopState
<1> HIDE DEF l, a
<1>3. CASE k = loop
  BY <1>3 DEF LifeStep, SameLife
<1>4. CASE loop.status = "awaiting_approval" /\ k = held(a)
  <2>1. k.status = a.status /\ k.index = a.index /\ k.count = a.count
    BY <1>1, <1>4 DEF held, LoopState
  <2> QED BY <1>2, <2>1 DEF LifeStep, SameLife, stageOf
<1>5. CASE loop.status = "pausing" /\ k = paused(l)
  <2>1. k.status = "paused" /\ k.index = l.index /\ k.count = l.count
    BY <1>1, <1>5 DEF paused, LoopState
  <2> QED BY <1>2, <1>5, <2>1, Stages DEF LifeStep
<1>6. CASE loop.status \in {"running", "verifying"} /\ k = escalated(l)
  <2>1. k.status = "awaiting_approval" /\ k.index = l.index /\ k.count = l.count
    BY <1>1, <1>6 DEF escalated, LoopState
  <2> QED BY <1>2, <1>6, <2>1, Stages DEF LifeStep
<1>7. CASE k \in {stop(l, "budget_exceeded"), stop(l, "no_progress"), finished(l, "completed")}
  <2>1. k.status \in TERMINAL /\ k.index = l.index /\ k.count = l.count
    BY <1>1, <1>7 DEF stop, finished, TERMINAL, LoopState
  <2> QED BY <1>2, <2>1, Stages DEF LifeStep
<1>8. CASE /\ loop.status \in {"running", "verifying"} /\ ~roundsSpent(l) /\ k \in {l, rearmed(l)}
  <2>1. loop.status = "running"
    BY <1>1, <1>8 DEF EasyLoop
  <2>2. k.status = l.status /\ k.index = l.index /\ k.count = l.count
    BY <1>1, <1>8 DEF rearmed, LoopState
  <2>3. l.count > 0 => l.index < l.count
    BY <1>1, <1>8, BoundAssumption DEF roundsSpent, LoopState
  <2> QED BY <1>2, <2>1, <2>2, <2>3, Stages DEF LifeStep
<1> QED BY <1>2, <1>3, <1>4, <1>5, <1>6, <1>7, <1>8 DEF TurnLeaves, l, a

LEMMA InputLeavesLife ==
    ASSUME TypeInv, Turns, NEW k, InputLeaves(k) PROVE LifeStep(loop, k)
<1>1. loop \in LoopState /\ loop.status # "verifying"
  BY DEF TypeInv, Scheduled, Turns, NoAwait, EasyLoop
<1>2. CASE k = loop
  BY <1>2 DEF LifeStep, SameLife
<1>3. CASE isActive(loop) /\ k = pause(loop)
  <2>1. k.status = "pausing" /\ k.index = loop.index /\ k.count = loop.count
    BY <1>1, <1>3 DEF pause, LoopState
  <2> QED BY <1>3, <2>1, Stages DEF LifeStep, isActive, ActiveStatus
<1>4. CASE loop.status \notin TERMINAL /\ k = resume(loop)
  <2>1. k.status = "running" /\ k.index = loop.index /\ k.count = loop.count
    BY <1>1, <1>4 DEF resume, LoopState
  <2>2. loop.status \in {"idle", "running", "pausing", "paused", "awaiting_approval"}
    BY <1>1, <1>4 DEF LoopState, Status, ActiveStatus
  <2> QED BY <2>1, <2>2, Stages DEF LifeStep, SameLife
<1>5. CASE k = stop(loop, "cancelled")
  <2>1. k.status \in TERMINAL /\ k.index = loop.index /\ k.count = loop.count
    BY <1>1, <1>5 DEF stop, TERMINAL, LoopState
  <2> QED BY <2>1, Stages DEF LifeStep
<1>6. ASSUME NEW cap \in Nat, k = setBudget(loop, cap) PROVE LifeStep(loop, k)
  <2>1. k.status = loop.status /\ k.index = loop.index /\ k.count = loop.count
    BY <1>1, <1>6 DEF setBudget, LoopState
  <2> QED BY <2>1 DEF LifeStep, SameLife, stageOf
<1> QED BY <1>2, <1>3, <1>4, <1>5, <1>6 DEF InputLeaves, pause, resume

LEMMA NextLife ==
    ASSUME TypeInv, Turns, Recoverable, [Next]_vars PROVE [Life!LifeNext]_(Life!lifeVars)
<1>1. CASE up /\ up' /\ ~Crash /\ ~Restart
  <2>1. PICK k \in LoopState :
           /\ \/ \E out \in Outcome : TurnLeaves(out, k)
              \/ VerdictLeaves(k) /\ \E h \in Handlers : phase[h] \in {"verify", "judge"}
              \/ InputLeaves(k)
           /\ Picked(k, loop')
    BY <1>1, RunningRecord
  <2>2. LifeStep(loop, k)
    BY <2>1, TurnLeavesLife, InputLeavesLife DEF Turns, NoAwait
  <2>3. LifeStep(loop, loop')
    BY <2>1, <2>2, PickedLife
  <2>4. view = loop /\ view' = loop'
    BY <1>1 DEF view
  <2> QED BY <2>3, <2>4, LifeSteps
<1>2. CASE Crash
  <2>1. up /\ ~up' /\ disk' = disk
    BY <1>2, Zenon DEF Crash
  <2>2. view = loop /\ view' = load(loop)
    BY <2>1 DEF view, Recoverable, Saved, Behind, Turns, NoAwait, EasyLoop
  <2>3. CASE loop.status \in TERMINAL
    <3>1. view'.status = "idle" /\ view'.index = 0 /\ view'.count = 0
      BY <2>2, <2>3 DEF load, freshState
    <3> QED BY <2>2, <2>3, <3>1, Stages, LifeSteps DEF LifeStep
  <2>4. CASE loop.status \notin TERMINAL
    BY <2>2, <2>4, LifeSteps DEF load, LifeStep, SameLife
  <2> QED BY <2>3, <2>4
<1>3. CASE Restart
  <2>1. ~up /\ up' /\ loop' = load(disk)
    BY <1>3, Zenon DEF Restart
  <2> QED BY <2>1, LifeSteps DEF view, LifeStep, SameLife
<1>4. CASE UNCHANGED vars
  BY <1>4, LifeSteps DEF vars, view, LifeStep, SameLife
<1> QED BY <1>1, <1>2, <1>3, <1>4, LiveOrDown

\* Whatever messages, commands, timers, crashes and resumes do, the loop a user has begins,
\* counts its rounds one by one within its limit, waits between rounds, and ends for good.
THEOREM LifePromiseKept == ASSUME AwaitFree, ~DiskFails PROVE Spec => KeepsLifePromise
<1>1. Init => Life!LifeInit
  <2>1. Init => up /\ loop = freshState
    BY Zenon DEF Init
  <2>2. freshState.status = "idle" /\ freshState.index = 0 /\ freshState.count = 0
    BY DEF freshState
  <2> QED BY <2>1, <2>2, Stages DEF Life!LifeInit, view
<1>2. TypeInv /\ Turns /\ Recoverable /\ [Next]_vars => TypeInv' /\ Turns' /\ Recoverable'
  BY NextType, NextTurns, NextRecoverable
<1>3. TypeInv /\ Turns /\ Recoverable /\ [Next]_vars => [Life!LifeNext]_(Life!lifeVars)
  BY NextLife
<1> QED BY <1>1, <1>2, <1>3, InitType, InitTurns, InitRecoverable, PTL
        DEF Spec, KeepsLifePromise, Life!LifeSpec
===========================================================================
