-------------------------- MODULE KernelLoopLife --------------------------
(***************************************************************************)
(* KernelLoop implements LoopLife, when no turn ends in an await (no       *)
(* done_when, no --until) and the disk does not fail.  The loop the user   *)
(* has is the live record, or what a resume would load while the process   *)
(* is down.                                                                *)
(***************************************************************************)
EXTENDS KernelLoop

view == IF up THEN loop ELSE load(disk)

stageOf(l) ==
    CASE l.status = "idle" -> "off"
      [] l.status = "running" -> "going"
      [] l.status \in {"pausing", "paused", "awaiting_approval", "verifying"} -> "waiting"
      [] OTHER -> "over"

Life == INSTANCE LoopLife WITH
            MaxRounds <- MaxIndex,
            stage <- stageOf(view),
            rounds <- view.index,
            limit <- view.count

\* The kernel's loop, seen across crashes and resumes, keeps LoopLife's promise.
KeepsLifePromise == Life!LifeSpec
===========================================================================
