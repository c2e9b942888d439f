----------------------------- MODULE FileCollab -----------------------------
(***************************************************************************)
(* Check-out and check-in of one shared file (kernel/file-collab.mjs, with *)
(* foldClaims of shared/file-modal.mjs).  The processes of several people  *)
(* share a directory that holds the log of claims and the log of versions, *)
(* and no lock.  Every read and every append of a file is a step; an       *)
(* append is atomic and read back.  Contents are stored before a version   *)
(* is named, and are not part of the model.                                *)
(*                                                                         *)
(* The log of claims is kept folded, since a fold goes on with the next    *)
(* record; of the log of versions nothing but the last version is ever     *)
(* used.  A claim has the time that is left of its lease instead of the    *)
(* times it was made of; a call keeps its age, since it stamps its records *)
(* with the time at which it began.                                        *)
(***************************************************************************)
EXTENDS Integers

CONSTANTS People,
          Contents,    \* contents of the file; a version is named by its content
          Starts,      \* the first version: [version, author]
          Lease,       \* ticks
          None

ASSUME CollabAssumption ==
    /\ None \notin People \union Contents
    /\ Lease \in Nat \ {0}
    /\ Starts \subseteq [version : Contents, author : People]

VARIABLES claim,     \* the folded log of claims: [holder, left, version]
          head,      \* the last record of a version
          last,      \* who wrote the last line of the log of versions
          call,      \* call[p]: where the process of p is
          lone,      \* set at the start: calls of two people never overlap
          seen       \* history, while lone: the version p had before it when it got the file
collabVars == <<claim, head, last, call, lone, seen>>

Idle == [op |-> None, at |-> "idle", age |-> 0, state |-> None, base |-> None, mine |-> None]

(***************************************************************************)
(* foldClaims, record by record.                                           *)
(***************************************************************************)
Free == [holder |-> None, left |-> 0, version |-> None]
StateForever == IF claim.holder = None THEN "free" ELSE "held"    \* a fault
State == IF claim.holder = None THEN "free" ELSE IF claim.left = 0 THEN "expired" ELSE "held"

WithNewBase(c, rec) ==    \* a fault: a renewed claim takes the version of the renewal
    CASE rec.type \in {"claim", "takeover"} -> [holder |-> rec.by, left |-> rec.left, version |-> rec.version]
      [] rec.type = "heartbeat" /\ c.holder = rec.by -> [c EXCEPT !.left = rec.left, !.version = rec.version]
      [] rec.type = "release" /\ c.holder = rec.by   -> Free
      [] OTHER                              -> c
With(c, rec) ==
    CASE rec.type \in {"claim", "takeover"} -> [holder |-> rec.by, left |-> rec.left, version |-> rec.version]
      [] rec.type = "heartbeat" /\ c.holder = rec.by -> [c EXCEPT !.left = rec.left]
      [] rec.type = "release" /\ c.holder = rec.by   -> Free
      [] OTHER                              -> c

CollabInit ==
    /\ head \in Starts
    /\ claim = Free
    /\ last = head.author
    /\ call = [p \in People |-> Idle]
    /\ lone \in BOOLEAN
    /\ seen = [p \in People |-> None]

(***************************************************************************)
(* Calls and their steps.                                                  *)
(***************************************************************************)
Begins(p, op, at, base) ==
    /\ call[p] = Idle
    /\ lone => \A q \in People : call[q] = Idle
    /\ call' = [call EXCEPT ![p] = [Idle EXCEPT !.op = op, !.at = at, !.base = base,
                                                     !.state = IF op = "claim" THEN State ELSE None]]
    /\ UNCHANGED <<claim, head, last, lone, seen>>
Goes(p, at) == call' = [call EXCEPT ![p].at = at]
Ends(p) == call' = [call EXCEPT ![p] = Idle]

\* What is refused at once leaves nothing behind and is no step.
ClaimFile(p) == ~(State = "held" /\ claim.holder # p) /\ Begins(p, "claim", "head", None)
HeartbeatClaim(p) == claim.holder = p /\ Begins(p, "heartbeat", "claims", None)
ReleaseClaim(p) == claim.holder = p /\ Begins(p, "release", "claims", None)
CheckinFile(p) == claim.holder = p /\ Begins(p, "checkin", "compare", claim.version)
IngestFile(p) == Begins(p, "ingest", "path", None)

\* claimFile: the version the person goes on from.
ReadsHead(p) ==
    /\ call[p].at = "head"
    /\ call' = [call EXCEPT ![p].base = head.version, ![p].at = "claims"]
    /\ UNCHANGED <<claim, head, last, lone, seen>>

\* The record a call adds to the log of claims.
Record(p) ==
    [type |-> CASE call[p].op = "claim" /\ call[p].state = "free"    -> "claim"
                [] call[p].op = "claim" /\ call[p].state = "expired" -> "takeover"
                [] \/ call[p].op = "claim" /\ call[p].state = "held"
                   \/ call[p].op = "heartbeat"                      -> "heartbeat"
                [] OTHER                                             -> "release",
     by |-> p, left |-> Lease - call[p].age, version |-> call[p].base]
AppendsToClaims(p) ==
    /\ call[p].at = "claims"
    /\ claim' = With(claim, Record(p))
    /\ seen' = IF ~lone \/ Record(p).type = "heartbeat" THEN seen
               ELSE [seen EXCEPT ![p] = IF Record(p).type = "release" THEN None ELSE call[p].base]
    /\ call' = [call EXCEPT ![p] = [Idle EXCEPT !.op = call[p].op, !.at = "claimsBack"]]
    /\ UNCHANGED <<head, last, lone>>

\* checkinFile: is the head by somebody else, and not the version of the claim?
\* (The caller names the author; without a name the code finds no conflict.)
Conflicting(p) == call[p].base # None /\ head.version # call[p].base /\ head.author # p
Compares(p) ==
    /\ call[p].at = "compare"
    /\ IF Conflicting(p) THEN Ends(p)
       ELSE call' = [call EXCEPT ![p].at = "path", ![p].base = None]
    /\ UNCHANGED <<claim, head, last, lone, seen>>

\* ingestFile: the file is read and its path recorded; or it is not there, or it is
\* the placeholder of a sync client, and is refused.
ReadsFile(p) ==
    /\ call[p].at = "path"
    /\ \/ /\ \E mine \in Contents : call' = [call EXCEPT ![p].mine = mine, ![p].at = "pathBack"]
          /\ last' = p
       \/ Ends(p) /\ UNCHANGED last
    /\ UNCHANGED <<claim, head, lone, seen>>
AfterVersion(p) ==
    IF call[p].op = "checkin" THEN call' = [call EXCEPT ![p].mine = None, ![p].at = "claims"] ELSE Ends(p)
ReadsLast(p) ==
    /\ call[p].at = "last"
    /\ IF head.version = call[p].mine THEN AfterVersion(p) ELSE Goes(p, "versions")
    /\ UNCHANGED <<claim, head, last, lone, seen>>
AppendsVersion(p) ==
    /\ call[p].at = "versions"
    /\ head' = [version |-> call[p].mine, author |-> p]
    /\ last' = p
    /\ Goes(p, "versionsBack")
    /\ UNCHANGED <<claim, lone, seen>>

\* appendRecord reads the log back: if the last line is not the one it has
\* written, the call throws, whatever is in the log.  (After a claim nothing
\* would follow in either case.)
ReadsBack(p) ==
    /\ \/ call[p].at = "claimsBack" /\ Ends(p)
       \/ call[p].at = "pathBack" /\ IF last = p THEN Goes(p, "last") ELSE Ends(p)
       \/ call[p].at = "versionsBack" /\ IF last = p THEN AfterVersion(p) ELSE Ends(p)
    /\ UNCHANGED <<claim, head, last, lone, seen>>

Dies(p) ==
    /\ call[p] # Idle
    /\ Ends(p)
    /\ UNCHANGED <<claim, head, last, lone, seen>>

Older(c) ==
    IF c.op \in {"claim", "heartbeat"} /\ c.at # "claimsBack" /\ c.age < Lease THEN [c EXCEPT !.age = @ + 1] ELSE c
Tick ==
    /\ claim' = IF claim.left > 0 THEN [claim EXCEPT !.left = @ - 1] ELSE claim
    /\ call' = [p \in People |-> Older(call[p])]
    /\ <<claim', call'>> # <<claim, call>>
    /\ UNCHANGED <<head, last, lone, seen>>

Calls(p) == ClaimFile(p) \/ HeartbeatClaim(p) \/ ReleaseClaim(p) \/ CheckinFile(p) \/ IngestFile(p)
GoesOn(p) ==
    \/ ReadsHead(p) \/ AppendsToClaims(p) \/ Compares(p) \/ ReadsFile(p)
    \/ ReadsLast(p) \/ AppendsVersion(p) \/ ReadsBack(p)
CollabNext == Tick \/ \E p \in People : Calls(p) \/ GoesOn(p) \/ Dies(p)

(* Time passes, and a call that has begun goes on unless its process dies. *)
CollabSpec ==
    /\ CollabInit /\ [][CollabNext]_collabVars
    /\ WF_collabVars(Tick) /\ \A p \in People : WF_collabVars(GoesOn(p))

(***************************************************************************)
(* Properties.                                                             *)
(***************************************************************************)
(* As long as calls do not overlap, a check-in never replaces a version of *)
(* somebody else that the person did not have when the file was checked    *)
(* out, through expired leases, takeovers, renewals and processes that die *)
(* in the middle (checkinFile: theirs is not covered in silence).          *)
CheckinCoversNothing ==
    [][\A p \in People :
        lone /\ call[p].op = "checkin" /\ AppendsVersion(p) => head.version = seen[p] \/ head.author = p]_collabVars

(* A claim never replaces one that somebody else still holds (claimFile    *)
(* refuses it).  It holds while calls do not overlap: the log is folded    *)
(* and then written to, and two people may both have found the file free.  *)
ClaimsReplaceNone ==
    [][\A p \in People :
        AppendsToClaims(p) /\ Record(p).type = "claim" => State = "free" \/ claim.holder = p]_collabVars

(* Who asks for the file again and again gets it when nobody else is left, *)
(* whatever others have left behind (claimFile takes over expired leases). *)
AskerGetsFile ==
    \A p \in People :
        /\ SF_collabVars(ClaimFile(p))
        /\ <>[][~Dies(p)]_collabVars
        /\ <>[](\A q \in People \ {p} : call[q] = Idle)
        => []<>(claim.holder = p)
=============================================================================
