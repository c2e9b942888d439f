-------------------------- MODULE TeamFilesProofs --------------------------
(***************************************************************************)
(* Theorems about the files a team works on.                               *)
(*                                                                         *)
(* FileCollab, for every number of people, contents, first version and     *)
(* lease: as long as calls do not overlap, a check-in covers no version    *)
(* its author did not have, and nobody takes a file that somebody else     *)
(* holds.  Calls that do overlap have neither guarantee: the logs are      *)
(* folded first and written to later.                                      *)
(*                                                                         *)
(* OfficeMerge, for every set of documents and of sheets whose rows are of *)
(* equal width: what one side alone has changed is the merge, nothing that *)
(* a side brings in is dropped, and the sides are alike.                   *)
(***************************************************************************)
EXTENDS OfficeMerge, FileCollab, TLAPS, SequenceTheorems, FiniteSetTheorems, WellFoundedInduction

(***************************************************************************)
(* Check-out and check-in.                                                 *)
(***************************************************************************)
Ops == {"claim", "heartbeat", "release", "checkin", "ingest"}
Stages == {"idle", "head", "claims", "claimsBack", "compare", "path", "pathBack", "last", "versions", "versionsBack"}

CallState ==
    [op : Ops \cup {None}, at : Stages, age : Nat, state : {"free", "expired", "held", None},
     base : Contents \cup {None}, mine : Contents \cup {None}]

Typed ==
    /\ claim \in [holder : People \cup {None}, left : Int, version : Contents \cup {None}]
    /\ head \in [version : Contents, author : People]
    /\ call \in [People -> CallState]
    /\ seen \in [People -> Contents \cup {None}]
    /\ \A p \in People : call[p].at \in {"pathBack", "last", "versions"} => call[p].mine \in Contents

(***************************************************************************)
(* The inductive invariant, while calls do not overlap.  It follows a      *)
(* check-in from the claim it starts from to the version it writes: the    *)
(* holder of the claim has seen the claim's version, the check-in compares *)
(* the head with just that one, and after the comparison nobody but its    *)
(* author is there to move the head.                                       *)
(***************************************************************************)
OneCall == \A p, q \in People : call[p].at # "idle" /\ call[q].at # "idle" => p = q

HolderHasSeen == claim.holder # None => seen[claim.holder] = claim.version /\ claim.version # None

\* What a claim goes on from: the file as it was when the call began, and a version of it.
ClaimGoesOn(p) ==
    /\ call[p].op = "claim" /\ call[p].at = "claims" => call[p].base # None
    /\ call[p].op = "claim" /\ call[p].at \in {"head", "claims"} =>
         /\ call[p].state = "free" => claim.holder = None
         /\ call[p].state = "expired" => claim.left = 0

\* What a check-in goes on from, before and after it is compared with the head.
CheckinGoesOn(p) ==
    call[p].op = "checkin" =>
      /\ call[p].at = "compare" => call[p].base # None /\ call[p].base = seen[p]
      /\ call[p].at \in {"path", "pathBack", "last", "versions"} =>
           head.version = seen[p] \/ head.author = p

Alone == lone => OneCall /\ HolderHasSeen /\ \A p \in People : ClaimGoesOn(p) /\ CheckinGoesOn(p)

(***************************************************************************)
(* Types.                                                                  *)
(***************************************************************************)
LEMMA IdleTyped == Idle \in CallState
BY DEF Idle, CallState, Stages

LEMMA StateTyped == State \in {"free", "expired", "held"}
BY DEF State

LEMMA InitTyped == CollabInit => Typed
BY IdleTyped, CollabAssumption DEF CollabInit, Typed, Free, Idle

LEMMA RecordTyped ==
    ASSUME Typed, NEW p \in People
    PROVE  /\ Record(p).type \in {"claim", "takeover", "heartbeat", "release"}
           /\ Record(p).by = p /\ Record(p).left \in Int
           /\ Record(p).version = call[p].base /\ call[p].base \in Contents \cup {None}
<1>1. Lease \in Int /\ call[p].age \in Int /\ call[p].base \in Contents \cup {None}
  BY CollabAssumption DEF Typed, CallState
<1> QED BY <1>1 DEF Record

LEMMA BeginsTyped ==
    ASSUME Typed, NEW p \in People, NEW op \in Ops, NEW place \in Stages, NEW from \in Contents \cup {None},
           place \in {"head", "claims", "compare", "path"}, Begins(p, op, place, from)
    PROVE  Typed'
<1>1. call' \in [People -> CallState]
  BY StateTyped, IdleTyped DEF Begins, Typed, CallState
<1>2. \A q \in People : call'[q].at \in {"pathBack", "last", "versions"} => call'[q] = call[q]
  BY DEF Begins, Typed, Idle
<1> QED BY <1>1, <1>2 DEF Begins, Typed

LEMMA GoesOnTyped == ASSUME Typed, NEW p \in People, GoesOn(p) PROVE Typed'
<1>1. CASE ReadsHead(p)
  BY <1>1 DEF ReadsHead, Typed, CallState, Stages
<1>2. CASE AppendsToClaims(p)
  <2>1. claim' \in [holder : People \cup {None}, left : Int, version : Contents \cup {None}]
    BY <1>2, RecordTyped DEF AppendsToClaims, With, Free, Typed
  <2>2. seen' \in [People -> Contents \cup {None}]
    BY <1>2, RecordTyped DEF AppendsToClaims, Typed
  <2>3. call' \in [People -> CallState]
    BY <1>2, IdleTyped DEF AppendsToClaims, Typed, CallState, Stages
  <2>4. \A q \in People : call'[q].at \in {"pathBack", "last", "versions"} => call'[q] = call[q]
    BY <1>2 DEF AppendsToClaims, Typed, Idle
  <2> QED BY <1>2, <2>1, <2>2, <2>3, <2>4 DEF AppendsToClaims, Typed
<1>3. CASE Compares(p)
  BY <1>3, IdleTyped DEF Compares, Ends, Idle, Typed, CallState, Stages
<1>4. CASE ReadsFile(p)
  <2>1. CASE Ends(p)
    BY <1>4, <2>1, IdleTyped DEF ReadsFile, Ends, Idle, Typed, CallState, Stages
  <2>2. CASE \E content \in Contents : call' = [call EXCEPT ![p].mine = content, ![p].at = "pathBack"]
    <3>1. PICK m \in Contents : call' = [call EXCEPT ![p].mine = m, ![p].at = "pathBack"]
      BY <2>2
    <3>2. /\ call'[p] = [call[p] EXCEPT !.mine = m, !.at = "pathBack"]
          /\ \A q \in People : q # p => call'[q] = call[q]
          /\ call' \in [People -> {call'[q] : q \in People}]
      BY <3>1 DEF Typed
    <3>3. call[p] \in CallState /\ m \in Contents /\ "pathBack" \in Stages
      BY DEF Typed, Stages
    <3>4. call'[p] \in CallState /\ call'[p].mine = m
      BY <3>2, <3>3 DEF CallState
    <3>5. call' \in [People -> CallState]
      BY <3>2, <3>4 DEF Typed
    <3> QED BY <1>4, <3>2, <3>4, <3>5 DEF ReadsFile, Typed
  <2> QED BY <1>4, <2>1, <2>2 DEF ReadsFile
<1>5. CASE ReadsLast(p)
  BY <1>5, IdleTyped, SMTT(30) DEF ReadsLast, AfterVersion, Ends, Idle, Goes, Typed,
                         CallState, Stages
<1>6. CASE AppendsVersion(p)
  BY <1>6 DEF AppendsVersion, Goes, Typed, CallState, Stages
<1>7. CASE ReadsBack(p)
  BY <1>7, IdleTyped, SMTT(30) DEF ReadsBack, AfterVersion, Ends, Idle, Goes, Typed,
                         CallState, Stages
<1> QED BY <1>1, <1>2, <1>3, <1>4, <1>5, <1>6, <1>7 DEF GoesOn

LEMMA TickTyped == ASSUME Typed, Tick PROVE Typed'
<1>1. \A c \in CallState : Older(c) \in CallState /\ Older(c).at = c.at /\ Older(c).mine = c.mine
  BY DEF Older, CallState
<1>2. claim' \in [holder : People \cup {None}, left : Int, version : Contents \cup {None}]
  BY DEF Tick, Typed
<1>3. call' \in [People -> CallState]
  BY <1>1 DEF Tick, Typed
<1>4. \A p \in People : call'[p].at = call[p].at /\ call'[p].mine = call[p].mine
  BY <1>1 DEF Tick, Typed
<1> QED BY <1>2, <1>3, <1>4 DEF Tick, Typed

\* The calls, each with where it begins.
LEMMA CallsBegin ==
    ASSUME Typed, NEW p \in People, Calls(p)
    PROVE  \E op \in Ops, place \in {"head", "claims", "compare", "path"}, from \in Contents \cup {None} :
             /\ Begins(p, op, place, from)
             /\ op = "claim" => place = "head" /\ ~(State = "held" /\ claim.holder # p)
             /\ op = "checkin" => place = "compare" /\ claim.holder = p /\ from = claim.version
<1>1. claim.version \in Contents \cup {None} /\ None \in Contents \cup {None}
  BY DEF Typed
<1> QED BY <1>1 DEF Calls, ClaimFile, HeartbeatClaim, ReleaseClaim,
                    CheckinFile, IngestFile, Ops

LEMMA NextTyped == ASSUME Typed, [CollabNext]_collabVars PROVE Typed'
<1>1. CASE Tick
  BY <1>1, TickTyped
<1>2. ASSUME NEW p \in People, Calls(p) PROVE Typed'
  BY <1>2, CallsBegin, BeginsTyped DEF Stages
<1>3. ASSUME NEW p \in People, GoesOn(p) PROVE Typed'
  BY <1>3, GoesOnTyped
<1>4. ASSUME NEW p \in People, Dies(p) PROVE Typed'
  BY <1>4, IdleTyped DEF Dies, Ends, Idle, Typed
<1>5. CASE UNCHANGED collabVars
  BY <1>5 DEF collabVars, Typed
<1> QED BY <1>1, <1>2, <1>3, <1>4, <1>5 DEF CollabNext

(***************************************************************************)
(* The invariant.                                                          *)
(***************************************************************************)
LEMMA InitAlone == CollabInit => Alone
BY DEF CollabInit, Alone, OneCall, HolderHasSeen, ClaimGoesOn, CheckinGoesOn, Free, Idle

\* A call that ends, or is of no kind that goes on from anything, owes nothing.
LEMMA IdleOwesNothing ==
    ASSUME NEW p \in People, 
           call[p].at \notin {"head", "claims", "compare", "path", "pathBack", "last", "versions"}
    PROVE  ClaimGoesOn(p) /\ CheckinGoesOn(p)
BY DEF ClaimGoesOn, CheckinGoesOn

\* A step of the one call that is on leaves the others idle.
LEMMA StepAlone ==
    ASSUME Typed, Alone, lone, lone', Typed', NEW p \in People,
           \A q \in People : q # p => call'[q].at = "idle",
           HolderHasSeen', ClaimGoesOn(p)', CheckinGoesOn(p)'
    PROVE  Alone'
<1>1. \A q \in People : q # p => ClaimGoesOn(q)' /\ CheckinGoesOn(q)'
  BY DEF ClaimGoesOn, CheckinGoesOn
<1>2. OneCall'
  BY DEF OneCall
<1> QED BY <1>1, <1>2 DEF Alone

LEMMA BeginsAlone ==
    ASSUME Typed, Alone, lone, lone', Typed', NEW p \in People, Calls(p)
    PROVE  Alone'
<1>1. PICK op \in Ops, place \in {"head", "claims", "compare", "path"}, from \in Contents \cup {None} :
             /\ Begins(p, op, place, from)
             /\ op = "claim" => place = "head" /\ ~(State = "held" /\ claim.holder # p)
             /\ op = "checkin" => place = "compare" /\ claim.holder = p /\ from = claim.version
  BY CallsBegin
<1>2. \A q \in People : q # p => call'[q].at = "idle"
  BY <1>1 DEF Begins, Typed, Idle
<1>3. UNCHANGED <<claim, head, seen>>
  BY <1>1 DEF Begins
<1>4. HolderHasSeen'
  BY <1>3 DEF Alone, HolderHasSeen
<1>5. call'[p].op = op /\ call'[p].at = place /\ call'[p].base = from
      /\ call'[p].state = (IF op = "claim" THEN State ELSE None)
  BY <1>1 DEF Begins, Typed, Idle
<1>6. ClaimGoesOn(p)'
  BY <1>1, <1>3, <1>5 DEF ClaimGoesOn, State
<1>7. CheckinGoesOn(p)'
  <2>1. ASSUME op = "checkin" PROVE from # None /\ from = seen[p]
    BY <1>1, <2>1, CollabAssumption DEF Alone, HolderHasSeen
  <2> QED BY <1>1, <1>3, <1>5, <2>1 DEF CheckinGoesOn
<1> QED BY <1>2, <1>4, <1>6, <1>7, StepAlone

\* While calls do not overlap, a step of a call finds nobody else in one.
LEMMA GoesOnOthers ==
    ASSUME Typed, Alone, lone, NEW p \in People, GoesOn(p)
    PROVE  \A q \in People : q # p => call'[q].at = "idle"
<1>1. call[p].at # "idle"
  BY DEF GoesOn, ReadsHead, AppendsToClaims, Compares, ReadsFile,
         ReadsLast, AppendsVersion, ReadsBack
<1>2. \A q \in People : q # p => call'[q] = call[q]
  BY DEF Typed, GoesOn, ReadsHead, AppendsToClaims, Compares, ReadsFile,
         ReadsLast, AppendsVersion, ReadsBack,
         AfterVersion, Ends, Goes
<1> QED BY <1>1, <1>2 DEF Alone, OneCall

\* Steps that leave the log of claims, the head and the history alone owe only where the call then is.
LEMMA QuietStep ==
    ASSUME Typed, Alone, lone, UNCHANGED <<claim, seen>>
    PROVE  HolderHasSeen'
BY DEF Alone, HolderHasSeen

LEMMA GoesOnAlone ==
    ASSUME Typed, Alone, lone, lone', Typed', NEW p \in People, GoesOn(p)
    PROVE  Alone'
<1>0. /\ call \in [People -> CallState] /\ call[p] \in CallState
      /\ OneCall /\ HolderHasSeen /\ ClaimGoesOn(p) /\ CheckinGoesOn(p)
      /\ head.version # None
      /\ \A q \in People : q # p => call'[q].at = "idle"
  BY GoesOnOthers, CollabAssumption DEF Typed, Alone
<1>1. CASE ReadsHead(p)
  <2>1. HolderHasSeen'
    BY <1>1, QuietStep DEF ReadsHead
  <2>2. ClaimGoesOn(p)' /\ CheckinGoesOn(p)'
    BY <1>0, <1>1 DEF ReadsHead, ClaimGoesOn, CheckinGoesOn
  <2> QED BY <1>0, <2>1, <2>2, StepAlone
<1>2. CASE AppendsToClaims(p)
  <2>1. ClaimGoesOn(p)' /\ CheckinGoesOn(p)'
    BY <1>0, <1>2 DEF AppendsToClaims, ClaimGoesOn, CheckinGoesOn, Idle
  <2>2. HolderHasSeen'
    <3>1. CASE Record(p).type \in {"claim", "takeover"}
      <4>1. call[p].op = "claim" /\ call[p].base # None
        BY <1>0, <1>2, <3>1 DEF Record, AppendsToClaims, ClaimGoesOn
      <4>2. claim' = [holder |-> p, left |-> Record(p).left, version |-> call[p].base]
        BY <1>2, <3>1, RecordTyped DEF AppendsToClaims, With
      <4>3. seen' = [seen EXCEPT ![p] = call[p].base]
        BY <1>2, <3>1 DEF AppendsToClaims
      <4> QED BY <4>1, <4>2, <4>3 DEF HolderHasSeen, Typed
    <3>2. CASE Record(p).type = "heartbeat"
      <4>1. claim'.holder = claim.holder /\ claim'.version = claim.version /\ seen' = seen
        BY <1>2, <3>2 DEF AppendsToClaims, With, Typed
      <4> QED BY <1>0, <4>1 DEF HolderHasSeen
    <3>3. CASE Record(p).type = "release"
      <4>1. \A q \in People : q # p => seen'[q] = seen[q]
        BY <1>2, <3>3 DEF AppendsToClaims, Typed
      <4>2. claim' = With(claim, Record(p))
            /\ Record(p).by = p /\ Record(p).type = "release"
        BY <1>2, <3>3, RecordTyped DEF AppendsToClaims
      <4>3. claim' = (IF claim.holder = p THEN Free ELSE claim)
        BY <4>2 DEF With
      <4> QED BY <1>0, <4>1, <4>3 DEF HolderHasSeen, Free, Typed
    <3> QED BY <3>1, <3>2, <3>3, RecordTyped
  <2> QED BY <1>0, <2>1, <2>2, StepAlone
<1>3. CASE Compares(p)
  <2>1. HolderHasSeen'
    BY <1>3, QuietStep DEF Compares
  <2>2. CASE Conflicting(p)
    BY <1>0, <1>3, <2>1, <2>2, StepAlone DEF Compares, Ends, ClaimGoesOn, CheckinGoesOn,
                                             Idle
  <2>3. CASE ~Conflicting(p)
    <3>1. call[p].op = "checkin" => head.version = seen[p] \/ head.author = p
      BY <1>0, <1>3, <2>3 DEF Conflicting, Compares, CheckinGoesOn
    <3>2. call'[p].op = call[p].op /\ call'[p].at = "path" /\ head' = head /\ seen' = seen
      BY <1>0, <1>3, <2>3 DEF Compares, CallState
    <3>3. ClaimGoesOn(p)' /\ CheckinGoesOn(p)'
      BY <3>1, <3>2 DEF ClaimGoesOn, CheckinGoesOn
    <3> QED BY <1>0, <2>1, <3>3, StepAlone
  <2> QED BY <2>2, <2>3
<1>4. CASE ReadsFile(p) \/ ReadsLast(p) \/ ReadsBack(p)
  <2>1. UNCHANGED <<claim, head, seen>>
    BY <1>4 DEF ReadsFile, ReadsLast, ReadsBack
  <2>2. \/ call'[p] = Idle
        \/ /\ call'[p].op = call[p].op
           /\ \/ call[p].at \in {"path", "pathBack", "last"} /\ call'[p].at \in {"pathBack", "last", "versions"}
              \/ call[p].op = "checkin" /\ call'[p].at = "claims"
    <3>1. CASE ReadsFile(p)
      <4>1. CASE Ends(p)
        BY <1>0, <4>1 DEF Ends
      <4>2. CASE \E content \in Contents : call' = [call EXCEPT ![p].mine = content, ![p].at = "pathBack"]
        <5>1. PICK content \in Contents : call' = [call EXCEPT ![p].mine = content, ![p].at = "pathBack"]
          BY <4>2
        <5>2. call'[p] = [call[p] EXCEPT !.mine = content, !.at = "pathBack"]
          BY <1>0, <5>1
        <5>3. call'[p].op = call[p].op /\ call'[p].at = "pathBack"
          BY <1>0, <5>2 DEF CallState
        <5> QED
          BY <3>1, <5>3 DEF ReadsFile
      <4> QED
        BY <3>1, <4>1, <4>2 DEF ReadsFile
    <3>2. CASE ReadsLast(p)
      BY <1>0, <3>2, SMTT(30) DEF ReadsLast, AfterVersion, Ends, Goes, CallState
    <3>3. CASE ReadsBack(p)
      BY <1>0, <3>3 DEF ReadsBack, AfterVersion, Ends, Goes, CallState
    <3> QED BY <1>4, <3>1, <3>2, <3>3
  <2>3. ClaimGoesOn(p)' /\ CheckinGoesOn(p)'
    BY <1>0, <2>1, <2>2 DEF ClaimGoesOn, CheckinGoesOn, Idle
  <2> QED BY <1>0, <2>1, <2>3, QuietStep, StepAlone
<1>5. CASE AppendsVersion(p)
  <2>1. HolderHasSeen'
    BY <1>5, QuietStep DEF AppendsVersion
  <2>2. ClaimGoesOn(p)' /\ CheckinGoesOn(p)'
    BY <1>0, <1>5 DEF AppendsVersion, Goes, ClaimGoesOn, CheckinGoesOn
  <2> QED BY <1>0, <2>1, <2>2, StepAlone
<1> QED BY <1>1, <1>2, <1>3, <1>4, <1>5 DEF GoesOn

LEMMA TickAlone ==
    ASSUME Typed, Alone, lone, lone', Typed', Tick
    PROVE  Alone'
<1>1. \A c \in CallState : /\ Older(c).op = c.op /\ Older(c).at = c.at /\ Older(c).base = c.base
                           /\ Older(c).state = c.state
  BY DEF Older, CallState
<1>2. \A p \in People : /\ call'[p].op = call[p].op /\ call'[p].at = call[p].at /\ call'[p].base = call[p].base
                        /\ call'[p].state = call[p].state
  BY <1>1 DEF Tick, Typed
<1>3. /\ claim'.holder = claim.holder /\ claim'.version = claim.version /\ (claim.left = 0 => claim'.left = 0)
      /\ head' = head /\ seen' = seen
  BY DEF Tick, Typed
<1>4. OneCall' /\ HolderHasSeen'
  BY <1>2, <1>3 DEF Alone, OneCall, HolderHasSeen
<1>5. \A p \in People : ClaimGoesOn(p)' /\ CheckinGoesOn(p)'
  BY <1>2, <1>3 DEF Alone, ClaimGoesOn, CheckinGoesOn
<1> QED BY <1>4, <1>5 DEF Alone

LEMMA NextAlone == ASSUME Typed, Alone, [CollabNext]_collabVars PROVE Alone'
<1> SUFFICES ASSUME lone' PROVE Alone'
  BY Zenon DEF Alone
<1>0. Typed'
  BY NextTyped
<1>1. CASE UNCHANGED collabVars
  <2>1. lone
    BY <1>1, Zenon DEF collabVars
  <2> QED BY <1>1, <2>1 DEF collabVars, Alone, OneCall, HolderHasSeen, ClaimGoesOn, CheckinGoesOn
<1>2. CASE Tick
  <2>1. lone
    BY <1>2, Zenon DEF Tick
  <2> QED BY <1>0, <1>2, <2>1, TickAlone
<1>3. ASSUME NEW p \in People, Calls(p) PROVE Alone'
  <2>1. lone
    BY <1>3, Zenon DEF Calls, ClaimFile, HeartbeatClaim, ReleaseClaim,
                       CheckinFile, IngestFile, Begins
  <2> QED BY <1>0, <1>3, <2>1, BeginsAlone
<1>4. ASSUME NEW p \in People, GoesOn(p) PROVE Alone'
  <2>1. lone
    BY <1>4, Zenon DEF GoesOn, ReadsHead, AppendsToClaims, Compares, ReadsFile,
                       ReadsLast, AppendsVersion, ReadsBack
  <2> QED BY <1>0, <1>4, <2>1, GoesOnAlone
<1>5. ASSUME NEW p \in People, Dies(p) PROVE Alone'
  <2>1. lone
    BY <1>5, Zenon DEF Dies
  <2>2. \A q \in People : call'[q] = call[q] \/ call'[q].at = "idle"
    BY <1>5 DEF Dies, Ends, Typed, Idle
  <2>3. UNCHANGED <<claim, head, seen>>
    BY <1>5 DEF Dies
  <2> QED BY <2>1, <2>2, <2>3 DEF Alone, OneCall, HolderHasSeen, ClaimGoesOn, CheckinGoesOn
<1> QED BY <1>1, <1>2, <1>3, <1>4, <1>5 DEF CollabNext

LEMMA AlwaysAlone == CollabSpec => [](Typed /\ Alone)
<1>1. Typed /\ Alone /\ [CollabNext]_collabVars => Typed' /\ Alone'
  BY NextTyped, NextAlone
<1> QED BY <1>1, InitTyped, InitAlone, PTL DEF CollabSpec

(***************************************************************************)
(* The theorems about check-out and check-in.                              *)
(***************************************************************************)

\* While calls do not overlap, a check-in writes its version over one its author had, or wrote,
\* through expired leases, takeovers, renewals and deaths.
THEOREM CheckinsCoverNothing == CollabSpec => CheckinCoversNothing
<1>1. Typed /\ Alone =>
        [\A p \in People :
            lone /\ call[p].op = "checkin" /\ AppendsVersion(p) =>
                head.version = seen[p] \/ head.author = p]_collabVars
  BY DEF Alone, CheckinGoesOn, AppendsVersion
<1> QED BY <1>1, AlwaysAlone, PTL DEF CheckinCoversNothing

\* While calls do not overlap, a claim or a takeover never replaces a claim that somebody else
\* still holds (claimFile refuses a held file): what ClaimsReplaceNone asks for, and takeovers.
LoneClaimsReplaceNone ==
    [][\A p \in People :
        lone /\ AppendsToClaims(p) /\ Record(p).type \in {"claim", "takeover"} =>
            State # "held" \/ claim.holder = p]_collabVars

THEOREM HeldFilesStayHeld == CollabSpec => LoneClaimsReplaceNone
<1>1. ASSUME Typed, Alone, NEW p \in People, lone, AppendsToClaims(p),
             Record(p).type \in {"claim", "takeover"}
      PROVE  State # "held" \/ claim.holder = p
  <2>1. call[p].op = "claim" /\ call[p].state \in {"free", "expired"}
    BY <1>1 DEF Record
  <2>2. claim.holder = None \/ claim.left = 0
    BY <1>1, <2>1 DEF Alone, ClaimGoesOn, AppendsToClaims
  <2> QED BY <2>2 DEF State
<1>2. Typed /\ Alone =>
        [\A p \in People :
            lone /\ AppendsToClaims(p) /\ Record(p).type \in {"claim", "takeover"} =>
                State # "held" \/ claim.holder = p]_collabVars
  BY <1>1
<1> QED BY <1>2, AlwaysAlone, PTL DEF LoneClaimsReplaceNone

\* A set of numbers with 0 that goes on from each to the next is all of them:
\* otherwise there would be a least one outside of it.
LEMMA NatSetInduction ==
  ASSUME NEW S, 0 \in S, \A n \in Nat : n \in S => n + 1 \in S
  PROVE  Nat \subseteq S
  <1> DEFINE T == {n \in Nat : n \notin S}
             R == OpToRel(<, Nat)
  <1>1. R = {ss \in Nat \X Nat : ss[1] < ss[2]}
    BY DEF OpToRel
  <1>2. IsWellFoundedOn(R, Nat)
    BY NatLessThanWellFounded
  <1> SUFFICES ASSUME T # {} PROVE FALSE
    OBVIOUS
  <1>3. T \subseteq Nat
    OBVIOUS
  <1> HIDE DEF R
  <1>4. PICK x \in T : \A y \in T : ~ (<<y, x>> \in R)
    <2> HIDE DEF T
    <2> QED
      BY <1>2, <1>3, WFMin
  <1>5. x - 1 \in Nat /\ x - 1 \notin S
    BY <1>4
  <1>6. <<x - 1, x>> \in R
    BY <1>1, <1>5
  <1> QED
    BY <1>4, <1>5, <1>6

(***************************************************************************)
(* lcsPairs: the walk through the table of lengths.                        *)
(***************************************************************************)
Cell(a, b) == (1..Len(a) + 1) \X (1..Len(b) + 1)
Gone(a, b, p) == p[1] > Len(a) \/ p[2] > Len(b)

IsTable(t, a, b) ==
    t = [p \in Cell(a, b) |->
            IF Gone(a, b, p) THEN 0
            ELSE IF a[p[1]] = b[p[2]] THEN t[<<p[1] + 1, p[2] + 1>>] + 1
            ELSE Max({t[<<p[1] + 1, p[2]>>], t[<<p[1], p[2] + 1>>]})]

\* What the walk takes at a cell, and the cell it goes on to.
Taken(a, b, p) == IF a[p[1]] = b[p[2]] THEN {p} ELSE {}
Onward(t, a, b, p) ==
    IF a[p[1]] = b[p[2]] THEN <<p[1] + 1, p[2] + 1>>
    ELSE IF t[<<p[1] + 1, p[2]>>] >= t[<<p[1], p[2] + 1>>] THEN <<p[1] + 1, p[2]>>
    ELSE <<p[1], p[2] + 1>>
Walked(w, t, a, b, p) ==
    IF Gone(a, b, p) THEN {} ELSE Taken(a, b, p) \union w[Onward(t, a, b, p)]
IsWalk(w, t, a, b) == w = [p \in Cell(a, b) |-> Walked(w, t, a, b, p)]

LEMMA LcsIsWalk ==
  ASSUME NEW a, NEW b
  PROVE  LcsPairs(a, b) = LET t == CHOOSE t : IsTable(t, a, b)
                              w == CHOOSE w : IsWalk(w, t, a, b)
                          IN  w[<<1, 1>>]
  <1> DEFINE Lit(w, t) ==
          w = [p \in Cell(a, b) |->
            IF p[1] > Len(a) \/ p[2] > Len(b) THEN {}
            ELSE IF a[p[1]] = b[p[2]] THEN {p} \union w[<<p[1] + 1, p[2] + 1>>]
            ELSE IF t[<<p[1] + 1, p[2]>>] >= t[<<p[1], p[2] + 1>>] THEN w[<<p[1] + 1, p[2]>>]
            ELSE w[<<p[1], p[2] + 1>>]]
  <1>1. LcsPairs(a, b) = LET t == CHOOSE t : IsTable(t, a, b)
                             w == CHOOSE w : Lit(w, t)
                         IN  w[<<1, 1>>]
    BY DEF LcsPairs, IsTable, Cell, Gone
  <1>2. ASSUME NEW w, NEW t PROVE Lit(w, t) <=> IsWalk(w, t, a, b)
    <2> DEFINE Stage(p) == IF p[1] > Len(a) \/ p[2] > Len(b) THEN {}
                           ELSE IF a[p[1]] = b[p[2]] THEN {p} \union w[<<p[1] + 1, p[2] + 1>>]
                           ELSE IF t[<<p[1] + 1, p[2]>>] >= t[<<p[1], p[2] + 1>>] THEN w[<<p[1] + 1, p[2]>>]
                           ELSE w[<<p[1], p[2] + 1>>]
    <2>1. Lit(w, t) <=> w = [p \in Cell(a, b) |-> Stage(p)]
      OBVIOUS
    <2>2. ASSUME NEW p PROVE Stage(p) = Walked(w, t, a, b, p)
      BY DEF Walked, Taken, Onward, Gone
    <2> HIDE DEF Stage, Lit
    <2>3. [p \in Cell(a, b) |-> Stage(p)] = [p \in Cell(a, b) |-> Walked(w, t, a, b, p)]
      BY <2>2
    <2> QED
      BY <2>1, <2>3 DEF IsWalk
  <1> HIDE DEF Lit
  <1>3. \A t : (CHOOSE w : Lit(w, t)) = (CHOOSE w : IsWalk(w, t, a, b))
    BY <1>2
  <1> QED
    BY <1>1, <1>3

\* How far it is from a cell to the end.
Far(a, b, p) == (Len(a) + 1 - p[1]) + (Len(b) + 1 - p[2])

LEMMA OnwardIsNearer ==
  ASSUME NEW S, NEW a \in Seq(S), NEW b \in Seq(S), NEW t, NEW p \in Cell(a, b), ~Gone(a, b, p)
  PROVE  /\ Onward(t, a, b, p) \in Cell(a, b)
         /\ Far(a, b, Onward(t, a, b, p)) < Far(a, b, p)
         /\ Onward(t, a, b, p)[1] >= p[1] /\ Onward(t, a, b, p)[2] >= p[2]
  <1> DEFINE i == p[1]
             j == p[2]
             n == Len(a)
             m == Len(b)
  <1>1. n \in Nat /\ m \in Nat /\ i \in 1..n /\ j \in 1..m
    BY DEF Cell, Gone
  <1>2. Onward(t, a, b, p) \in {<<i + 1, j + 1>>, <<i + 1, j>>, <<i, j + 1>>}
    BY DEF Onward
  <1>3. Far(a, b, p) = (n + 1 - i) + (m + 1 - j)
    BY DEF Far
  <1> HIDE DEF i, j, n, m
  <1>4. \A q : Far(a, b, q) = (n + 1 - q[1]) + (m + 1 - q[2])
    BY DEF Far, n, m
  <1>5. Cell(a, b) = (1..n + 1) \X (1..m + 1)
    BY DEF Cell, n, m
  <1>6. p[1] = i /\ p[2] = j
    BY DEF i, j
  <1> DEFINE q == Onward(t, a, b, p)
  <1> HIDE DEF q
  <1>7. \E k, l \in {0, 1} : q = <<i + k, j + l>> /\ k + l > 0
    <2>1. i = i + 0 /\ j = j + 0
      BY <1>1
    <2>2. CASE q = <<i + 1, j + 1>>
      BY <2>2
    <2>3. CASE q = <<i + 1, j>>
      <3>1. q = <<i + 1, j + 0>> /\ 1 + 0 > 0
        BY <2>1, <2>3
      <3> QED
        BY <3>1
    <2>4. CASE q = <<i, j + 1>>
      <3>1. q = <<i + 0, j + 1>> /\ 0 + 1 > 0
        BY <2>1, <2>4
      <3> QED
        BY <3>1
    <2> QED
      BY <1>2, <2>2, <2>3, <2>4 DEF q
  <1>8. PICK k, l \in {0, 1} : q = <<i + k, j + l>> /\ k + l > 0
    BY <1>7
  <1>9. q[1] = i + k /\ q[2] = j + l
    BY <1>8
  <1>10. i + k \in 1..(n + 1) /\ j + l \in 1..(m + 1)
    BY <1>1
  <1>11. q \in Cell(a, b)
    BY <1>5, <1>8, <1>10
  <1>12. (n + 1 - (i + k)) + (m + 1 - (j + l)) < (n + 1 - i) + (m + 1 - j)
    BY <1>1, <1>8
  <1>13. Far(a, b, q) < Far(a, b, p)
    BY <1>3, <1>4, <1>9, <1>12
  <1> QED
    BY <1>1, <1>6, <1>9, <1>11, <1>13 DEF q

LEMMA FarIsNat ==
  ASSUME NEW S, NEW a \in Seq(S), NEW b \in Seq(S), NEW p \in Cell(a, b)
  PROVE  Far(a, b, p) \in Nat
  BY DEF Far, Cell

\* What holds of a cell if it holds of all nearer ones holds of all.
LEMMA CellInduction ==
  ASSUME NEW S, NEW a \in Seq(S), NEW b \in Seq(S), NEW G,
         \A p \in Cell(a, b) :
            (\A q \in Cell(a, b) : Far(a, b, q) < Far(a, b, p) => q \in G) => p \in G
  PROVE  Cell(a, b) \subseteq G
  <1> DEFINE N == {k \in Nat : \A p \in Cell(a, b) : Far(a, b, p) < k => p \in G}
  <1>1. 0 \in N
    BY FarIsNat
  <1>2. ASSUME NEW k \in Nat, k \in N PROVE k + 1 \in N
    <2> SUFFICES ASSUME NEW p \in Cell(a, b), Far(a, b, p) < k + 1 PROVE p \in G
      OBVIOUS
    <2>1. ASSUME NEW q \in Cell(a, b), Far(a, b, q) < Far(a, b, p) PROVE q \in G
      <3>1. Far(a, b, q) < k
        BY <2>1, FarIsNat
      <3> QED
        BY <1>2, <3>1
    <2> QED
      BY <2>1
  <1> HIDE DEF N
  <1>3. Nat \subseteq N
    BY <1>1, <1>2, NatSetInduction
  <1> SUFFICES ASSUME NEW p \in Cell(a, b) PROVE p \in G
    OBVIOUS
  <1>4. Far(a, b, p) + 1 \in N /\ Far(a, b, p) < Far(a, b, p) + 1
    BY <1>3, FarIsNat
  <1> QED
    BY <1>4 DEF N

LEMMA WalksExist ==
  ASSUME NEW S, NEW a \in Seq(S), NEW b \in Seq(S), NEW t
  PROVE  \E w : IsWalk(w, t, a, b)
  <1> DEFINE D == Cell(a, b)
             Well(w, p) == w[p] = Walked(w, t, a, b, p)
             N == {k \in Nat : \E w : /\ w = [p \in D |-> w[p]]
                                      /\ \A p \in D : Far(a, b, p) < k => Well(w, p)}
  <1>1. 0 \in N
    <2> DEFINE w == [p \in D |-> {}]
    <2>1. w = [p \in D |-> w[p]]
      OBVIOUS
    <2>2. \A p \in D : ~(Far(a, b, p) < 0)
      BY FarIsNat
    <2> HIDE DEF w
    <2> QED
      BY <2>1, <2>2
  <1>2. ASSUME NEW k \in Nat, k \in N PROVE k + 1 \in N
    <2>1. PICK w : /\ w = [p \in D |-> w[p]]
                   /\ \A p \in D : Far(a, b, p) < k => Well(w, p)
      BY <1>2
    <2> DEFINE v == [p \in D |-> IF Far(a, b, p) < k THEN w[p] ELSE Walked(w, t, a, b, p)]
    <2>2. v = [p \in D |-> v[p]]
      OBVIOUS
    <2>3. \A p \in D : v[p] = IF Far(a, b, p) < k THEN w[p] ELSE Walked(w, t, a, b, p)
      OBVIOUS
    <2> HIDE DEF v
    <2>4. ASSUME NEW p \in D, Far(a, b, p) < k + 1 PROVE Well(v, p)
      <3>1. v[p] = Walked(w, t, a, b, p)
        BY <2>1, <2>3
      <3>2. CASE Gone(a, b, p)
        BY <3>1, <3>2 DEF Walked
      <3>3. CASE ~Gone(a, b, p)
        <4> DEFINE q == Onward(t, a, b, p)
        <4>1. q \in D /\ Far(a, b, q) < Far(a, b, p)
          BY <3>3, OnwardIsNearer
        <4> HIDE DEF q
        <4>2. Far(a, b, q) < k
          BY <2>4, <4>1, FarIsNat
        <4>3. v[q] = w[q]
          BY <2>3, <4>1, <4>2
        <4> QED
          BY <3>1, <3>3, <4>3 DEF Walked, q
      <3> QED
        BY <3>2, <3>3
    <2> QED
      BY <2>2, <2>4
  <1> HIDE DEF N
  <1>3. Nat \subseteq N
    BY <1>1, <1>2, NatSetInduction
  <1>4. Len(a) + Len(b) + 1 \in N
    BY <1>3
  <1>5. PICK w : /\ w = [p \in D |-> w[p]]
                 /\ \A p \in D : Far(a, b, p) < Len(a) + Len(b) + 1 => Well(w, p)
    BY <1>4 DEF N
  <1>6. \A p \in D : Far(a, b, p) < Len(a) + Len(b) + 1
    BY DEF Far, Cell
  <1>7. \A p \in D : w[p] = Walked(w, t, a, b, p)
    BY <1>5, <1>6
  <1> DEFINE u == [p \in D |-> Walked(w, t, a, b, p)]
  <1>8. w = u
    <2>1. u = [p \in D |-> w[p]]
      BY <1>7
    <2> HIDE DEF u
    <2> QED
      BY <1>5, <2>1
  <1> QED
    BY <1>8 DEF IsWalk

\* Pairs of equal names, in the order of both lists.
Matching(P, a, b) ==
    /\ P \subseteq (1..Len(a)) \X (1..Len(b))
    /\ \A p \in P : a[p[1]] = b[p[2]]
    /\ \A p, q \in P : p[1] < q[1] <=> p[2] < q[2]

\* Of which all lie beyond a cell.
Beyond(P, c) == \A p \in P : p[1] >= c[1] /\ p[2] >= c[2]

LEMMA LcsPairsMatch ==
  ASSUME NEW S, NEW a \in Seq(S), NEW b \in Seq(S)
  PROVE  Matching(LcsPairs(a, b), a, b)
  <1> DEFINE t == CHOOSE t : IsTable(t, a, b)
             w == CHOOSE w : IsWalk(w, t, a, b)
             G == {p \in Cell(a, b) : Matching(w[p], a, b) /\ Beyond(w[p], p)}
  <1> HIDE DEF t
  <1>1. IsWalk(w, t, a, b)
    BY WalksExist
  <1>2. LcsPairs(a, b) = w[<<1, 1>>]
    BY LcsIsWalk DEF t
  <1> HIDE DEF w
  <1>3. ASSUME NEW p \in Cell(a, b),
               \A q \in Cell(a, b) : Far(a, b, q) < Far(a, b, p) => q \in G
        PROVE  p \in G
    <2>1. w[p] = Walked(w, t, a, b, p)
      BY <1>1 DEF IsWalk
    <2>2. CASE Gone(a, b, p)
      BY <2>1, <2>2 DEF Walked, Matching, Beyond
    <2>3. CASE ~Gone(a, b, p)
      <3> DEFINE q == Onward(t, a, b, p)
                 P == w[q]
      <3>1. q \in Cell(a, b) /\ q \in G /\ q[1] >= p[1] /\ q[2] >= p[2]
        BY <1>3, <2>3, OnwardIsNearer
      <3>2. w[p] = Taken(a, b, p) \union P
        BY <2>1, <2>3 DEF Walked
      <3>3. p[1] \in 1..Len(a) /\ p[2] \in 1..Len(b) /\ p = <<p[1], p[2]>>
        BY <2>3 DEF Cell, Gone
      <3>4. a[p[1]] = b[p[2]] => q = <<p[1] + 1, p[2] + 1>>
        BY DEF Onward
      <3>5. Matching(P, a, b) /\ Beyond(P, q)
        BY <3>1
      <3>6. q[1] \in Nat /\ q[2] \in Nat /\ Len(a) \in Nat /\ Len(b) \in Nat
        BY <3>1 DEF Cell
      <3> HIDE DEF q, P
      <3>7. \A r \in P : r[1] \in 1..Len(a) /\ r[2] \in 1..Len(b)
                         /\ r[1] >= q[1] /\ r[2] >= q[2]
        BY <3>5 DEF Matching, Beyond
      <3>8. \A r \in P : r[1] >= p[1] /\ r[2] >= p[2]
        BY <3>1, <3>3, <3>6, <3>7
      <3>9. CASE a[p[1]] # b[p[2]]
        <4>1. w[p] = P
          BY <3>2, <3>9 DEF Taken
        <4> QED
          BY <3>5, <3>8, <4>1 DEF Beyond
      <3>10. CASE a[p[1]] = b[p[2]]
        <4>1. w[p] = {p} \union P
          BY <3>2, <3>10 DEF Taken
        <4>2. \A r \in P : p[1] < r[1] /\ p[2] < r[2] /\ ~(r[1] < p[1]) /\ ~(r[2] < p[2])
          BY <3>3, <3>4, <3>7, <3>10
        <4>3. w[p] \subseteq (1..Len(a)) \X (1..Len(b))
          BY <3>3, <3>5, <4>1 DEF Matching
        <4>4. \A r \in w[p] : a[r[1]] = b[r[2]]
          BY <3>5, <3>10, <4>1 DEF Matching
        <4>5. \A r, s \in w[p] : r[1] < s[1] <=> r[2] < s[2]
          <5> SUFFICES ASSUME NEW r \in w[p], NEW s \in w[p]
                       PROVE  r[1] < s[1] <=> r[2] < s[2]
            OBVIOUS
          <5>1. CASE r \in P /\ s \in P
            BY <3>5, <5>1 DEF Matching
          <5>2. CASE r = p /\ s = p
            BY <3>3, <5>2
          <5>3. CASE r = p /\ s \in P
            BY <4>2, <5>3
          <5>4. CASE s = p /\ r \in P
            BY <4>2, <5>4
          <5> QED
            BY <4>1, <5>1, <5>2, <5>3, <5>4
        <4>6. Beyond(w[p], p)
          BY <3>3, <3>8, <4>1 DEF Beyond
        <4> QED
          BY <4>3, <4>4, <4>5, <4>6 DEF Matching
      <3> QED
        BY <3>9, <3>10
    <2> QED
      BY <2>2, <2>3
  <1> HIDE DEF G
  <1>4. Cell(a, b) \subseteq G
    BY <1>3, CellInduction
  <1>5. <<1, 1>> \in Cell(a, b)
    BY DEF Cell
  <1> QED
    BY <1>2, <1>4, <1>5 DEF G

\* A list is matched with itself place by place.
LEMMA LcsPairsOfItself ==
  ASSUME NEW S, NEW a \in Seq(S)
  PROVE  LcsPairs(a, a) = {<<i, i>> : i \in 1..Len(a)}
  <1> DEFINE t == CHOOSE t : IsTable(t, a, a)
             w == CHOOSE w : IsWalk(w, t, a, a)
             n == Len(a)
             G == {p \in Cell(a, a) : p[1] = p[2] => w[p] = {<<i, i>> : i \in p[1]..n}}
  <1> HIDE DEF t
  <1>1. IsWalk(w, t, a, a)
    BY WalksExist
  <1>2. LcsPairs(a, a) = w[<<1, 1>>]
    BY LcsIsWalk DEF t
  <1> HIDE DEF w
  <1>3. ASSUME NEW p \in Cell(a, a),
               \A q \in Cell(a, a) : Far(a, a, q) < Far(a, a, p) => q \in G
        PROVE  p \in G
    <2> SUFFICES ASSUME p[1] = p[2] PROVE w[p] = {<<i, i>> : i \in p[1]..n}
      OBVIOUS
    <2>0. n \in Nat /\ p[1] \in 1..(n + 1) /\ p = <<p[1], p[1]>>
      BY DEF Cell
    <2>1. w[p] = Walked(w, t, a, a, p)
      BY <1>1 DEF IsWalk
    <2>2. CASE Gone(a, a, p)
      <3>1. p[1]..n = {}
        BY <2>0, <2>2 DEF Gone
      <3>2. w[p] = {}
        BY <2>1, <2>2 DEF Walked
      <3> QED
        BY <3>1, <3>2
    <2>3. CASE ~Gone(a, a, p)
      <3> DEFINE q == <<p[1] + 1, p[1] + 1>>
      <3>1. Onward(t, a, a, p) = q /\ Taken(a, a, p) = {p}
        BY DEF Onward, Taken
      <3>2. q \in Cell(a, a) /\ q \in G
        BY <1>3, <2>3, <3>1, OnwardIsNearer
      <3>3. q[1] = p[1] + 1 /\ q[2] = p[1] + 1
        OBVIOUS
      <3> HIDE DEF q
      <3>4. w[q] = {<<i, i>> : i \in (p[1] + 1)..n}
        BY <3>2, <3>3
      <3>5. w[p] = {p} \union w[q]
        BY <2>1, <2>3, <3>1 DEF Walked
      <3>6. p[1]..n = {p[1]} \union (p[1] + 1)..n
        BY <2>0, <2>3 DEF Gone
      <3> QED
        BY <2>0, <3>4, <3>5, <3>6
    <2> QED
      BY <2>2, <2>3
  <1> HIDE DEF G
  <1>4. Cell(a, a) \subseteq G
    BY <1>3, CellInduction
  <1>5. <<1, 1>> \in Cell(a, a)
    BY DEF Cell
  <1> QED
    BY <1>2, <1>4, <1>5 DEF G

(***************************************************************************)
(* alignToBase: how the alignment cuts the other list into the units that  *)
(* stand for units of the base and those inserted between them.            *)
(***************************************************************************)
InOrder(P, n, m) ==
    /\ P \subseteq (1..n) \X (1..m)
    /\ \A p, q \in P : p[1] < q[1] <=> p[2] < q[2]

Anchors(P) == {0} \union {p[1] : p \in P}
LastAnchor(P, i) == Max({0} \union {p[1] : p \in {p \in P : p[1] < i}})
PartnerOf(P, i) == IF i = 0 THEN 0 ELSE (CHOOSE p \in P : p[1] = i)[2]
NextPair(P, n, m, i) ==
    CHOOSE p \in P \union {<<n + 1, m + 1>>} :
        /\ p[1] > i
        /\ \A q \in P : q[1] > i => q[1] >= p[1]
EvenGap(P, n, m, i) == NextPair(P, n, m, i)[1] - i = NextPair(P, n, m, i)[2] - PartnerOf(P, i)

LEMMA AlignmentIs ==
  ASSUME NEW P, NEW n, NEW m, NEW al, al = Alignment(P, n, m)
  PROVE  /\ \A i \in 1..n : al.counterpart[i] =
                    IF i \in Anchors(P) THEN PartnerOf(P, i)
                    ELSE IF EvenGap(P, n, m, LastAnchor(P, i))
                         THEN PartnerOf(P, LastAnchor(P, i)) + i - LastAnchor(P, i)
                    ELSE 0
         /\ \A i \in 0..n : al.inserts[i] =
                    IF i \in Anchors(P) /\ ~EvenGap(P, n, m, i)
                    THEN [k \in 1..NextPair(P, n, m, i)[2] - PartnerOf(P, i) - 1 |-> PartnerOf(P, i) + k]
                    ELSE <<>>
  <1>1. al.counterpart =
                [i \in 1..n |->
                    IF i \in Anchors(P) THEN PartnerOf(P, i)
                    ELSE IF EvenGap(P, n, m, LastAnchor(P, i))
                         THEN PartnerOf(P, LastAnchor(P, i)) + i - LastAnchor(P, i)
                    ELSE 0]
    BY DEF Alignment, Anchors, PartnerOf, EvenGap, NextPair, LastAnchor
  <1>2. al.inserts =
                [i \in 0..n |->
                    IF i \in Anchors(P) /\ ~EvenGap(P, n, m, i)
                    THEN [k \in 1..NextPair(P, n, m, i)[2] - PartnerOf(P, i) - 1 |-> PartnerOf(P, i) + k]
                    ELSE <<>>]
    BY DEF Alignment, Anchors, PartnerOf, EvenGap, NextPair, LastAnchor
  <1> QED
    BY <1>1, <1>2

LEMMA GreatestExists ==
  ASSUME NEW n \in Nat, NEW S \in SUBSET (0..n), S # {}
  PROVE  Max(S) \in S /\ \A y \in S : Max(S) >= y
  <1> DEFINE N == {k \in Nat : \A T \in SUBSET (0..k) : T # {} => \E x \in T : \A y \in T : x >= y}
  <1>1. 0 \in N
    <2> SUFFICES ASSUME NEW T \in SUBSET (0..0), T # {} PROVE \E x \in T : \A y \in T : x >= y
      OBVIOUS
    <2>1. \A y \in T : y = 0
      OBVIOUS
    <2>2. 0 \in T
      BY <2>1
    <2> QED
      BY <2>1, <2>2
  <1>2. ASSUME NEW k \in Nat, k \in N PROVE k + 1 \in N
    <2> SUFFICES ASSUME NEW T \in SUBSET (0..(k + 1)), T # {} PROVE \E x \in T : \A y \in T : x >= y
      OBVIOUS
    <2>1. CASE k + 1 \in T
      BY <2>1
    <2>2. CASE k + 1 \notin T
      <3>1. \A y \in T : y \in 0..k
        BY <2>2
      <3>2. T \in SUBSET (0..k)
        BY <3>1
      <3> QED
        BY <1>2, <3>2
    <2> QED
      BY <2>1, <2>2
  <1> HIDE DEF N
  <1>3. Nat \subseteq N
    BY <1>1, <1>2, NatSetInduction
  <1>4. \E x \in S : \A y \in S : x >= y
    BY <1>3 DEF N
  <1> QED
    BY <1>4 DEF Max

LEMMA LeastExists ==
  ASSUME NEW S \in SUBSET Nat, S # {}
  PROVE  \E x \in S : \A y \in S : y >= x
  <1>1. PICK n \in S : TRUE
    OBVIOUS
  <1> DEFINE U == {n - y : y \in {y \in S : y <= n}}
  <1>2. n \in Nat /\ U \in SUBSET (0..n) /\ n - n \in U
    BY <1>1
  <1>3. Max(U) \in U /\ \A y \in U : Max(U) >= y
    BY <1>2, GreatestExists
  <1>4. PICK x \in S : x <= n /\ Max(U) = n - x
    <2> DEFINE g == Max(U)
    <2>1. g \in U
      BY <1>3
    <2> HIDE DEF g
    <2>2. \E x \in S : x <= n /\ g = n - x
      BY <2>1
    <2> QED
      BY <2>2 DEF g
  <1>5. ASSUME NEW y \in S PROVE y >= x
    <2>1. CASE y <= n
      <3>1. n - y \in U
        BY <2>1
      <3>2. n - x >= n - y
        BY <1>3, <1>4, <3>1
      <3> QED
        BY <1>2, <3>2
    <2>2. CASE ~(y <= n)
      BY <1>2, <1>4, <2>2
    <2> QED
      BY <2>1, <2>2
  <1> QED
    BY <1>5

LEMMA NextPairIs ==
  ASSUME NEW n \in Nat, NEW m \in Nat, NEW P, InOrder(P, n, m), NEW i \in 0..n
  PROVE  /\ NextPair(P, n, m, i) \in P \union {<<n + 1, m + 1>>}
         /\ NextPair(P, n, m, i)[1] > i
         /\ \A q \in P : q[1] > i => q[1] >= NextPair(P, n, m, i)[1]
  <1> DEFINE A == P \union {<<n + 1, m + 1>>}
             S == {x \in Nat : x > i /\ \E p \in A : p[1] = x}
  <1>1. P \subseteq (1..n) \X (1..m)
    BY DEF InOrder
  <1>2. \A p \in A : p[1] \in Nat
    BY <1>1
  <1>3. S \in SUBSET Nat
    OBVIOUS
  <1>4. n + 1 \in S
    <2> DEFINE e == <<n + 1, m + 1>>
    <2>1. e \in A /\ e[1] = n + 1
      OBVIOUS
    <2> HIDE DEF e, A
    <2> QED
      BY <2>1
  <1>5. PICK x \in S : \A y \in S : y >= x
    <2> HIDE DEF S
    <2> QED
      BY <1>3, <1>4, LeastExists
  <1>6. PICK p \in A : p[1] > i /\ x = p[1]
    BY <1>5
  <1>7. \A q \in P : q[1] > i => q[1] >= p[1]
    BY <1>2, <1>5, <1>6
  <1>8. \E p1 \in A : p1[1] > i /\ \A q \in P : q[1] > i => q[1] >= p1[1]
    BY <1>6, <1>7
  <1> QED
    BY <1>8 DEF NextPair

LEMMA PartnerIs ==
  ASSUME NEW n \in Nat, NEW m \in Nat, NEW P, InOrder(P, n, m), NEW p \in P
  PROVE  PartnerOf(P, p[1]) = p[2]
  <1> DEFINE q == CHOOSE q \in P : q[1] = p[1]
  <1>1. q \in P /\ q[1] = p[1]
    OBVIOUS
  <1> HIDE DEF q
  <1>2. P \subseteq (1..n) \X (1..m)
    BY DEF InOrder
  <1>3. p[1] \in 1..n /\ p[2] \in 1..m /\ q[2] \in 1..m
    BY <1>1, <1>2
  <1>4. ~(p[1] < q[1]) /\ ~(q[1] < p[1])
    BY <1>1, <1>3
  <1>5. ~(p[2] < q[2]) /\ ~(q[2] < p[2])
    BY <1>1, <1>4 DEF InOrder
  <1>6. q[2] = p[2]
    BY <1>3, <1>5
  <1> QED
    BY <1>3, <1>6 DEF PartnerOf, q

\* The anchor a unit of the base goes by: itself, or the last before it.
Stand(P, i) == IF i \in Anchors(P) THEN i ELSE LastAnchor(P, i)

LEMMA StandIs ==
  ASSUME NEW n \in Nat, NEW m \in Nat, NEW P, InOrder(P, n, m), NEW i \in 0..n
  PROVE  /\ Stand(P, i) \in Anchors(P) /\ Stand(P, i) \in 0..n /\ Stand(P, i) <= i
         /\ \A j \in Anchors(P) : j <= i => j <= Stand(P, i)
         /\ i < NextPair(P, n, m, Stand(P, i))[1]
  <1>1. P \subseteq (1..n) \X (1..m)
    BY DEF InOrder
  <1>2. Anchors(P) \subseteq 0..n /\ 0 \in Anchors(P)
    BY <1>1 DEF Anchors
  <1> DEFINE k == Stand(P, i)
  <1>3. k \in Anchors(P) /\ k <= i /\ \A j \in Anchors(P) : j <= i => j <= k
    <2>1. CASE i \in Anchors(P)
      BY <1>2, <2>1 DEF Stand
    <2>2. CASE i \notin Anchors(P)
      <3> DEFINE S == {0} \union {p[1] : p \in {p \in P : p[1] < i}}
      <3>1. \A j \in S : j \in Anchors(P) /\ j < i
        BY <1>2, <2>2 DEF Anchors
      <3>2. \A j \in Anchors(P) : j <= i => j \in S
        BY <1>2, <2>2 DEF Anchors
      <3>3. k = Max(S)
        BY <2>2 DEF Stand, LastAnchor
      <3>4. 0 \in S
        OBVIOUS
      <3> HIDE DEF S, k
      <3>5. S \in SUBSET (0..n) /\ S # {}
        BY <1>2, <3>1, <3>4
      <3>6. k \in S /\ \A y \in S : k >= y
        BY <3>3, <3>5, GreatestExists
      <3>7. k \in 0..n /\ \A y \in S : y \in 0..n
        BY <3>5, <3>6
      <3>8. k \in Anchors(P) /\ k < i
        BY <3>1, <3>6
      <3>9. \A j \in Anchors(P) : j <= i => j <= k
        BY <3>2, <3>6, <3>7
      <3> QED
        BY <3>7, <3>8, <3>9
    <2> QED
      BY <2>1, <2>2
  <1> HIDE DEF k
  <1>4. k \in 0..n
    BY <1>2, <1>3
  <1> DEFINE p == NextPair(P, n, m, k)
  <1>5. p \in P \union {<<n + 1, m + 1>>} /\ p[1] > k
    BY <1>4, NextPairIs
  <1> HIDE DEF p
  <1>6. i < p[1]
    <2>1. CASE p \in P
      <3>1. p[1] \in Anchors(P) /\ p[1] \in 1..n
        BY <1>1, <2>1 DEF Anchors
      <3>2. ~(p[1] <= i)
        BY <1>3, <1>4, <1>5, <3>1
      <3> QED
        BY <3>1, <3>2
    <2>2. CASE p = <<n + 1, m + 1>>
      BY <2>2
    <2> QED
      BY <1>5, <2>1, <2>2
  <1> QED
    BY <1>3, <1>4, <1>6 DEF k, p

\* How much of the other list stands before what follows unit i of the base.
Reach(P, n, m, i) ==
    IF EvenGap(P, n, m, Stand(P, i)) THEN PartnerOf(P, Stand(P, i)) + i - Stand(P, i)
    ELSE NextPair(P, n, m, Stand(P, i))[2] - 1

\* What the gap behind an anchor is: numbers in their bounds.
LEMMA GapIs ==
  ASSUME NEW n \in Nat, NEW m \in Nat, NEW P, InOrder(P, n, m), NEW k \in Anchors(P)
  PROVE  /\ k \in 0..n /\ PartnerOf(P, k) \in 0..m /\ (PartnerOf(P, k) = 0 <=> k = 0)
         /\ NextPair(P, n, m, k)[1] \in 1..(n + 1) /\ NextPair(P, n, m, k)[2] \in 1..(m + 1)
         /\ NextPair(P, n, m, k)[1] > k /\ NextPair(P, n, m, k)[2] > PartnerOf(P, k)
  <1>1. P \subseteq (1..n) \X (1..m)
    BY DEF InOrder
  <1>2. k \in 0..n
    BY <1>1 DEF Anchors
  <1> DEFINE p == NextPair(P, n, m, k)
             r == PartnerOf(P, k)
  <1>3. p \in P \union {<<n + 1, m + 1>>} /\ p[1] > k
    BY <1>2, NextPairIs
  <1> HIDE DEF p
  <1>4. p[1] \in 1..(n + 1) /\ p[2] \in 1..(m + 1) /\ (p \notin P => p[2] = m + 1)
    BY <1>1, <1>3
  <1>5. CASE k = 0
    <2>1. r = 0
      BY <1>5 DEF PartnerOf
    <2> QED
      BY <1>2, <1>3, <1>4, <1>5, <2>1 DEF p
  <1>6. CASE k # 0
    <2>1. PICK q \in P : q[1] = k
      BY <1>6 DEF Anchors
    <2>2. r = q[2] /\ q[2] \in 1..m
      BY <1>1, <2>1, PartnerIs
    <2> HIDE DEF r
    <2>3. p[2] > r
      <3>1. CASE p \in P
        <4>1. q[1] < p[1]
          BY <1>2, <1>3, <1>4, <2>1
        <4>2. q[2] < p[2]
          BY <2>1, <3>1, <4>1 DEF InOrder
        <4> QED
          BY <1>4, <2>2, <4>2
      <3>2. CASE p \notin P
        BY <1>4, <2>2, <3>2
      <3> QED
        BY <3>1, <3>2
    <2> QED
      BY <1>2, <1>3, <1>4, <1>6, <2>2, <2>3 DEF p, r
  <1> QED
    BY <1>5, <1>6

LEMMA ReachIs ==
  ASSUME NEW n \in Nat, NEW m \in Nat, NEW P, InOrder(P, n, m), NEW i \in 0..n
  PROVE  Reach(P, n, m, i) \in 0..m
  <1> DEFINE k == Stand(P, i)
             r == PartnerOf(P, k)
             p1 == NextPair(P, n, m, k)[1]
             p2 == NextPair(P, n, m, k)[2]
  <1>1. k \in Anchors(P) /\ k \in 0..n /\ k <= i /\ i < p1
    BY StandIs
  <1>2. r \in 0..m /\ p1 \in 1..(n + 1) /\ p2 \in 1..(m + 1)
    BY <1>1, GapIs
  <1>3. Reach(P, n, m, i) = IF p1 - k = p2 - r THEN r + i - k ELSE p2 - 1
    BY DEF Reach, EvenGap
  <1> HIDE DEF k, r, p1, p2
  <1> QED
    BY <1>1, <1>2, <1>3

LEMMA ReachEnds ==
  ASSUME NEW n \in Nat, NEW m \in Nat, NEW P, InOrder(P, n, m)
  PROVE  Reach(P, n, m, n) = m
  <1> DEFINE k == Stand(P, n)
             r == PartnerOf(P, k)
             p == NextPair(P, n, m, k)
  <1>1. n \in 0..n
    OBVIOUS
  <1>2. k \in Anchors(P) /\ k \in 0..n /\ n < p[1]
    BY <1>1, StandIs
  <1>3. p \in P \union {<<n + 1, m + 1>>}
    BY <1>2, NextPairIs
  <1>4. p = <<n + 1, m + 1>>
    <2> HIDE DEF p
    <2>1. p \in P => p[1] \in 1..n
      BY DEF InOrder
    <2> QED
      BY <1>2, <1>3, <2>1
  <1>5. r \in 0..m
    BY <1>2, GapIs
  <1>6. p[1] = n + 1 /\ p[2] = m + 1
    BY <1>4
  <1>7. Reach(P, n, m, n) = IF p[1] - k = p[2] - r THEN r + n - k ELSE p[2] - 1
    BY DEF Reach, EvenGap
  <1> HIDE DEF k, r, p
  <1> QED
    BY <1>2, <1>5, <1>6, <1>7

\* r[i] units of the other list stand before what follows unit i of the base;
\* the next of them is in the place of the unit, those after it are inserted.
Partition(al, n, m, r) ==
    /\ r \in [0..n -> 0..m] /\ r[n] = m
    /\ al.inserts[0] = [k \in 1..r[0] |-> k]
    /\ \A i \in 1..n :
          \/ al.counterpart[i] = 0 /\ r[i - 1] <= r[i]
             /\ al.inserts[i] = [k \in 1..r[i] - r[i - 1] |-> r[i - 1] + k]
          \/ al.counterpart[i] = r[i - 1] + 1 /\ r[i - 1] < r[i]
             /\ al.inserts[i] = [k \in 1..r[i] - r[i - 1] - 1 |-> r[i - 1] + 1 + k]

LEMMA AnchorStep ==
  ASSUME NEW n \in Nat, NEW m \in Nat, NEW P, InOrder(P, n, m),
         NEW i \in 1..n, i \in Anchors(P)
  PROVE  Reach(P, n, m, i - 1) = PartnerOf(P, i) - 1
  <1> DEFINE k == Stand(P, i - 1)
             r == PartnerOf(P, k)
             p == NextPair(P, n, m, k)
  <1>0. i - 1 \in 0..n
    OBVIOUS
  <1>1. k \in Anchors(P) /\ k \in 0..n /\ k <= i - 1 /\ i - 1 < p[1]
        /\ \A j \in Anchors(P) : j <= i - 1 => j <= k
    BY <1>0, StandIs
  <1>2. p \in P \union {<<n + 1, m + 1>>} /\ \A q \in P : q[1] > k => q[1] >= p[1]
    BY <1>1, NextPairIs
  <1>3. p[1] \in 1..(n + 1) /\ p[2] \in 1..(m + 1) /\ r \in 0..m
    BY <1>1, GapIs
  <1>4. PICK q \in P : q[1] = i
    BY DEF Anchors
  <1>5. Reach(P, n, m, i - 1) = IF p[1] - k = p[2] - r THEN r + (i - 1) - k ELSE p[2] - 1
    BY DEF Reach, EvenGap
  <1> HIDE DEF k, r, p
  <1>6. i > k
    BY <1>1
  <1>7. p[1] = i
    <2>1. i >= p[1]
      BY <1>2, <1>4, <1>6
    <2> QED
      BY <1>1, <1>3, <2>1
  <1>8. p \in P
    <2>1. <<n + 1, m + 1>>[1] = n + 1
      OBVIOUS
    <2>2. p # <<n + 1, m + 1>>
      BY <1>7, <2>1
    <2> QED
      BY <1>2, <2>2
  <1>9. PartnerOf(P, i) = p[2]
    BY <1>7, <1>8, PartnerIs
  <1> QED
    BY <1>1, <1>3, <1>5, <1>7, <1>9

LEMMA OtherStep ==
  ASSUME NEW n \in Nat, NEW m \in Nat, NEW P, InOrder(P, n, m),
         NEW i \in 1..n, i \notin Anchors(P)
  PROVE  Stand(P, i) = Stand(P, i - 1)
  <1>1. /\ Stand(P, i) \in Anchors(P) /\ Stand(P, i) \in 0..n /\ Stand(P, i) <= i
        /\ \A j \in Anchors(P) : j <= i => j <= Stand(P, i)
    BY StandIs
  <1>2. i - 1 \in 0..n
    OBVIOUS
  <1>3. /\ Stand(P, i - 1) \in Anchors(P) /\ Stand(P, i - 1) \in 0..n /\ Stand(P, i - 1) <= i - 1
        /\ \A j \in Anchors(P) : j <= i - 1 => j <= Stand(P, i - 1)
    BY <1>2, StandIs
  <1>4. Stand(P, i) <= i - 1
    BY <1>1
  <1>5. Stand(P, i) <= Stand(P, i - 1)
    BY <1>1, <1>3, <1>4
  <1>6. Stand(P, i - 1) <= Stand(P, i)
    BY <1>1, <1>3
  <1> QED
    BY <1>1, <1>3, <1>5, <1>6

LEMMA AlignmentPartitions ==
  ASSUME NEW n \in Nat, NEW m \in Nat, NEW P, InOrder(P, n, m), NEW al, al = Alignment(P, n, m)
  PROVE  \E r : Partition(al, n, m, r)
  <1> DEFINE r == [i \in 0..n |-> Reach(P, n, m, i)]
             gap(i) == NextPair(P, n, m, i)[2]
             pal(i) == PartnerOf(P, i)
             even(i) == EvenGap(P, n, m, i)
  <1>1. /\ \A i \in 1..n : al.counterpart[i] =
                    IF i \in Anchors(P) THEN pal(i)
                    ELSE IF even(LastAnchor(P, i)) THEN pal(LastAnchor(P, i)) + i - LastAnchor(P, i)
                    ELSE 0
        /\ \A i \in 0..n : al.inserts[i] =
                    IF i \in Anchors(P) /\ ~even(i)
                    THEN [k \in 1..gap(i) - pal(i) - 1 |-> pal(i) + k]
                    ELSE <<>>
    BY AlignmentIs
  <1>2. r \in [0..n -> 0..m]
    BY ReachIs
  <1>3. r[n] = m
    BY ReachEnds
  <1>4. \A i \in 0..n : r[i] = IF even(Stand(P, i)) THEN pal(Stand(P, i)) + i - Stand(P, i)
                               ELSE gap(Stand(P, i)) - 1
    BY DEF Reach
  <1>5. \A i \in 0..n : r[i] = Reach(P, n, m, i)
    OBVIOUS
  <1>6. \A i \in Anchors(P) : /\ i \in 0..n /\ pal(i) \in 0..m /\ (pal(i) = 0 <=> i = 0)
                              /\ gap(i) \in 1..(m + 1) /\ gap(i) > pal(i) /\ Stand(P, i) = i
    BY GapIs DEF Stand
  <1> HIDE DEF r, gap, pal, even
  <1>7. al.inserts[0] = [k \in 1..r[0] |-> k]
    <2>1. 0 \in Anchors(P) /\ 0 \in 0..n
      BY DEF Anchors
    <2>2. pal(0) = 0 /\ gap(0) \in 1..(m + 1) /\ Stand(P, 0) = 0
      BY <1>6, <2>1
    <2>3. CASE even(0)
      <3>1. r[0] = 0
        BY <1>4, <2>1, <2>2, <2>3
      <3>2. al.inserts[0] = <<>>
        BY <1>1, <2>1, <2>3
      <3> QED
        BY <3>1, <3>2
    <2>4. CASE ~even(0)
      <3>1. r[0] = gap(0) - 1
        BY <1>4, <2>1, <2>2, <2>4
      <3>2. al.inserts[0] = [k \in 1..gap(0) - 0 - 1 |-> 0 + k]
        BY <1>1, <2>1, <2>2, <2>4
      <3>3. gap(0) - 0 - 1 = r[0]
        BY <2>2, <3>1
      <3>4. \A k \in 1..r[0] : 0 + k = k
        OBVIOUS
      <3> QED
        BY <3>2, <3>3, <3>4
    <2> QED
      BY <2>3, <2>4
  <1>8. ASSUME NEW i \in 1..n
        PROVE  \/ al.counterpart[i] = 0 /\ r[i - 1] <= r[i]
                  /\ al.inserts[i] = [k \in 1..r[i] - r[i - 1] |-> r[i - 1] + k]
               \/ al.counterpart[i] = r[i - 1] + 1 /\ r[i - 1] < r[i]
                  /\ al.inserts[i] = [k \in 1..r[i] - r[i - 1] - 1 |-> r[i - 1] + 1 + k]
    <2>0. i \in 0..n /\ i - 1 \in 0..n /\ r[i] \in 0..m /\ r[i - 1] \in 0..m
      BY <1>2
    <2>1. CASE i \in Anchors(P)
      <3>1. pal(i) \in 0..m /\ gap(i) \in 1..(m + 1) /\ gap(i) > pal(i) /\ Stand(P, i) = i
        BY <1>6, <2>1
      <3>2. r[i - 1] = pal(i) - 1
        BY <1>5, <2>0, <2>1, AnchorStep DEF pal
      <3>3. al.counterpart[i] = pal(i)
        BY <1>1, <2>1
      <3>4. al.counterpart[i] = r[i - 1] + 1
        BY <3>1, <3>2, <3>3
      <3>5. CASE even(i)
        <4>1. r[i] = pal(i) + i - i
          BY <1>4, <2>0, <3>1, <3>5
        <4>2. r[i] = pal(i)
          BY <3>1, <4>1
        <4>3. al.inserts[i] = <<>>
          BY <1>1, <2>0, <3>5
        <4>4. r[i] - r[i - 1] - 1 = 0 /\ r[i - 1] < r[i]
          BY <3>1, <3>2, <4>2
        <4>5. al.inserts[i] = [k \in 1..r[i] - r[i - 1] - 1 |-> r[i - 1] + 1 + k]
          BY <4>3, <4>4
        <4> QED
          BY <3>4, <4>4, <4>5
      <3>6. CASE ~even(i)
        <4>1. r[i] = gap(i) - 1
          BY <1>4, <2>0, <3>1, <3>6
        <4>2. al.inserts[i] = [k \in 1..gap(i) - pal(i) - 1 |-> pal(i) + k]
          BY <1>1, <2>0, <2>1, <3>6
        <4>3. gap(i) - pal(i) - 1 = r[i] - r[i - 1] - 1 /\ pal(i) = r[i - 1] + 1 /\ r[i - 1] < r[i]
          BY <3>1, <3>2, <4>1
        <4>4. al.inserts[i] = [k \in 1..r[i] - r[i - 1] - 1 |-> r[i - 1] + 1 + k]
          BY <4>2, <4>3
        <4> QED
          BY <3>4, <4>3, <4>4
      <3> QED
        BY <3>5, <3>6
    <2>2. CASE i \notin Anchors(P)
      <3> DEFINE k == Stand(P, i)
      <3>1. k = Stand(P, i - 1) /\ k = LastAnchor(P, i)
        BY <2>2, OtherStep DEF Stand
      <3>2. k \in Anchors(P)
        BY <2>0, StandIs
      <3>3. al.inserts[i] = <<>>
        BY <1>1, <2>0, <2>2
      <3>4. al.counterpart[i] = IF even(k) THEN pal(k) + i - k ELSE 0
        BY <1>1, <2>2, <3>1
      <3>5. /\ r[i] = IF even(k) THEN pal(k) + i - k ELSE gap(k) - 1
            /\ r[i - 1] = IF even(k) THEN pal(k) + (i - 1) - k ELSE gap(k) - 1
        BY <1>4, <2>0, <3>1
      <3>6. pal(k) \in 0..m /\ k \in 0..n
        BY <1>6, <3>2
      <3> HIDE DEF k
      <3>7. CASE even(k)
        <4>1. r[i] = r[i - 1] + 1 /\ al.counterpart[i] = r[i]
          BY <3>4, <3>5, <3>6, <3>7
        <4>2. r[i] - r[i - 1] - 1 = 0 /\ r[i - 1] < r[i]
          BY <2>0, <4>1
        <4>3. al.inserts[i] = [j \in 1..r[i] - r[i - 1] - 1 |-> r[i - 1] + 1 + j]
          BY <3>3, <4>2
        <4> QED
          BY <4>1, <4>2, <4>3
      <3>8. CASE ~even(k)
        <4>1. r[i] = r[i - 1] /\ al.counterpart[i] = 0
          BY <3>4, <3>5, <3>8
        <4>2. r[i] - r[i - 1] = 0 /\ r[i - 1] <= r[i]
          BY <2>0, <4>1
        <4>3. al.inserts[i] = [j \in 1..r[i] - r[i - 1] |-> r[i - 1] + j]
          BY <3>3, <4>2
        <4> QED
          BY <4>1, <4>2, <4>3
      <3> QED
        BY <3>7, <3>8
    <2> QED
      BY <2>1, <2>2
  <1>9. Partition(al, n, m, r)
    BY <1>2, <1>3, <1>7, <1>8 DEF Partition
  <1> QED
    BY <1>9

\* Aligned with itself, every unit of the base is in its own place.
LEMMA AlignmentWithItself ==
  ASSUME NEW S, NEW a \in Seq(S), NEW al, al = AlignToBase(a, a)
  PROVE  /\ \A i \in 1..Len(a) : al.counterpart[i] = i
         /\ \A i \in 0..Len(a) : al.inserts[i] = <<>>
  <1> DEFINE n == Len(a)
             P == LcsPairs(a, a)
  <1>1. n \in Nat /\ P = {<<i, i>> : i \in 1..n} /\ al = Alignment(P, n, n)
    BY LcsPairsOfItself DEF AlignToBase
  <1> HIDE DEF n, P
  <1>2. InOrder(P, n, n)
    BY <1>1 DEF InOrder
  <1>3. Anchors(P) = 0..n
    <2>1. {p[1] : p \in P} = 1..n
      <3>1. \A i \in 1..n : <<i, i>> \in P /\ <<i, i>>[1] = i
        BY <1>1
      <3>2. \A p \in P : p[1] \in 1..n
        BY <1>1
      <3> QED
        BY <3>1, <3>2
    <2> QED
      BY <1>1, <2>1 DEF Anchors
  <1>4. ASSUME NEW i \in 0..n PROVE PartnerOf(P, i) = i
    <2>1. CASE i = 0
      BY <2>1 DEF PartnerOf
    <2>2. CASE i # 0
      <3> DEFINE p == <<i, i>>
      <3>1. p \in P /\ p[1] = i /\ p[2] = i
        BY <1>1, <2>2
      <3> HIDE DEF p
      <3> QED
        BY <1>1, <1>2, <3>1, PartnerIs
    <2> QED
      BY <2>1, <2>2
  <1>5. ASSUME NEW i \in 0..n PROVE EvenGap(P, n, n, i)
    <2> DEFINE p == NextPair(P, n, n, i)
    <2>1. p \in P \union {<<n + 1, n + 1>>}
      BY <1>1, <1>2, NextPairIs
    <2>2. p[1] = p[2]
      BY <1>1, <2>1
    <2>3. PartnerOf(P, i) = i
      BY <1>4
    <2> HIDE DEF p
    <2> QED
      BY <2>2, <2>3 DEF EvenGap, p
  <1>6. ASSUME NEW i \in 1..n PROVE al.counterpart[i] = i
    <2>1. i \in 0..n
      BY <1>1
    <2>2. al.counterpart[i] = PartnerOf(P, i)
      BY <1>1, <1>3, <2>1, AlignmentIs
    <2> QED
      BY <1>4, <2>1, <2>2
  <1>7. ASSUME NEW i \in 0..n PROVE al.inserts[i] = <<>>
    <2>1. EvenGap(P, n, n, i)
      BY <1>5
    <2>2. al.inserts[i] =
                    IF i \in Anchors(P) /\ ~EvenGap(P, n, n, i)
                    THEN [k \in 1..NextPair(P, n, n, i)[2] - PartnerOf(P, i) - 1 |-> PartnerOf(P, i) + k]
                    ELSE <<>>
      <3>1. al = Alignment(P, n, n)
        BY <1>1
      <3> QED
        BY ONLY <3>1, AlignmentIs, i \in 0..n
    <2> QED
      BY <2>1, <2>2
  <1> QED
    BY <1>6, <1>7 DEF n

LEMMA AlignToBasePartitions ==
  ASSUME NEW S, NEW a \in Seq(S), NEW b \in Seq(S), NEW al, al = AlignToBase(a, b)
  PROVE  \E r : Partition(al, Len(a), Len(b), r)
  <1> DEFINE n == Len(a)
             m == Len(b)
             P == LcsPairs(a, b)
  <1>1. n \in Nat /\ m \in Nat /\ al = Alignment(P, n, m)
    BY DEF AlignToBase
  <1>2. InOrder(P, n, m)
    BY LcsPairsMatch DEF Matching, InOrder
  <1> HIDE DEF n, m, P
  <1>3. \E r : Partition(al, n, m, r)
    BY <1>1, <1>2, AlignmentPartitions
  <1> QED
    BY <1>3 DEF n, m

(***************************************************************************)
(* A list flattened out of pieces.                                         *)
(***************************************************************************)
IsFlattening(f, b, n) ==
    f = [i \in 1..n |-> IF i = 1 THEN b[i] ELSE f[i - 1] \o b[i]]

LEMMA FlatteningsExist ==
  ASSUME NEW b, NEW n \in Nat
  PROVE  \E f : IsFlattening(f, b, n)
  <1> DEFINE N == {k \in Nat : \E f : IsFlattening(f, b, k)}
  <1>1. 0 \in N
    <2> DEFINE f == [i \in 1..0 |-> b]
    <2>1. 1..0 = {}
      OBVIOUS
    <2>2. IsFlattening(f, b, 0)
      BY <2>1 DEF IsFlattening
    <2> QED
      BY <2>2
  <1>2. ASSUME NEW k \in Nat, k \in N PROVE k + 1 \in N
    <2>1. PICK f : IsFlattening(f, b, k)
      BY <1>2
    <2> DEFINE g == [i \in 1..(k + 1) |->
                        IF i = 1 THEN b[i] ELSE IF i = k + 1 THEN f[k] \o b[i] ELSE f[i]]
               h == [i \in 1..(k + 1) |-> IF i = 1 THEN b[i] ELSE g[i - 1] \o b[i]]
    <2>2. \A i \in 1..k : f[i] = IF i = 1 THEN b[i] ELSE f[i - 1] \o b[i]
      BY <2>1 DEF IsFlattening
    <2>3. \A i \in 1..k : g[i] = f[i]
      BY <2>2
    <2>4. ASSUME NEW i \in 1..(k + 1) PROVE g[i] = h[i]
      <3>1. g[i] = IF i = 1 THEN b[i] ELSE IF i = k + 1 THEN f[k] \o b[i] ELSE f[i]
        BY DEF g
      <3>2. h[i] = IF i = 1 THEN b[i] ELSE g[i - 1] \o b[i]
        BY DEF h
      <3> HIDE DEF g, h
      <3>3. CASE i = 1
        BY <3>1, <3>2, <3>3
      <3>4. CASE i # 1
        <4>1. i - 1 \in 1..k /\ g[i - 1] = f[i - 1]
          BY <2>3, <3>4
        <4>2. CASE i = k + 1
          <5>1. i - 1 = k
            BY <4>2
          <5> QED
            BY <3>1, <3>2, <3>4, <4>1, <4>2, <5>1
        <4>3. CASE i # k + 1
          <5>1. i \in 1..k
            BY <4>3
          <5>2. g[i] = f[i] /\ f[i] = f[i - 1] \o b[i]
            BY <2>2, <2>3, <3>4, <5>1
          <5> QED
            BY <3>2, <3>4, <4>1, <5>2
        <4> QED
          BY <4>2, <4>3
      <3> QED
        BY <3>3, <3>4
    <2>5. g = h
      BY <2>4
    <2>6. IsFlattening(g, b, k + 1)
      BY <2>5 DEF IsFlattening
    <2> QED
      BY <2>6
  <1> HIDE DEF N
  <1>3. Nat \subseteq N
    BY <1>1, <1>2, NatSetInduction
  <1> QED
    BY <1>3 DEF N

\* f[i] is what the first i pieces make, s the whole.
Flattens(f, c, s) ==
    /\ f[0] = <<>> /\ s = f[Len(c)]
    /\ \A i \in 1..Len(c) : f[i] = f[i - 1] \o c[i]

LEMMA FlattenSteps ==
  ASSUME NEW U, NEW c \in Seq(Seq(U))
  PROVE  \E f : Flattens(f, c, FlattenSeq(c)) /\ \A i \in 0..Len(c) : f[i] \in Seq(U)
  <1> DEFINE n == Len(c)
             g == CHOOSE g : IsFlattening(g, c, n)
             f == [i \in 0..n |-> IF i = 0 THEN <<>> ELSE g[i]]
  <1>1. n \in Nat /\ \A i \in 1..n : c[i] \in Seq(U)
    OBVIOUS
  <1>2. FlattenSeq(c) = IF n = 0 THEN c ELSE g[n]
    BY DEF FlattenSeq, IsFlattening
  <1>3. IsFlattening(g, c, n)
    BY <1>1, FlatteningsExist
  <1> HIDE DEF g
  <1>4. \A i \in 1..n : g[i] = IF i = 1 THEN c[i] ELSE g[i - 1] \o c[i]
    BY <1>3 DEF IsFlattening
  <1>5. f[0] = <<>> /\ \A i \in 1..n : f[i] = g[i]
    BY <1>1
  <1>6. n = 0 => c = <<>>
    OBVIOUS
  <1> HIDE DEF f, n
  <1>7. FlattenSeq(c) = f[n]
    BY <1>1, <1>2, <1>5, <1>6
  <1>8. ASSUME NEW i \in 1..n PROVE f[i] = f[i - 1] \o c[i]
    <2>1. CASE i = 1
      <3>1. f[i] = c[i] /\ f[i - 1] = <<>>
        BY <1>4, <1>5, <2>1
      <3>2. c[i] \in Seq(U)
        BY <1>1
      <3> QED
        BY <3>1, <3>2
    <2>2. CASE i # 1
      <3>1. i - 1 \in 1..n
        BY <1>1, <2>2
      <3> QED
        BY <1>4, <1>5, <2>2, <3>1
    <2> QED
      BY <2>1, <2>2
  <1> DEFINE N == {k \in Nat : k <= n => f[k] \in Seq(U)}
  <1>9. 0 \in N
    <2>1. <<>> \in Seq(U)
      OBVIOUS
    <2> QED
      BY <1>5, <2>1
  <1>10. ASSUME NEW k \in Nat, k \in N PROVE k + 1 \in N
    <2> SUFFICES ASSUME k + 1 <= n PROVE f[k + 1] \in Seq(U)
      OBVIOUS
    <2>1. k + 1 \in 1..n /\ (k + 1) - 1 = k /\ k <= n
      BY <1>1
    <2>2. f[k + 1] = f[k] \o c[k + 1]
      BY <1>8, <2>1
    <2>3. f[k] \in Seq(U) /\ c[k + 1] \in Seq(U)
      BY <1>1, <1>10, <2>1
    <2> QED
      BY <2>2, <2>3
  <1> HIDE DEF N
  <1>11. Nat \subseteq N
    BY <1>9, <1>10, NatSetInduction
  <1>12. \A i \in 0..n : f[i] \in Seq(U)
    BY <1>1, <1>11 DEF N
  <1> QED
    BY <1>5, <1>7, <1>8, <1>12 DEF Flattens, n

LEMMA FlattenTyped ==
  ASSUME NEW U, NEW c \in Seq(Seq(U))
  PROVE  FlattenSeq(c) \in Seq(U)
  <1>1. PICK f : Flattens(f, c, FlattenSeq(c)) /\ \A i \in 0..Len(c) : f[i] \in Seq(U)
    BY FlattenSteps
  <1>2. Len(c) \in 0..Len(c)
    OBVIOUS
  <1> QED
    BY <1>1, <1>2 DEF Flattens

\* What is in a piece is in the whole.
Occurs(y, s) == \E x \in 1..Len(s) : s[x] = y

LEMMA FlattenHolds ==
  ASSUME NEW U, NEW c \in Seq(Seq(U)), NEW i \in 1..Len(c), NEW k \in 1..Len(c[i])
  PROVE  Occurs(c[i][k], FlattenSeq(c))
  <1> DEFINE n == Len(c)
  <1>1. PICK f : Flattens(f, c, FlattenSeq(c)) /\ \A j \in 0..n : f[j] \in Seq(U)
    BY FlattenSteps
  <1>2. n \in Nat /\ \A j \in 1..n : c[j] \in Seq(U) /\ f[j] = f[j - 1] \o c[j]
    <2>1. n \in Nat /\ \A j \in 1..n : c[j] \in Seq(U)
      OBVIOUS
    <2>2. \A j \in 1..n : f[j] = f[j - 1] \o c[j]
      BY <1>1 DEF Flattens
    <2> QED
      BY <2>1, <2>2
  <1>3. FlattenSeq(c) = f[n]
    BY <1>1 DEF Flattens
  <1> HIDE DEF n
  <1>4. i \in 1..n
    BY DEF n
  <1> DEFINE Has(j) == \E x \in 1..Len(f[j]) : f[j][x] = c[i][k]
             N == {j \in Nat : i <= j /\ j <= n => Has(j)}
  <1>5. 0 \in N
    BY <1>4
  <1>6. ASSUME NEW j \in Nat, j \in N PROVE j + 1 \in N
    <2> SUFFICES ASSUME i <= j + 1, j + 1 <= n PROVE Has(j + 1)
      <3> HIDE DEF Has
      <3> QED
        OBVIOUS
    <2>1. j + 1 \in 1..n /\ (j + 1) - 1 = j /\ j \in 0..n
      BY <1>2
    <2> DEFINE p == f[j]
               q == c[j + 1]
    <2>2. f[j + 1] = p \o q
      BY <1>2, <2>1
    <2>3. p \in Seq(U) /\ q \in Seq(U)
      BY <1>1, <1>2, <2>1
    <2>4. CASE i <= j
      <3>1. PICK x \in 1..Len(p) : p[x] = c[i][k]
        BY <1>6, <2>1, <2>4
      <3> HIDE DEF p, q
      <3>2. x \in 1..Len(p \o q) /\ (p \o q)[x] = p[x]
        BY <2>3
      <3> QED
        BY <2>2, <3>1, <3>2
    <2>5. CASE i = j + 1
      <3>1. q[k] = c[i][k] /\ k \in 1..Len(q)
        BY <2>5
      <3> HIDE DEF p, q
      <3>2. Len(p) + k \in 1..Len(p \o q) /\ (p \o q)[Len(p) + k] = q[k]
        BY <2>3, <3>1
      <3> QED
        BY <2>2, <3>1, <3>2
    <2> QED
      BY <1>4, <2>4, <2>5
  <1> HIDE DEF N
  <1>7. Nat \subseteq N
    BY <1>5, <1>6, NatSetInduction
  <1>8. n \in N
    BY <1>2, <1>7
  <1> QED
    BY <1>2, <1>3, <1>4, <1>8 DEF N, Occurs

LEMMA FlattenOfNothing ==
  ASSUME NEW U, NEW c \in Seq(Seq(U)), \A i \in 1..Len(c) : c[i] = <<>>
  PROVE  FlattenSeq(c) = <<>>
  <1> DEFINE n == Len(c)
  <1>1. PICK f : Flattens(f, c, FlattenSeq(c))
    BY FlattenSteps
  <1>2. n \in Nat /\ \A i \in 1..n : c[i] = <<>> /\ f[i] = f[i - 1] \o c[i]
    <2>1. n \in Nat /\ \A i \in 1..n : c[i] = <<>>
      OBVIOUS
    <2>2. \A i \in 1..n : f[i] = f[i - 1] \o c[i]
      BY <1>1 DEF Flattens
    <2> QED
      BY <2>1, <2>2
  <1>3. FlattenSeq(c) = f[n] /\ f[0] = <<>>
    BY <1>1 DEF Flattens
  <1> HIDE DEF n
  <1> DEFINE N == {k \in Nat : k <= n => f[k] = <<>>}
  <1>4. 0 \in N
    BY <1>3
  <1>5. ASSUME NEW k \in Nat, k \in N PROVE k + 1 \in N
    <2> SUFFICES ASSUME k + 1 <= n PROVE f[k + 1] = <<>>
      OBVIOUS
    <2>1. k + 1 \in 1..n /\ (k + 1) - 1 = k /\ k <= n
      BY <1>2
    <2>2. f[k + 1] = f[k] \o <<>> /\ f[k] = <<>>
      BY <1>2, <1>5, <2>1
    <2> QED
      BY <2>2
  <1> HIDE DEF N
  <1>6. Nat \subseteq N
    BY <1>4, <1>5, NatSetInduction
  <1> QED
    BY <1>2, <1>3, <1>6 DEF N

(***************************************************************************)
(* threeWayMerge, in named parts.                                          *)
(***************************************************************************)
SideOf(u, al, i) == IF al.counterpart[i] = 0 THEN <<>> ELSE <<u[al.counterpart[i]]>>
Placed(u, al, i) == [k \in DOMAIN al.inserts[i] |-> u[al.inserts[i][k]]]
Emitted(m, t, A, B, i) == Inserted(Placed(m, A, i), Placed(t, B, i))
Decided(b, m, t, A, B, mu, i) ==
    Decide(<<b[i]>>, SideOf(m, A, i), SideOf(t, B, i),
           mu[<<(<<b[i]>>)[1], SideOf(m, A, i)[1], SideOf(t, B, i)[1]>>])

Reports(b, m, t, A, B, mu) == [i \in 1..Len(b) |-> Decided(b, m, t, A, B, mu, i).conflicts]
Pieces(b, m, t, A, B, mu) ==
    [i \in 1..Len(b) |-> Decided(b, m, t, A, B, mu, i).units \o Emitted(m, t, A, B, i)]

LEMMA CombinedIs ==
  ASSUME NEW U, NEW b \in Seq(U), NEW m, NEW t, NEW A, NEW B, NEW mu,
         NEW res, res = Combined(b, m, t, A, B, mu)
  PROVE  /\ res.conflicts = FlattenSeq(Reports(b, m, t, A, B, mu))
         /\ res.ok = (res.conflicts = <<>>)
         /\ res.units = Emitted(m, t, A, B, 0) \o FlattenSeq(Pieces(b, m, t, A, B, mu))
  <1>1. DOMAIN b = 1..Len(b)
    OBVIOUS
  <1>2. /\ res.conflicts = FlattenSeq([i \in DOMAIN b |-> Decided(b, m, t, A, B, mu, i).conflicts])
        /\ res.ok = (res.conflicts = <<>>)
        /\ res.units = Emitted(m, t, A, B, 0)
               \o FlattenSeq([i \in DOMAIN b |-> Decided(b, m, t, A, B, mu, i).units \o Emitted(m, t, A, B, i)])
    BY DEF Combined, Decided, Emitted, Placed, SideOf
  <1> QED
    BY <1>1, <1>2 DEF Reports, Pieces

LEMMA SameFunctions ==
  ASSUME NEW S, NEW T, NEW f \in [S -> T], NEW g \in [S -> T], \A k \in S : f[k] = g[k]
  PROVE  f = g
  OBVIOUS

PlacesFor(U, u, n, al, r) ==
  /\ \A i \in 0..n : Placed(u, al, i) \in Seq(U)
  /\ \A i \in 1..n : SideOf(u, al, i) = <<>> \/ \E j \in 1..Len(u) : SideOf(u, al, i) = <<u[j]>>
  /\ Placed(u, al, 0) = [k \in 1..r[0] |-> u[k]]
  /\ \A i \in 1..n : SideOf(u, al, i) \o Placed(u, al, i) = [k \in 1..r[i] - r[i - 1] |-> u[r[i - 1] + k]]

LEMMA PlacesAreOfTheSide ==
  ASSUME NEW U, NEW u \in Seq(U), NEW n \in Nat, NEW al, NEW r, Partition(al, n, Len(u), r)
  PROVE  PlacesFor(U, u, n, al, r)
  <1> DEFINE m == Len(u)
  <1>1. m \in Nat /\ \A j \in 1..m : u[j] \in U
    OBVIOUS
  <1> HIDE DEF m
  <1>2. r \in [0..n -> 0..m]
    BY DEF Partition, m
  <1>3. Placed(u, al, 0) = [k \in 1..r[0] |-> u[k]] /\ Placed(u, al, 0) \in Seq(U)
    <2>1. al.inserts[0] = [k \in 1..r[0] |-> k]
      BY DEF Partition
    <2>2. r[0] \in 0..m
      BY <1>2
    <2>3. Placed(u, al, 0) = [k \in 1..r[0] |-> u[k]]
      BY <2>1 DEF Placed
    <2>4. \A k \in 1..r[0] : u[k] \in U
      BY <1>1, <2>2
    <2> QED
      BY <2>2, <2>3, <2>4
  <1>4. ASSUME NEW i \in 1..n
        PROVE  /\ SideOf(u, al, i) = <<>> \/ \E j \in 1..m : SideOf(u, al, i) = <<u[j]>>
               /\ Placed(u, al, i) \in Seq(U)
               /\ SideOf(u, al, i) \o Placed(u, al, i) = [k \in 1..r[i] - r[i - 1] |-> u[r[i - 1] + k]]
    <2> DEFINE x == r[i - 1]
               y == r[i]
               c == al.counterpart[i]
    <2>1. x \in 0..m /\ y \in 0..m
      BY <1>2
    <2>2. \/ c = 0 /\ x <= y /\ al.inserts[i] = [k \in 1..y - x |-> x + k]
          \/ c = x + 1 /\ x < y /\ al.inserts[i] = [k \in 1..y - x - 1 |-> x + 1 + k]
      BY DEF Partition
    <2>3. SideOf(u, al, i) = IF c = 0 THEN <<>> ELSE <<u[c]>>
      BY DEF SideOf
    <2> HIDE DEF x, y, c
    <2>4. CASE c = 0
      <3>1. x <= y /\ al.inserts[i] = [k \in 1..y - x |-> x + k]
        BY <2>1, <2>2, <2>4
      <3> DEFINE g == [k \in 1..y - x |-> u[x + k]]
      <3>2. Placed(u, al, i) = g
        BY <3>1 DEF Placed
      <3>3. \A k \in 1..y - x : u[x + k] \in U
        BY <1>1, <2>1
      <3>4. g \in Seq(U)
        <4>1. y - x \in Nat
          BY <2>1, <3>1
        <4> QED
          BY ONLY <3>3, <4>1
      <3> HIDE DEF g
      <3>5. <<>> \o g = g
        BY <3>4
      <3>6. SideOf(u, al, i) = <<>>
        BY <2>3, <2>4
      <3> QED
        BY <3>2, <3>4, <3>5, <3>6 DEF g, x, y
    <2>5. CASE c # 0
      <3>1. c = x + 1 /\ x < y /\ al.inserts[i] = [k \in 1..y - x - 1 |-> x + 1 + k]
        BY <2>2, <2>5
      <3> DEFINE g == [k \in 1..y - x - 1 |-> u[x + 1 + k]]
                 h == [k \in 1..y - x |-> u[x + k]]
                 e == <<u[x + 1]>>
      <3>2. Placed(u, al, i) = g
        BY <3>1 DEF Placed
      <3>3. \A k \in 1..y - x - 1 : u[x + 1 + k] \in U
        BY <1>1, <2>1
      <3>4. g \in Seq(U) /\ Len(g) = y - x - 1 /\ \A k \in 1..y - x - 1 : g[k] = u[x + 1 + k]
        <4>1. y - x - 1 \in Nat
          BY <2>1, <3>1
        <4> QED
          BY ONLY <3>3, <4>1
      <3>5. u[x + 1] \in U /\ x + 1 \in 1..m
        BY <1>1, <2>1, <3>1
      <3>6. e \in Seq(U) /\ Len(e) = 1 /\ e[1] = u[x + 1]
        BY <3>5
      <3>7. Len(h) = y - x /\ \A k \in 1..y - x : h[k] = u[x + k]
        BY <2>1, <3>1
      <3>8. \A k \in 1..y - x : u[x + k] \in U
        BY <1>1, <2>1
      <3>9. h \in Seq(U)
        <4>1. y - x \in Nat
          BY <2>1, <3>1
        <4> QED
          BY <3>8, <4>1
      <3> HIDE DEF g, h, e
      <3>10. e \o g = h
        <4> DEFINE z == e \o g
        <4>1. z \in Seq(U) /\ Len(z) = y - x
              /\ \A k \in 1..y - x : z[k] = IF k <= 1 THEN e[k] ELSE g[k - 1]
          <5>1. 1 + (y - x - 1) = y - x
            BY <2>1
          <5>2. e \in Seq(U) /\ g \in Seq(U)
            BY <3>4, <3>6
          <5>3. z \in Seq(U) /\ Len(z) = Len(e) + Len(g)
            BY <5>2
          <5>4. \A k \in 1..Len(e) + Len(g) : z[k] = IF k <= Len(e) THEN e[k] ELSE g[k - Len(e)]
            BY <5>2
          <5> QED
            BY <3>4, <3>6, <5>1, <5>3, <5>4
        <4> HIDE DEF z
        <4>2. ASSUME NEW k \in 1..y - x PROVE z[k] = h[k]
          <5>1. CASE k = 1
            BY <3>6, <3>7, <4>1, <5>1
          <5>2. CASE k # 1
            <6>1. k - 1 \in 1..y - x - 1 /\ x + 1 + (k - 1) = x + k /\ ~(k <= 1)
              BY <2>1, <5>2
            <6>2. g[k - 1] = u[x + 1 + (k - 1)]
              BY <3>4, <6>1
            <6> QED
              BY <3>7, <4>1, <6>1, <6>2
          <5> QED
            BY <5>1, <5>2
        <4>3. z = h
          <5>1. z \in [1..y - x -> U] /\ h \in [1..y - x -> U]
            BY <3>7, <3>9, <4>1
          <5> QED
            <6> DEFINE N == 1..y - x
            <6>1. z \in [N -> U] /\ h \in [N -> U] /\ \A k \in N : z[k] = h[k]
              BY ONLY <4>2, <5>1
            <6> HIDE DEF N
            <6> QED
              BY ONLY <6>1, SameFunctions
        <4> QED
          BY <4>3 DEF z
      <3>11. SideOf(u, al, i) = e
        BY <2>3, <2>5, <3>1 DEF e
      <3>12. SideOf(u, al, i) \o Placed(u, al, i) = h /\ Placed(u, al, i) \in Seq(U)
        BY <3>2, <3>4, <3>10, <3>11
      <3>13. h = [k \in 1..r[i] - r[i - 1] |-> u[r[i - 1] + k]]
        BY DEF h, x, y
      <3>14. \E j \in 1..m : SideOf(u, al, i) = <<u[j]>>
        BY <3>5, <3>11 DEF e
      <3> QED
        BY <3>12, <3>13, <3>14
    <2> QED
      BY <2>4, <2>5
  <1>5. \A i \in 0..n : Placed(u, al, i) \in Seq(U)
    <2> TAKE i \in 0..n
    <2>1. CASE i = 0
      BY <1>3, <2>1
    <2>2. CASE i # 0
      <3>1. i \in 1..n
        BY <2>2
      <3> QED
        BY <1>4, <3>1
    <2> QED
      BY <2>1, <2>2
  <1> QED
    BY <1>3, <1>4, <1>5 DEF m, PlacesFor

LEMMA Regrouped ==
  ASSUME NEW U, NEW s \in Seq(U), NEW t \in Seq(U), NEW v \in Seq(U)
  PROVE  s \o (t \o v) = (s \o t) \o v
  BY ONLY s \in Seq(U), t \in Seq(U), v \in Seq(U), ConcatAssociative, SMTT(30)

LEMMA PrefixGrows ==
  ASSUME NEW U, NEW u \in Seq(U), NEW x \in 0..Len(u), NEW y \in 0..Len(u), x <= y,
         NEW p, p = [k \in 1..x |-> u[k]], NEW q, q = [k \in 1..y - x |-> u[x + k]]
  PROVE  p \in Seq(U) /\ q \in Seq(U) /\ p \o q = [k \in 1..y |-> u[k]]
  <1> DEFINE h == [k \in 1..y |-> u[k]]
  <1>1. \A k \in 1..Len(u) : u[k] \in U
    OBVIOUS
  <1>2. Len(p) = x /\ p \in Seq(U) /\ \A k \in 1..x : p[k] = u[k]
    BY <1>1
  <1>3. \A k \in 1..y - x : u[x + k] \in U
    BY <1>1
  <1>4. Len(q) = y - x /\ q \in Seq(U) /\ \A k \in 1..y - x : q[k] = u[x + k]
    BY <1>3
  <1>5. Len(h) = y /\ h \in Seq(U) /\ \A k \in 1..y : h[k] = u[k]
    BY <1>1
  <1> HIDE DEF h
  <1> DEFINE z == p \o q
  <1>6. z \in Seq(U) /\ Len(z) = y /\ \A k \in 1..y : z[k] = IF k <= x THEN p[k] ELSE q[k - x]
    BY <1>2, <1>4
  <1> HIDE DEF z
  <1>7. ASSUME NEW k \in 1..y PROVE z[k] = h[k]
    <2>1. CASE k <= x
      <3>1. k \in 1..x
        BY <2>1
      <3> QED
        BY <1>2, <1>5, <1>6, <2>1, <3>1
    <2>2. CASE ~(k <= x)
      <3>1. k - x \in 1..y - x /\ x + (k - x) = k
        BY <2>2
      <3>2. q[k - x] = u[x + (k - x)]
        BY <1>4, <3>1
      <3> QED
        BY <1>5, <1>6, <2>2, <3>1, <3>2
    <2> QED
      BY <2>1, <2>2
  <1>8. z = h
    <2>1. z \in [1..y -> U] /\ h \in [1..y -> U]
      BY <1>2, <1>5, <1>6
    <2> QED
      BY ONLY <1>7, <2>1, SameFunctions
  <1> QED
    BY <1>2, <1>4, <1>8 DEF z, h

\* Put together again in the order of the base, the parts of a side are the side.
Parts(u, al, n) == [i \in 1..n |-> SideOf(u, al, i) \o Placed(u, al, i)]

LEMMA PartsMakeTheWhole ==
  ASSUME NEW U, NEW u \in Seq(U), NEW n \in Nat, NEW al, NEW r, Partition(al, n, Len(u), r),
         NEW c, c = Parts(u, al, n)
  PROVE  c \in Seq(Seq(U)) /\ Placed(u, al, 0) \o FlattenSeq(c) = u
  <1> DEFINE m == Len(u)
             pre(y) == [k \in 1..y |-> u[k]]
             I == Placed(u, al, 0)
  <1>1. m \in Nat /\ r \in [0..n -> 0..m] /\ r[n] = m
    BY DEF Partition
  <1>2. I = pre(r[0]) /\ I \in Seq(U)
    <2>1. PlacesFor(U, u, n, al, r)
      BY ONLY u \in Seq(U), n \in Nat, Partition(al, n, Len(u), r), PlacesAreOfTheSide
    <2> QED
      BY <2>1 DEF PlacesFor
  <1>3. \A i \in 1..n : r[i - 1] <= r[i]
    <2> TAKE i \in 1..n
    <2>1. r[i - 1] \in 0..m /\ r[i] \in 0..m
      BY <1>1
    <2>2. r[i - 1] <= r[i] \/ r[i - 1] < r[i]
      BY DEF Partition
    <2> HIDE DEF m
    <2> QED
      BY <1>1, <2>1, <2>2
  <1>4. \A i \in 1..n : c[i] = [k \in 1..r[i] - r[i - 1] |-> u[r[i - 1] + k]]
    <2>1. \A i \in 1..n : c[i] = SideOf(u, al, i) \o Placed(u, al, i)
      BY DEF Parts
    <2>2. \A i \in 1..n : SideOf(u, al, i) \o Placed(u, al, i) = [k \in 1..r[i] - r[i - 1] |-> u[r[i - 1] + k]]
      <3>1. PlacesFor(U, u, n, al, r)
        BY ONLY u \in Seq(U), n \in Nat, Partition(al, n, Len(u), r), PlacesAreOfTheSide
      <3> QED
        BY ONLY <3>1 DEF PlacesFor
    <2> QED
      BY <2>1, <2>2
  <1> HIDE DEF I
  <1>5. ASSUME NEW i \in 1..n
        PROVE  /\ c[i] \in Seq(U) /\ pre(r[i - 1]) \in Seq(U)
               /\ pre(r[i - 1]) \o c[i] = pre(r[i])
    <2> DEFINE x == r[i - 1]
               y == r[i]
               p == pre(x)
    <2>1. x \in 0..m /\ y \in 0..m /\ x <= y
      BY <1>1, <1>3
    <2>2. c[i] = [k \in 1..y - x |-> u[x + k]] /\ p = [k \in 1..x |-> u[k]]
      BY <1>4
    <2>3. p \in Seq(U) /\ c[i] \in Seq(U) /\ p \o c[i] = [k \in 1..y |-> u[k]]
      <3> DEFINE q == c[i]
      <3>1. x \in 0..Len(u) /\ y \in 0..Len(u) /\ x <= y
        BY <2>1
      <3>2. p = [k \in 1..x |-> u[k]] /\ q = [k \in 1..y - x |-> u[x + k]]
        BY <2>2
      <3> HIDE DEF x, y, p, q
      <3>3. p \in Seq(U) /\ q \in Seq(U) /\ p \o q = [k \in 1..y |-> u[k]]
        BY ONLY <3>1, <3>2, PrefixGrows, u \in Seq(U)
      <3> QED
        BY <3>3 DEF q
    <2> QED
      BY <2>3
  <1>6. c \in Seq(Seq(U)) /\ Len(c) = n
    <2>1. \A i \in 1..n : c[i] \in Seq(U)
      BY <1>5
    <2>2. c = [i \in 1..n |-> c[i]]
      BY DEF Parts
    <2> QED
      BY <2>1, <2>2
  <1>7. PICK f : Flattens(f, c, FlattenSeq(c)) /\ \A i \in 0..n : f[i] \in Seq(U)
    BY <1>6, FlattenSteps
  <1>8. f[0] = <<>> /\ FlattenSeq(c) = f[n] /\ \A i \in 1..n : f[i] = f[i - 1] \o c[i]
    BY <1>6, <1>7 DEF Flattens
  <1> HIDE DEF m, pre
  <1> DEFINE N == {k \in Nat : k <= n => I \o f[k] = pre(r[k])}
  <1>9. 0 \in N
    <2>1. I \o <<>> = I
      BY <1>2
    <2> QED
      BY <1>2, <1>8, <2>1
  <1>10. ASSUME NEW k \in Nat, k \in N PROVE k + 1 \in N
    <2> SUFFICES ASSUME k + 1 <= n PROVE I \o f[k + 1] = pre(r[k + 1])
      OBVIOUS
    <2>1. k + 1 \in 1..n /\ (k + 1) - 1 = k /\ k \in 0..n /\ k <= n
      OBVIOUS
    <2>2. I \o f[k] = pre(r[k])
      BY <1>10, <2>1
    <2>3. f[k + 1] = f[k] \o c[k + 1]
      BY <1>8, <2>1
    <2>4. f[k] \in Seq(U) /\ c[k + 1] \in Seq(U)
      BY <1>5, <1>7, <2>1
    <2>5. I \o (f[k] \o c[k + 1]) = (I \o f[k]) \o c[k + 1]
      <3>1. \A s1, t1, v1 \in Seq(U) : s1 \o (t1 \o v1) = (s1 \o t1) \o v1
        BY Regrouped
      <3> QED
        BY <1>2, <2>4, <3>1
    <2>6. pre(r[k]) \o c[k + 1] = pre(r[k + 1])
      BY <1>5, <2>1
    <2> QED
      BY <2>2, <2>3, <2>5, <2>6
  <1> HIDE DEF N
  <1>11. Nat \subseteq N
    BY <1>9, <1>10, NatSetInduction
  <1>12. I \o f[n] = pre(m)
    BY <1>1, <1>11 DEF N
  <1>13. pre(m) = u
    BY DEF pre, m
  <1> QED
    BY <1>6, <1>8, <1>12, <1>13 DEF I

(***************************************************************************)
(* What one side alone has changed.                                        *)
(***************************************************************************)
LEMMA IdsAre ==
  ASSUME NEW U, NEW u \in Seq(U)
  PROVE  Ids(u) \in Seq({x.id : x \in U}) /\ Len(Ids(u)) = Len(u)
  <1> DEFINE n == Len(u)
             I == {x.id : x \in U}
             s == [i \in 1..n |-> u[i].id]
  <1>1. n \in Nat /\ \A i \in 1..n : u[i].id \in I
    OBVIOUS
  <1>2. Ids(u) = s
    BY DEF Ids
  <1> HIDE DEF I
  <1>3. s \in Seq(I) /\ Len(s) = n
    BY <1>1
  <1> HIDE DEF s
  <1> QED
    BY <1>2, <1>3 DEF I

LEMMA UnitsAreAligned ==
  ASSUME NEW U, NEW b \in Seq(U), NEW u \in Seq(U), NEW al, al = AlignToBase(Ids(b), Ids(u))
  PROVE  \E r : Partition(al, Len(b), Len(u), r)
  <1> DEFINE I == {x.id : x \in U}
             p == Ids(b)
             q == Ids(u)
  <1>1. p \in Seq(I) /\ q \in Seq(I) /\ Len(p) = Len(b) /\ Len(q) = Len(u) /\ al = AlignToBase(p, q)
    BY IdsAre
  <1> HIDE DEF I, p, q
  <1>2. \E r : Partition(al, Len(p), Len(q), r)
    BY <1>1, AlignToBasePartitions
  <1> QED
    BY <1>1, <1>2

LEMMA OwnPlaces ==
  ASSUME NEW U, NEW b \in Seq(U), NEW al, al = AlignToBase(Ids(b), Ids(b))
  PROVE  /\ \A i \in 1..Len(b) : SideOf(b, al, i) = <<b[i]>>
         /\ \A i \in 0..Len(b) : Placed(b, al, i) = <<>>
  <1> DEFINE I == {x.id : x \in U}
             p == Ids(b)
  <1>1. p \in Seq(I) /\ Len(p) = Len(b) /\ al = AlignToBase(p, p)
    BY IdsAre
  <1> HIDE DEF I, p
  <1>2. /\ \A i \in 1..Len(p) : al.counterpart[i] = i
        /\ \A i \in 0..Len(p) : al.inserts[i] = <<>>
    BY <1>1, AlignmentWithItself
  <1>3. ASSUME NEW i \in 1..Len(b) PROVE SideOf(b, al, i) = <<b[i]>>
    BY <1>1, <1>2 DEF SideOf
  <1>4. ASSUME NEW i \in 0..Len(b) PROVE Placed(b, al, i) = <<>>
    BY <1>1, <1>2 DEF Placed
  <1> QED
    BY <1>3, <1>4

LEMMA DecideForOneSide ==
  ASSUME NEW x, NEW mm, NEW tt, NEW merged,
         mm = <<>> \/ \E y : mm = <<y>>, tt = <<>> \/ \E y : tt = <<y>>
  PROVE  /\ tt = <<x>> \/ tt = mm => Decide(<<x>>, mm, tt, merged) = Put(mm)
         /\ mm = <<x>> => Decide(<<x>>, mm, tt, merged) = Put(tt)
  <1>1. \A y : <<y>> # <<>> /\ <<>> \o <<y>> = <<y>> /\ <<y>> \o <<>> = <<y>>
    OBVIOUS
  <1>2. ASSUME tt = <<x>> PROVE Decide(<<x>>, mm, tt, merged) = Put(mm)
    BY <1>1, <1>2 DEF Decide
  <1>3. ASSUME tt = mm PROVE Decide(<<x>>, mm, tt, merged) = Put(mm)
    BY <1>1, <1>3 DEF Decide
  <1>4. ASSUME mm = <<x>> PROVE Decide(<<x>>, mm, tt, merged) = Put(tt)
    BY <1>1, <1>4 DEF Decide
  <1> QED
    BY <1>2, <1>3, <1>4

LEMMA InsertedByOneSide ==
  ASSUME NEW U, NEW mm \in Seq(U), NEW tt \in Seq(U)
  PROVE  /\ Inserted(mm, <<>>) = mm /\ Inserted(<<>>, tt) = tt
         /\ Inserted(mm, mm) = mm
  <1>1. mm \o <<>> = mm /\ <<>> \o tt = tt /\ <<>> \in Seq(U) /\ Len(<<>>) = 0
    OBVIOUS
  <1>2. mm # <<>> => Len(mm) # 0
    OBVIOUS
  <1>3. Inserted(mm, <<>>) = mm
    BY <1>1, <1>2 DEF Inserted
  <1>4. Inserted(<<>>, tt) = tt
    BY <1>1 DEF Inserted
  <1>5. Inserted(mm, mm) = mm
    <2>1. mm = <<>> => mm \o mm = mm
      BY <1>1
    <2> QED
      BY <2>1 DEF Inserted
  <1> QED
    BY <1>3, <1>4, <1>5

LEMMA OneSideIsTheMerge ==
  ASSUME NEW U, NEW b \in Seq(U), NEW u \in Seq(U), NEW al, NEW r, Partition(al, Len(b), Len(u), r),
         NEW m, NEW t, NEW A, NEW B, NEW mu, NEW res, res = Combined(b, m, t, A, B, mu),
         \A i \in 1..Len(b) : Decided(b, m, t, A, B, mu, i) = Put(SideOf(u, al, i)),
         \A i \in 0..Len(b) : Emitted(m, t, A, B, i) = Placed(u, al, i)
  PROVE  res.ok /\ res.units = u
  <1> DEFINE n == Len(b)
             D(i) == Decided(b, m, t, A, B, mu, i)
             c == Parts(u, al, n)
             d == Pieces(b, m, t, A, B, mu)
             e == Reports(b, m, t, A, B, mu)
  <1>1. n \in Nat /\ DOMAIN b = 1..n
    OBVIOUS
  <1>2. /\ res.conflicts = FlattenSeq(e)
        /\ res.ok = (res.conflicts = <<>>)
        /\ res.units = Emitted(m, t, A, B, 0) \o FlattenSeq(d)
    BY CombinedIs
  <1>3. \A i \in 1..n : D(i).units = SideOf(u, al, i) /\ D(i).conflicts = <<>>
    BY DEF Put
  <1>4. d = c
    <2>1. \A i \in 1..n : Emitted(m, t, A, B, i) = Placed(u, al, i)
      BY <1>1
    <2> QED
      BY <1>3, <2>1 DEF Pieces, Parts
  <1>5. e = [i \in 1..n |-> <<>>]
    BY <1>3 DEF Reports
  <1>6. e \in Seq(Seq({})) /\ Len(e) = n /\ \A i \in 1..n : e[i] = <<>>
    <2> HIDE DEF n, e
    <2>1. <<>> \in Seq({})
      OBVIOUS
    <2> QED
      BY <1>1, <1>5, <2>1
  <1> HIDE DEF e
  <1>7. FlattenSeq(e) = <<>>
    BY <1>6, FlattenOfNothing
  <1>8. Placed(u, al, 0) \o FlattenSeq(c) = u
    BY <1>1, PartsMakeTheWhole
  <1>9. Emitted(m, t, A, B, 0) = Placed(u, al, 0)
    BY <1>1
  <1> QED
    BY <1>2, <1>4, <1>7, <1>8, <1>9

LEMMA OneSidesMerge ==
  ASSUME NEW U, NEW b \in Seq(U), NEW m \in Seq(U), NEW t \in Seq(U), NEW mu,
         NEW res, res = ThreeWayMerge(b, m, t, mu)
  PROVE  /\ t = b \/ t = m => res.ok /\ res.units = m
         /\ m = b => res.ok /\ res.units = t
  <1> DEFINE A == AlignToBase(Ids(b), Ids(m))
             B == AlignToBase(Ids(b), Ids(t))
             n == Len(b)
  <1>1. res = Combined(b, m, t, A, B, mu) /\ n \in Nat
    BY DEF ThreeWayMerge
  <1>2. PICK r : Partition(A, n, Len(m), r)
    BY UnitsAreAligned
  <1>3. PICK q : Partition(B, n, Len(t), q)
    BY UnitsAreAligned
  <1>4. m = b => /\ \A i \in 1..n : SideOf(m, A, i) = <<b[i]>>
                 /\ \A i \in 0..n : Placed(m, A, i) = <<>>
    BY OwnPlaces
  <1>5. t = b => /\ \A i \in 1..n : SideOf(t, B, i) = <<b[i]>>
                 /\ \A i \in 0..n : Placed(t, B, i) = <<>>
    BY OwnPlaces
  <1>6. t = m => A = B
    OBVIOUS
  <1> HIDE DEF A, B
  <1>7. /\ \A i \in 0..n : Placed(m, A, i) \in Seq(U)
        /\ \A i \in 1..n : SideOf(m, A, i) = <<>> \/ \E y : SideOf(m, A, i) = <<y>>
    <2>1. PlacesFor(U, m, n, A, r)
      BY <1>1, <1>2, PlacesAreOfTheSide
    <2> QED
      BY ONLY <2>1 DEF PlacesFor
  <1>8. /\ \A i \in 0..n : Placed(t, B, i) \in Seq(U)
        /\ \A i \in 1..n : SideOf(t, B, i) = <<>> \/ \E y : SideOf(t, B, i) = <<y>>
    <2>1. PlacesFor(U, t, n, B, q)
      BY <1>1, <1>3, PlacesAreOfTheSide
    <2> QED
      BY ONLY <2>1 DEF PlacesFor
  <1>9. ASSUME t = b \/ t = m PROVE res.ok /\ res.units = m
    <2>1. ASSUME NEW i \in 1..n PROVE Decided(b, m, t, A, B, mu, i) = Put(SideOf(m, A, i))
      <3> DEFINE mm == SideOf(m, A, i)
                 tt == SideOf(t, B, i)
                 x == b[i]
      <3>1. tt = <<x>> \/ tt = mm
        BY <1>5, <1>6, <1>9
      <3>2. (mm = <<>> \/ \E y : mm = <<y>>) /\ (tt = <<>> \/ \E y : tt = <<y>>)
        BY <1>7, <1>8
      <3> HIDE DEF mm, tt, x
      <3>3. \A merged : Decide(<<x>>, mm, tt, merged) = Put(mm)
        BY <3>1, <3>2, DecideForOneSide
      <3> QED
        BY <3>3 DEF Decided, mm, tt, x
    <2>2. ASSUME NEW i \in 0..n PROVE Emitted(m, t, A, B, i) = Placed(m, A, i)
      <3> DEFINE mm == Placed(m, A, i)
                 tt == Placed(t, B, i)
      <3>1. tt = <<>> \/ tt = mm
        BY <1>5, <1>6, <1>9
      <3>2. mm \in Seq(U) /\ tt \in Seq(U)
        BY <1>7, <1>8
      <3> HIDE DEF mm, tt
      <3>3. Inserted(mm, tt) = mm
        BY <3>1, <3>2, InsertedByOneSide
      <3> QED
        BY <3>3 DEF Emitted, mm, tt
    <2> HIDE DEF n
    <2> QED
      BY <1>1, <1>2, <2>1, <2>2, OneSideIsTheMerge DEF n
  <1>10. ASSUME m = b PROVE res.ok /\ res.units = t
    <2>1. ASSUME NEW i \in 1..n PROVE Decided(b, m, t, A, B, mu, i) = Put(SideOf(t, B, i))
      <3> DEFINE mm == SideOf(m, A, i)
                 tt == SideOf(t, B, i)
                 x == b[i]
      <3>1. mm = <<x>>
        BY <1>4, <1>10
      <3>2. (mm = <<>> \/ \E y : mm = <<y>>) /\ (tt = <<>> \/ \E y : tt = <<y>>)
        BY <1>7, <1>8
      <3> HIDE DEF mm, tt, x
      <3>3. \A merged : Decide(<<x>>, mm, tt, merged) = Put(tt)
        BY <3>1, <3>2, DecideForOneSide
      <3> QED
        BY <3>3 DEF Decided, mm, tt, x
    <2>2. ASSUME NEW i \in 0..n PROVE Emitted(m, t, A, B, i) = Placed(t, B, i)
      <3> DEFINE mm == Placed(m, A, i)
                 tt == Placed(t, B, i)
      <3>1. mm = <<>> /\ tt \in Seq(U)
        BY <1>4, <1>8, <1>10
      <3> HIDE DEF mm, tt
      <3>2. Inserted(mm, tt) = tt
        BY <3>1, InsertedByOneSide
      <3> QED
        BY <3>2 DEF Emitted, mm, tt
    <2> HIDE DEF n
    <2> QED
      BY <1>1, <1>3, <2>1, <2>2, OneSideIsTheMerge DEF n
  <1> QED
    BY <1>9, <1>10

(***************************************************************************)
(* The versions and their units.                                           *)
(***************************************************************************)
LEMMA DocsHaveUnits ==
  ASSUME NEW doc \in Docs
  PROVE  /\ Len(doc) \in Nat /\ DOMAIN doc = 1..Len(doc)
         /\ Blocks(doc) \in Seq(ToSet(Blocks(doc))) /\ Len(Blocks(doc)) = Len(doc)
  <1> DEFINE n == Len(doc)
             u == Blocks(doc)
  <1>1. doc \in Seq(ToSet(doc))
    BY VersionsAssumption
  <1>2. n \in Nat /\ DOMAIN doc = 1..n
    BY <1>1
  <1>3. DOMAIN u = 1..n /\ u = [i \in 1..n |-> u[i]]
    BY <1>2 DEF Blocks
  <1>4. \A i \in 1..n : u[i] \in ToSet(u)
    BY <1>3 DEF ToSet
  <1> HIDE DEF u, n
  <1>5. u \in Seq(ToSet(u)) /\ Len(u) = n
    BY <1>2, <1>3, <1>4
  <1> QED
    BY <1>2, <1>5 DEF u, n

LEMMA SheetsHaveUnits ==
  ASSUME NEW sheet \in Sheets
  PROVE  /\ Len(sheet) \in Nat /\ DOMAIN sheet = 1..Len(sheet)
         /\ RowUnits(sheet) \in Seq(ToSet(RowUnits(sheet))) /\ Len(RowUnits(sheet)) = Len(sheet)
  <1> DEFINE n == Len(sheet)
             u == RowUnits(sheet)
  <1>1. sheet \in Seq(ToSet(sheet))
    BY VersionsAssumption
  <1>2. n \in Nat /\ DOMAIN sheet = 1..n
    BY <1>1
  <1>3. DOMAIN u = 1..n /\ u = [i \in 1..n |-> u[i]]
    BY <1>2 DEF RowUnits
  <1>4. \A i \in 1..n : u[i] \in ToSet(u)
    BY <1>3 DEF ToSet
  <1> HIDE DEF u, n
  <1>5. u \in Seq(ToSet(u)) /\ Len(u) = n
    BY <1>2, <1>3, <1>4
  <1> QED
    BY <1>2, <1>5 DEF u, n

LEMMA SeqsGrow ==
  ASSUME NEW S, NEW T, S \subseteq T, NEW s \in Seq(S)
  PROVE  s \in Seq(T)
  OBVIOUS

\* What has been read, and the merge of it.
IsRead ==
    /\ kind \in {"docx", "xlsx"}
    /\ kind = "docx" => base \in Docs /\ mine \in Docs /\ theirs \in Docs
    /\ kind = "xlsx" => base \in Sheets /\ mine \in Sheets /\ theirs \in Sheets
    /\ Merging => result = Merged(mine, theirs)

LEMMA AlwaysRead == Spec => []IsRead
  <1>1. Init => IsRead
    BY DEF Init, IsRead, Merging
  <1>2. IsRead /\ [Next]_vars => IsRead'
    <2> SUFFICES ASSUME IsRead, [Next]_vars PROVE IsRead'
      OBVIOUS
    <2>1. UNCHANGED <<kind, base, mine, theirs>>
      BY DEF Next, Merge, Write, vars
    <2>2. Merged(mine, theirs)' = Merged(mine, theirs)
      BY <2>1 DEF Merged
    <2>3. Merging' => result' = Merged(mine, theirs)
      <3>1. CASE Merge
        BY <3>1 DEF Merge
      <3>2. CASE \E onto \in {base, mine, theirs} : Write(onto)
        BY <3>2 DEF Write, Merging
      <3>3. CASE UNCHANGED vars
        BY <3>3 DEF vars, IsRead, Merging
      <3> QED
        BY <3>1, <3>2, <3>3 DEF Next
    <2>4. Merging' => (result = Merged(mine, theirs))'
      BY <2>2, <2>3
    <2> QED
      BY <2>1, <2>4 DEF IsRead
  <1> QED
    BY <1>1, <1>2, PTL DEF Spec

\* The merge is the three-way merge of the units, some way of merging units.
LEMMA MergedIs ==
  ASSUME IsRead, NEW m, NEW t, {m, t} \subseteq {base, mine, theirs}
  PROVE  /\ \E mu : Merged(m, t) = ThreeWayMerge(Units(base), Units(m), Units(t), mu)
         /\ \E U : Units(base) \in Seq(U) /\ Units(m) \in Seq(U) /\ Units(t) \in Seq(U)
  <1> DEFINE b0 == Units(base)
             m0 == Units(m)
             t0 == Units(t)
             U == ToSet(b0) \union ToSet(m0) \union ToSet(t0)
  <1>1. b0 \in Seq(ToSet(b0)) /\ m0 \in Seq(ToSet(m0)) /\ t0 \in Seq(ToSet(t0))
    <2>1. CASE kind = "docx"
      BY <2>1, DocsHaveUnits DEF IsRead, Units
    <2>2. CASE kind = "xlsx"
      BY <2>2, SheetsHaveUnits DEF IsRead, Units
    <2> QED
      BY <2>1, <2>2 DEF IsRead
  <1>2. b0 \in Seq(U) /\ m0 \in Seq(U) /\ t0 \in Seq(U)
    <2> HIDE DEF b0, m0, t0
    <2>1. ToSet(b0) \subseteq U /\ ToSet(m0) \subseteq U /\ ToSet(t0) \subseteq U
      OBVIOUS
    <2> HIDE DEF U
    <2> QED
      BY <1>1, <2>1, SeqsGrow
  <1>3. \E mu : Merged(m, t) = ThreeWayMerge(b0, m0, t0, mu)
    <2>1. CASE kind = "docx"
      BY <2>1 DEF Merged, MergeDocxBlocks, Units
    <2>2. CASE kind = "xlsx"
      BY <2>2 DEF IsRead, Merged, MergeSheetRows, Units
    <2> QED
      BY <2>1, <2>2 DEF IsRead
  <1> HIDE DEF U
  <1> QED
    BY <1>2, <1>3

LEMMA ReadMeansOneSideStands == ASSUME IsRead PROVE OneSideStands
  <1> SUFFICES ASSUME Merging
               PROVE  /\ theirs \in {base, mine} => result.ok /\ Body(result.units) = Body(Units(mine))
                      /\ mine = base => result.ok /\ Body(result.units) = Body(Units(theirs))
    BY DEF OneSideStands
  <1>1. result = Merged(mine, theirs)
    BY DEF IsRead
  <1> DEFINE b0 == Units(base)
             m0 == Units(mine)
             t0 == Units(theirs)
  <1>2. PICK mu : result = ThreeWayMerge(b0, m0, t0, mu)
    BY <1>1, MergedIs
  <1>3. PICK U : b0 \in Seq(U) /\ m0 \in Seq(U) /\ t0 \in Seq(U)
    BY MergedIs
  <1>4. (theirs = base => t0 = b0) /\ (theirs = mine => t0 = m0) /\ (mine = base => m0 = b0)
    OBVIOUS
  <1> HIDE DEF b0, m0, t0
  <1>5. /\ t0 = b0 \/ t0 = m0 => result.ok /\ result.units = m0
        /\ m0 = b0 => result.ok /\ result.units = t0
    BY <1>2, <1>3, OneSidesMerge
  <1>6. ASSUME theirs \in {base, mine} PROVE result.ok /\ Body(result.units) = Body(Units(mine))
    <2>1. result.ok /\ result.units = m0
      BY <1>4, <1>5, <1>6
    <2> QED
      BY <2>1 DEF m0
  <1>7. ASSUME mine = base PROVE result.ok /\ Body(result.units) = Body(Units(theirs))
    <2>1. result.ok /\ result.units = t0
      BY <1>4, <1>5, <1>7
    <2> QED
      BY <2>1 DEF t0
  <1> QED
    BY <1>6, <1>7

\* What one person alone has changed, or both alike, is the merge, without a
\* conflict, whatever the names of the units match.
THEOREM OneSideIsKept == Spec => []OneSideStands
<1>1. IsRead => OneSideStands
  BY ReadMeansOneSideStands
<1> QED BY <1>1, AlwaysRead, PTL

(***************************************************************************)
(* Where the units of the sides come to stand.                             *)
(***************************************************************************)
\* What is in the whole is in a piece.
LEMMA FlattenOnly ==
  ASSUME NEW U, NEW c \in Seq(Seq(U)), NEW x \in 1..Len(FlattenSeq(c))
  PROVE  \E i \in 1..Len(c) : \E k \in 1..Len(c[i]) : FlattenSeq(c)[x] = c[i][k]
  <1> DEFINE n == Len(c)
             In(j, y) == \E i \in 1..j : \E k \in 1..Len(c[i]) : y = c[i][k]
  <1>1. PICK f : Flattens(f, c, FlattenSeq(c)) /\ \A j \in 0..n : f[j] \in Seq(U)
    BY FlattenSteps
  <1>2. n \in Nat /\ \A j \in 1..n : c[j] \in Seq(U) /\ f[j] = f[j - 1] \o c[j]
    <2>1. n \in Nat /\ \A j \in 1..n : c[j] \in Seq(U)
      OBVIOUS
    <2>2. \A j \in 1..n : f[j] = f[j - 1] \o c[j]
      BY <1>1 DEF Flattens
    <2> QED
      BY <2>1, <2>2
  <1>3. FlattenSeq(c) = f[n] /\ f[0] = <<>>
    BY <1>1 DEF Flattens
  <1> HIDE DEF n
  <1> DEFINE All(j) == \A y \in 1..Len(f[j]) : In(j, f[j][y])
             N == {j \in Nat : j <= n => All(j)}
  <1>4. 0 \in N
    BY <1>3
  <1>5. ASSUME NEW j \in Nat, j \in N PROVE j + 1 \in N
    <2> SUFFICES ASSUME j + 1 <= n PROVE All(j + 1)
      <3> HIDE DEF All
      <3> QED
        OBVIOUS
    <2>1. j + 1 \in 1..n /\ (j + 1) - 1 = j /\ j \in 0..n /\ j <= n
      BY <1>2
    <2>2. All(j)
      BY <1>5, <2>1
    <2> DEFINE p == f[j]
               q == c[j + 1]
    <2>3. f[j + 1] = p \o q /\ p \in Seq(U) /\ q \in Seq(U)
      BY <1>1, <1>2, <2>1
    <2>4. \A y \in 1..Len(p) : In(j, p[y])
      BY <2>2
    <2>5. \A k \in 1..Len(q) : In(j + 1, q[k])
      <3>1. j + 1 \in 1..(j + 1)
        OBVIOUS
      <3> QED
        BY <3>1
    <2>6. \A y : In(j, y) => In(j + 1, y)
      <3>1. 1..j \subseteq 1..(j + 1)
        OBVIOUS
      <3> QED
        BY <3>1
    <2> HIDE DEF p, q, In
    <2>7. ASSUME NEW y \in 1..Len(p \o q) PROVE In(j + 1, (p \o q)[y])
      <3>1. Len(p) \in Nat /\ Len(q) \in Nat /\ Len(p \o q) = Len(p) + Len(q)
        BY <2>3
      <3>2. CASE y <= Len(p)
        <4>1. y \in 1..Len(p) /\ (p \o q)[y] = p[y]
          BY <2>3, <3>1, <3>2
        <4> QED
          BY <2>4, <2>6, <4>1
      <3>3. CASE ~(y <= Len(p))
        <4>1. y - Len(p) \in 1..Len(q)
          BY <3>1, <3>3
        <4>2. (p \o q)[y] = q[y - Len(p)]
          BY <2>3, <3>1, <3>3
        <4> QED
          BY <2>5, <4>1, <4>2
      <3> QED
        BY <3>2, <3>3
    <2> QED
      BY <2>3, <2>7
  <1> HIDE DEF N
  <1>6. Nat \subseteq N
    BY <1>4, <1>5, NatSetInduction
  <1> HIDE DEF All
  <1>7. All(n)
    <2>1. n \in N /\ n <= n
      BY <1>2, <1>6
    <2> QED
      BY <2>1 DEF N
  <1> USE DEF All
  <1> QED
    BY <1>3, <1>7 DEF n

\* s holds what is in p and in the pieces of c, and nothing else.
Holds(s, p, c) ==
    /\ \A x \in 1..Len(s) :
          \/ \E k \in 1..Len(p) : s[x] = p[k]
          \/ \E i \in 1..Len(c) : \E k \in 1..Len(c[i]) : s[x] = c[i][k]
    /\ \A k \in 1..Len(p) : \E x \in 1..Len(s) : s[x] = p[k]
    /\ \A i \in 1..Len(c) : \A k \in 1..Len(c[i]) : \E x \in 1..Len(s) : s[x] = c[i][k]

LEMMA InTheWhole ==
  ASSUME NEW U, NEW p \in Seq(U), NEW c \in Seq(Seq(U)), NEW s, s = p \o FlattenSeq(c)
  PROVE  /\ s \in Seq(U)
         /\ Holds(s, p, c)
  <1> DEFINE q == FlattenSeq(c)
  <1>1. q \in Seq(U)
    BY FlattenTyped
  <1>2. \A x \in 1..Len(q) : \E i \in 1..Len(c) : \E k \in 1..Len(c[i]) : q[x] = c[i][k]
    BY FlattenOnly
  <1>3. \A i \in 1..Len(c) : \A k \in 1..Len(c[i]) : \E x \in 1..Len(q) : q[x] = c[i][k]
    BY FlattenHolds DEF Occurs
  <1> HIDE DEF q
  <1>4. /\ s \in Seq(U) /\ Len(s) = Len(p) + Len(q) /\ Len(p) \in Nat /\ Len(q) \in Nat
        /\ \A k \in 1..Len(p) : s[k] = p[k]
        /\ \A k \in 1..Len(q) : s[Len(p) + k] = q[k]
    BY <1>1 DEF q
  <1>5. ASSUME NEW x \in 1..Len(s)
        PROVE  \/ \E k \in 1..Len(p) : s[x] = p[k]
               \/ \E i \in 1..Len(c) : \E k \in 1..Len(c[i]) : s[x] = c[i][k]
    <2>1. CASE x \in 1..Len(p)
      BY <1>4, <2>1
    <2>2. CASE x \notin 1..Len(p)
      <3>1. x - Len(p) \in 1..Len(q) /\ Len(p) + (x - Len(p)) = x
        BY <1>4, <2>2
      <3>2. s[x] = q[x - Len(p)]
        BY <1>4, <3>1
      <3> QED
        BY <1>2, <3>1, <3>2
    <2> QED
      BY <2>1, <2>2
  <1>6. ASSUME NEW k \in 1..Len(p) PROVE \E x \in 1..Len(s) : s[x] = p[k]
    <2>1. k \in 1..Len(s) /\ s[k] = p[k]
      BY <1>4
    <2> QED
      BY <2>1
  <1>7. ASSUME NEW i \in 1..Len(c), NEW k \in 1..Len(c[i]) PROVE \E x \in 1..Len(s) : s[x] = c[i][k]
    <2>1. PICK x \in 1..Len(q) : q[x] = c[i][k]
      BY <1>3
    <2>2. Len(p) + x \in 1..Len(s) /\ s[Len(p) + x] = c[i][k]
      BY <1>4, <2>1
    <2> QED
      BY <2>2
  <1> QED
    BY <1>4, <1>5, <1>6, <1>7 DEF Holds

\* Each unit of a side is inserted somewhere, or in the place of one of the base.
LEMMA UnitsHavePlaces ==
  ASSUME NEW U, NEW u \in Seq(U), NEW n \in Nat, NEW al, NEW r, Partition(al, n, Len(u), r),
         NEW j \in 1..Len(u)
  PROVE  \/ \E i \in 0..n : \E k \in 1..Len(Placed(u, al, i)) : Placed(u, al, i)[k] = u[j]
         \/ \E i \in 1..n : SideOf(u, al, i) = <<u[j]>>
  <1> DEFINE c == Parts(u, al, n)
             p == Placed(u, al, 0)
  <1>1. c \in Seq(Seq(U)) /\ u = p \o FlattenSeq(c)
    BY PartsMakeTheWhole
  <1>2. \A i \in 0..n : Placed(u, al, i) \in Seq(U)
    <2>1. PlacesFor(U, u, n, al, r)
      BY ONLY u \in Seq(U), n \in Nat, Partition(al, n, Len(u), r), PlacesAreOfTheSide
    <2> QED
      BY ONLY <2>1 DEF PlacesFor
  <1>3. \A i \in 1..n : SideOf(u, al, i) = <<>> \/ \E y \in U : SideOf(u, al, i) = <<y>>
    <2>1. \A i \in 1..n : SideOf(u, al, i) = <<>> \/ \E k \in 1..Len(u) : SideOf(u, al, i) = <<u[k]>>
      <3>1. PlacesFor(U, u, n, al, r)
        BY ONLY u \in Seq(U), n \in Nat, Partition(al, n, Len(u), r), PlacesAreOfTheSide
      <3> QED
        BY ONLY <3>1 DEF PlacesFor
    <2>2. \A k \in 1..Len(u) : u[k] \in U
      OBVIOUS
    <2> QED
      BY <2>1, <2>2
  <1>4. Len(c) = n /\ \A i \in 1..n : c[i] = SideOf(u, al, i) \o Placed(u, al, i)
    BY DEF Parts
  <1>5. p \in Seq(U)
    BY <1>2
  <1> HIDE DEF c, p
  <1>6. \/ \E k \in 1..Len(p) : u[j] = p[k]
        \/ \E i \in 1..n : \E k \in 1..Len(c[i]) : u[j] = c[i][k]
    <2>1. Holds(u, p, c)
      BY <1>1, <1>5, InTheWhole
    <2> QED
      BY <1>4, <2>1 DEF Holds
  <1>7. CASE \E k \in 1..Len(p) : u[j] = p[k]
    BY <1>7 DEF p
  <1>8. CASE \E i \in 1..n : \E k \in 1..Len(c[i]) : u[j] = c[i][k]
    <2>1. PICK i \in 1..n : \E k \in 1..Len(c[i]) : u[j] = c[i][k]
      BY <1>8
    <2>2. PICK k \in 1..Len(c[i]) : u[j] = c[i][k]
      BY <2>1
    <2> DEFINE q == Placed(u, al, i)
               s == SideOf(u, al, i)
    <2>3. c[i] = s \o q /\ q \in Seq(U) /\ i \in 0..n
      BY <1>2, <1>4
    <2>4. s = <<>> \/ \E y \in U : s = <<y>>
      BY <1>3
    <2> HIDE DEF q, s
    <2>5. CASE s = <<>>
      <3>1. c[i] = q
        BY <2>3, <2>5
      <3>2. q[k] = u[j] /\ k \in 1..Len(q)
        BY <2>2, <3>1
      <3> QED
        BY <2>3, <3>2 DEF q
    <2>6. CASE \E y \in U : s = <<y>>
      <3>1. PICK y \in U : s = <<y>>
        BY <2>6
      <3>2. Len(c[i]) = 1 + Len(q) /\ c[i][1] = y /\ \A x \in 1..Len(q) : c[i][1 + x] = q[x]
        BY <2>3, <3>1
      <3>3. CASE k = 1
        BY <2>2, <3>1, <3>2, <3>3 DEF s
      <3>4. CASE k # 1
        <4>1. k - 1 \in 1..Len(q) /\ 1 + (k - 1) = k
          BY <2>2, <2>3, <3>2, <3>4
        <4>2. q[k - 1] = u[j]
          BY <2>2, <3>2, <4>1
        <4> QED
          BY <2>3, <4>1, <4>2 DEF q
      <3> QED
        BY <3>3, <3>4
    <2> QED
      BY <2>4, <2>5, <2>6
  <1> QED
    BY <1>6, <1>7, <1>8

(***************************************************************************)
(* What a merge makes of its units.                                        *)
(***************************************************************************)
\* The two sides are aligned to b, and what mu makes of three units is in W.
CanMerge(b, m, t, A, B, mu, U, W) ==
    /\ b \in Seq(U) /\ m \in Seq(U) /\ t \in Seq(U) /\ U \subseteq W
    /\ \E r : Partition(A, Len(b), Len(m), r)
    /\ \E r : Partition(B, Len(b), Len(t), r)
    /\ \A i \in 1..Len(b), j \in 1..Len(m), k \in 1..Len(t) :
          mu[<<b[i], m[j], t[k]>>].ok => mu[<<b[i], m[j], t[k]>>].unit \in W

\* Where the sides stand at a unit of the base.
Case(b, m, t, A, B, i) ==
    [base |-> <<b[i]>>, mine |-> SideOf(m, A, i), theirs |-> SideOf(t, B, i)]

Cases(b, m, t, A, B) == {Case(b, m, t, A, B, i) : i \in 1..Len(b)}

LEMMA SidesAre ==
  ASSUME NEW U, NEW W, NEW b, NEW m, NEW t, NEW A, NEW B, NEW mu, CanMerge(b, m, t, A, B, mu, U, W)
  PROVE  /\ Len(b) \in Nat
         /\ \A i \in 0..Len(b) : Placed(m, A, i) \in Seq(U) /\ Placed(t, B, i) \in Seq(U)
         /\ \A i \in 1..Len(b) :
               /\ SideOf(m, A, i) = <<>> \/ \E j \in 1..Len(m) : SideOf(m, A, i) = <<m[j]>>
               /\ SideOf(t, B, i) = <<>> \/ \E j \in 1..Len(t) : SideOf(t, B, i) = <<t[j]>>
  <1>1. b \in Seq(U) /\ m \in Seq(U) /\ t \in Seq(U) /\ Len(b) \in Nat
    BY DEF CanMerge
  <1>2. PICK r : Partition(A, Len(b), Len(m), r)
    BY DEF CanMerge
  <1>3. PICK q : Partition(B, Len(b), Len(t), q)
    BY DEF CanMerge
  <1>4. /\ \A i \in 0..Len(b) : Placed(m, A, i) \in Seq(U)
        /\ \A i \in 1..Len(b) : SideOf(m, A, i) = <<>> \/ \E j \in 1..Len(m) : SideOf(m, A, i) = <<m[j]>>
    <2>1. PlacesFor(U, m, Len(b), A, r)
      BY <1>1, <1>2, PlacesAreOfTheSide
    <2> QED
      BY ONLY <2>1 DEF PlacesFor
  <1>5. /\ \A i \in 0..Len(b) : Placed(t, B, i) \in Seq(U)
        /\ \A i \in 1..Len(b) : SideOf(t, B, i) = <<>> \/ \E j \in 1..Len(t) : SideOf(t, B, i) = <<t[j]>>
    <2>1. PlacesFor(U, t, Len(b), B, q)
      BY <1>1, <1>3, PlacesAreOfTheSide
    <2> QED
      BY ONLY <2>1 DEF PlacesFor
  <1> QED
    BY <1>1, <1>4, <1>5

\* d puts units of W, and reports the case c or nothing.
Yields(d, W, c) == d.units \in Seq(W) /\ d.conflicts \in {<<>>, <<c>>}

LEMMA DecideIs ==
  ASSUME NEW W, NEW x, NEW mm, NEW tt, NEW merged,
         mm = <<>> \/ \E y \in W : mm = <<y>>, tt = <<>> \/ \E z \in W : tt = <<z>>,
         mm # <<>> /\ tt # <<>> /\ merged.ok => merged.unit \in W
  PROVE  Yields(Decide(<<x>>, mm, tt, merged), W, [base |-> <<x>>, mine |-> mm, theirs |-> tt])
  <1>1. <<>> \in Seq(W) /\ \A y \in W : <<y>> \in Seq(W)
    OBVIOUS
  <1>2. mm \in Seq(W) /\ tt \in Seq(W)
    BY <1>1
  <1>3. mm # <<>> /\ tt # <<>> /\ merged.ok => <<merged.unit>> \in Seq(W)
    BY <1>1
  <1>4. \A s : Put(s).units = s /\ Put(s).conflicts = <<>>
    BY DEF Put
  <1>5. /\ Clash(<<x>>, mm, tt).units = <<>>
        /\ Clash(<<x>>, mm, tt).conflicts = <<[base |-> <<x>>, mine |-> mm, theirs |-> tt]>>
    BY DEF Clash
  <1> QED
    BY <1>1, <1>2, <1>3, <1>4, <1>5 DEF Decide, Both, Yields

\* The pieces of a merge are sequences over W, its reports are of its cases.
MergeTyped(b, m, t, A, B, mu, W) ==
  /\ \A i \in 0..Len(b) : Emitted(m, t, A, B, i) \in Seq(W)
  /\ \A i \in 1..Len(b) :
        /\ Decided(b, m, t, A, B, mu, i).units \in Seq(W)
        /\ \/ Decided(b, m, t, A, B, mu, i).conflicts = <<>>
           \/ Decided(b, m, t, A, B, mu, i).conflicts = <<Case(b, m, t, A, B, i)>>
  /\ Pieces(b, m, t, A, B, mu) \in Seq(Seq(W)) /\ Len(Pieces(b, m, t, A, B, mu)) = Len(b)
  /\ Reports(b, m, t, A, B, mu) \in Seq(Seq(Cases(b, m, t, A, B)))
  /\ Len(Reports(b, m, t, A, B, mu)) = Len(b)

LEMMA MergeIsTyped ==
  ASSUME NEW U, NEW W, NEW b, NEW m, NEW t, NEW A, NEW B, NEW mu, CanMerge(b, m, t, A, B, mu, U, W)
  PROVE  MergeTyped(b, m, t, A, B, mu, W)
  <1> DEFINE n == Len(b)
             D(i) == Decided(b, m, t, A, B, mu, i)
             E(i) == Emitted(m, t, A, B, i)
             C == Cases(b, m, t, A, B)
  <1>1. n \in Nat /\ U \subseteq W
    BY SidesAre DEF CanMerge
  <1>2. \A j \in 1..Len(b) : b[j] \in W
    BY DEF CanMerge
  <1>3. (\A j \in 1..Len(m) : m[j] \in W) /\ \A j \in 1..Len(t) : t[j] \in W
    BY DEF CanMerge
  <1>4. ASSUME NEW i \in 0..n PROVE E(i) \in Seq(W)
    <2> DEFINE mm == Placed(m, A, i)
               tt == Placed(t, B, i)
    <2>1. mm \in Seq(U) /\ tt \in Seq(U)
      BY SidesAre
    <2> HIDE DEF mm, tt
    <2>2. mm \in Seq(W) /\ tt \in Seq(W)
      BY <1>1, <2>1, SeqsGrow
    <2>3. Inserted(mm, tt) \in Seq(W)
      BY <2>2 DEF Inserted
    <2> QED
      BY <2>3 DEF Emitted, mm, tt
  <1>5. ASSUME NEW i \in 1..n
        PROVE  D(i).units \in Seq(W) /\ (D(i).conflicts = <<>> \/ D(i).conflicts = <<Case(b, m, t, A, B, i)>>)
    <2> DEFINE mm == SideOf(m, A, i)
               tt == SideOf(t, B, i)
               x == b[i]
               merged == mu[<<(<<x>>)[1], mm[1], tt[1]>>]
    <2>1. mm = <<>> \/ \E j \in 1..Len(m) : mm = <<m[j]>>
      BY SidesAre
    <2>2. tt = <<>> \/ \E j \in 1..Len(t) : tt = <<t[j]>>
      BY SidesAre
    <2>3. /\ D(i) = Decide(<<x>>, mm, tt, merged)
          /\ Case(b, m, t, A, B, i) = [base |-> <<x>>, mine |-> mm, theirs |-> tt]
      BY DEF Decided, Case
    <2>4. \A j \in 1..Len(m), k \in 1..Len(t) : mu[<<x, m[j], t[k]>>].ok => mu[<<x, m[j], t[k]>>].unit \in W
      BY DEF CanMerge
    <2> HIDE DEF mm, tt, x
    <2>5. mm # <<>> /\ tt # <<>> /\ merged.ok => merged.unit \in W
      <3> SUFFICES ASSUME mm # <<>>, tt # <<>> PROVE merged.ok => merged.unit \in W
        OBVIOUS
      <3>1. PICK j \in 1..Len(m) : mm = <<m[j]>>
        BY <2>1
      <3>2. PICK k \in 1..Len(t) : tt = <<t[k]>>
        BY <2>2
      <3>3. merged = mu[<<x, m[j], t[k]>>]
        BY <3>1, <3>2
      <3> HIDE DEF merged
      <3> QED
        BY <2>4, <3>3
    <2>6. (mm = <<>> \/ \E y \in W : mm = <<y>>) /\ (tt = <<>> \/ \E y \in W : tt = <<y>>)
      BY <1>3, <2>1, <2>2
    <2> HIDE DEF merged
    <2>7. Yields(Decide(<<x>>, mm, tt, merged), W, [base |-> <<x>>, mine |-> mm, theirs |-> tt])
      BY ONLY <2>5, <2>6, DecideIs
    <2> QED
      BY <2>3, <2>7 DEF Yields
  <1> DEFINE P == Pieces(b, m, t, A, B, mu)
             R == Reports(b, m, t, A, B, mu)
  <1> HIDE DEF D, E
  <1>6. P \in Seq(Seq(W)) /\ Len(P) = n
    <2>1. P = [i \in 1..n |-> D(i).units \o E(i)]
      BY DEF Pieces, D, E
    <2>2. \A i \in 1..n : D(i).units \o E(i) \in Seq(W)
      <3> TAKE i \in 1..n
      <3>1. i \in 0..n /\ D(i).units \in Seq(W)
        BY <1>1, <1>5
      <3>2. E(i) \in Seq(W)
        BY <1>4, <3>1
      <3> QED
        BY <3>1, <3>2
    <2> HIDE DEF P, n
    <2> QED
      BY <1>1, <2>1, <2>2
  <1>7. R \in Seq(Seq(C)) /\ Len(R) = n
    <2>1. R = [i \in 1..n |-> D(i).conflicts]
      BY DEF Reports, D
    <2>2. \A i \in 1..n : D(i).conflicts \in Seq(C)
      <3> TAKE i \in 1..n
      <3>1. Case(b, m, t, A, B, i) \in C
        BY DEF Cases
      <3>2. <<>> \in Seq(C) /\ <<Case(b, m, t, A, B, i)>> \in Seq(C)
        BY <3>1
      <3> QED
        BY <1>5, <3>2
    <2> HIDE DEF R, n
    <2> QED
      BY <1>1, <2>1, <2>2
  <1> QED
    BY <1>4, <1>5, <1>6, <1>7 DEF D, E, MergeTyped

(***************************************************************************)
(* Nothing is dropped.                                                     *)
(***************************************************************************)
\* s holds a unit of Q.
Says(s, Q) == \E k \in 1..Len(s) : s[k] \in Q

\* Q is the units that say a word: so do those of the same content, none of
\* the base does, and what mu makes of two units does if one of them does.
IsSaid(b, m, t, mu, U, Q) ==
    /\ \A x, y \in U : x \in Q /\ Content(x) = Content(y) => y \in Q
    /\ \A i \in 1..Len(b) : b[i] \notin Q
    /\ \A i \in 1..Len(b), j \in 1..Len(m), k \in 1..Len(t) :
          mu[<<b[i], m[j], t[k]>>].ok /\ (m[j] \in Q \/ t[k] \in Q) => mu[<<b[i], m[j], t[k]>>].unit \in Q

LEMMA InsertedDropsNothing ==
  ASSUME NEW U, NEW mm \in Seq(U), NEW tt \in Seq(U), NEW Q,
         \A x, y \in U : x \in Q /\ Content(x) = Content(y) => y \in Q,
         Says(mm, Q) \/ Says(tt, Q)
  PROVE  Says(Inserted(mm, tt), Q)
  <1> DEFINE p == mm \o tt
  <1>1. /\ Len(mm) \in Nat /\ Len(tt) \in Nat /\ Len(p) = Len(mm) + Len(tt)
        /\ \A k \in 1..Len(mm) : p[k] = mm[k]
        /\ \A k \in 1..Len(tt) : p[Len(mm) + k] = tt[k]
        /\ DOMAIN mm = 1..Len(mm)
    OBVIOUS
  <1> HIDE DEF p
  <1>2. Says(mm, Q) => Says(p, Q)
    <2> SUFFICES ASSUME NEW k \in 1..Len(mm), mm[k] \in Q PROVE Says(p, Q)
      BY DEF Says
    <2>1. k \in 1..Len(p) /\ p[k] \in Q
      BY <1>1
    <2> QED
      BY <2>1 DEF Says
  <1>3. Says(tt, Q) => Says(p, Q)
    <2> SUFFICES ASSUME NEW k \in 1..Len(tt), tt[k] \in Q PROVE Says(p, Q)
      BY DEF Says
    <2>1. Len(mm) + k \in 1..Len(p) /\ p[Len(mm) + k] \in Q
      BY <1>1
    <2> QED
      BY <2>1 DEF Says
  <1>4. ASSUME Len(mm) = Len(tt), \A i \in DOMAIN mm : Content(mm[i]) = Content(tt[i]), Says(tt, Q)
        PROVE  Says(mm, Q)
    <2>1. PICK k \in 1..Len(tt) : tt[k] \in Q
      BY <1>4 DEF Says
    <2>2. k \in DOMAIN mm /\ k \in 1..Len(mm)
      BY <1>1, <1>4
    <2>3. Content(tt[k]) = Content(mm[k])
      BY <1>4, <2>2
    <2> DEFINE x == tt[k]
               y == mm[k]
    <2> HIDE DEF x, y
    <2>4. y \in Q
      <3>1. x \in U /\ y \in U /\ x \in Q /\ Content(x) = Content(y)
        BY <2>1, <2>2, <2>3 DEF x, y
      <3> QED
        BY <3>1
    <2> QED
      BY <2>2, <2>4 DEF Says, y
  <1>5. CASE mm # <<>> /\ Len(mm) = Len(tt) /\ \A i \in DOMAIN mm : Content(mm[i]) = Content(tt[i])
    <2>1. Inserted(mm, tt) = mm
      BY <1>5 DEF Inserted
    <2> QED
      BY <1>4, <1>5, <2>1
  <1>6. CASE ~(mm # <<>> /\ Len(mm) = Len(tt) /\ \A i \in DOMAIN mm : Content(mm[i]) = Content(tt[i]))
    <2>1. Inserted(mm, tt) = p
      BY <1>6 DEF Inserted, p
    <2> QED
      BY <1>2, <1>3, <2>1
  <1> QED
    BY <1>5, <1>6

LEMMA DecideDropsNothing ==
  ASSUME NEW Q, NEW x, x \notin Q, NEW mm, NEW tt, NEW merged,
         mm = <<>> \/ \E y : mm = <<y>>, tt = <<>> \/ \E z : tt = <<z>>,
         Says(mm, Q) \/ Says(tt, Q),
         mm # <<>> /\ tt # <<>> /\ merged.ok => merged.unit \in Q
  PROVE  \/ Says(Decide(<<x>>, mm, tt, merged).units, Q)
         \/ Decide(<<x>>, mm, tt, merged).conflicts = <<[base |-> <<x>>, mine |-> mm, theirs |-> tt]>>
  <1>1. \A y : (Says(<<y>>, Q) <=> y \in Q) /\ <<y>> # <<>> /\ <<>> \o <<y>> = <<y>> /\ <<y>> \o <<>> = <<y>>
    <2> TAKE y
    <2>1. Len(<<y>>) = 1 /\ (<<y>>)[1] = y
      OBVIOUS
    <2>2. Says(<<y>>, Q) <=> y \in Q
      <3>1. \A k : k \in 1..1 <=> k = 1
        OBVIOUS
      <3> QED
        BY <2>1, <3>1 DEF Says
    <2> QED
      BY <2>2
  <1>2. ~Says(<<>>, Q)
    BY DEF Says
  <1>3. \A s : Put(s).units = s
    BY DEF Put
  <1>4. Clash(<<x>>, mm, tt).conflicts = <<[base |-> <<x>>, mine |-> mm, theirs |-> tt]>>
    BY DEF Clash
  <1>5. ~Says(<<x>>, Q)
    BY <1>1
  <1>6. CASE mm = <<>>
    <2>1. PICK z : tt = <<z>>
      BY <1>2, <1>6
    <2>2. Decide(<<x>>, mm, tt, merged) = Clash(<<x>>, mm, tt)
      BY <1>1, <1>2, <1>5, <1>6, <2>1 DEF Decide
    <2> QED
      BY <1>4, <2>2
  <1>7. CASE tt = <<>>
    <2>1. PICK y : mm = <<y>>
      BY <1>2, <1>7
    <2>2. Decide(<<x>>, mm, tt, merged) = Clash(<<x>>, mm, tt)
      BY <1>1, <1>2, <1>5, <1>7, <2>1 DEF Decide
    <2> QED
      BY <1>4, <2>2
  <1>8. CASE mm # <<>> /\ tt # <<>>
    <2>1. CASE tt = <<x>> \/ tt = mm
      <3>1. Decide(<<x>>, mm, tt, merged) = Put(mm) /\ Says(mm, Q)
        BY <1>5, <1>8, <2>1 DEF Decide
      <3> QED
        BY <1>3, <3>1
    <2>2. CASE tt # <<x>> /\ tt # mm /\ mm = <<x>>
      <3>1. Decide(<<x>>, mm, tt, merged) = Put(tt) /\ Says(tt, Q)
        BY <1>5, <1>8, <2>2 DEF Decide
      <3> QED
        BY <1>3, <3>1
    <2>3. CASE tt # <<x>> /\ tt # mm /\ mm # <<x>>
      <3>1. Decide(<<x>>, mm, tt, merged) = Both(<<x>>, mm, tt, merged)
        BY <1>8, <2>3 DEF Decide
      <3>2. CASE merged.ok
        <4>1. Decide(<<x>>, mm, tt, merged) = Put(<<merged.unit>>) /\ merged.unit \in Q
          BY <1>8, <3>1, <3>2 DEF Both
        <4> QED
          BY <1>1, <1>3, <4>1
      <3>3. CASE ~merged.ok
        BY <1>4, <3>1, <3>3 DEF Both
      <3> QED
        BY <3>2, <3>3
    <2> QED
      BY <2>1, <2>2, <2>3
  <1> QED
    BY <1>6, <1>7, <1>8

LEMMA SaidSomewhere ==
  ASSUME NEW U, NEW u \in Seq(U), NEW n \in Nat, NEW al, NEW r, Partition(al, n, Len(u), r),
         NEW Q, Says(u, Q)
  PROVE  \/ \E i \in 0..n : Says(Placed(u, al, i), Q)
         \/ \E i \in 1..n : Says(SideOf(u, al, i), Q)
  <1>1. PICK j \in 1..Len(u) : u[j] \in Q
    BY DEF Says
  <1>2. \/ \E i \in 0..n : \E k \in 1..Len(Placed(u, al, i)) : Placed(u, al, i)[k] = u[j]
        \/ \E i \in 1..n : SideOf(u, al, i) = <<u[j]>>
    BY UnitsHavePlaces
  <1>3. CASE \E i \in 0..n : \E k \in 1..Len(Placed(u, al, i)) : Placed(u, al, i)[k] = u[j]
    BY <1>1, <1>3 DEF Says
  <1>4. CASE \E i \in 1..n : SideOf(u, al, i) = <<u[j]>>
    <2>1. PICK i \in 1..n : SideOf(u, al, i) = <<u[j]>>
      BY <1>4
    <2> DEFINE s == SideOf(u, al, i)
    <2>2. 1 \in 1..Len(s) /\ s[1] \in Q
      BY <1>1, <2>1
    <2>3. Says(s, Q)
      BY <2>2 DEF Says
    <2> QED
      BY <2>3
  <1> QED
    BY <1>2, <1>3, <1>4

\* What is said in one of the parts is said in the whole.
LEMMA SaidInTheWhole ==
  ASSUME NEW U, NEW p \in Seq(U), NEW c \in Seq(Seq(U)), NEW s, s = p \o FlattenSeq(c), NEW Q
  PROVE  /\ Says(p, Q) => Says(s, Q)
         /\ \A i \in 1..Len(c) : Says(c[i], Q) => Says(s, Q)
  <1>1. Holds(s, p, c)
    BY InTheWhole
  <1>2. Says(p, Q) => Says(s, Q)
    BY ONLY <1>1 DEF Holds, Says
  <1>3. ASSUME NEW i \in 1..Len(c), Says(c[i], Q) PROVE Says(s, Q)
    <2>1. PICK k \in 1..Len(c[i]) : c[i][k] \in Q
      BY ONLY <1>3 DEF Says
    <2>2. PICK x \in 1..Len(s) : s[x] = c[i][k]
      BY ONLY <1>1 DEF Holds
    <2> QED
      BY ONLY <2>1, <2>2 DEF Says
  <1> QED
    BY <1>2, <1>3

LEMMA SaidInEither ==
  ASSUME NEW U, NEW p \in Seq(U), NEW q \in Seq(U), NEW Q
  PROVE  Says(p \o q, Q) <=> Says(p, Q) \/ Says(q, Q)
  <1> DEFINE s == p \o q
  <1>1. /\ Len(p) \in Nat /\ Len(q) \in Nat /\ Len(s) = Len(p) + Len(q)
        /\ \A k \in 1..Len(p) : s[k] = p[k]
        /\ \A k \in 1..Len(q) : s[Len(p) + k] = q[k]
    OBVIOUS
  <1> HIDE DEF s
  <1>2. Says(p, Q) => Says(s, Q)
    <2> SUFFICES ASSUME NEW k \in 1..Len(p), p[k] \in Q PROVE Says(s, Q)
      BY DEF Says
    <2>1. k \in 1..Len(s) /\ s[k] \in Q
      BY <1>1
    <2> QED
      BY <2>1 DEF Says
  <1>3. Says(q, Q) => Says(s, Q)
    <2> SUFFICES ASSUME NEW k \in 1..Len(q), q[k] \in Q PROVE Says(s, Q)
      BY DEF Says
    <2>1. Len(p) + k \in 1..Len(s) /\ s[Len(p) + k] \in Q
      BY <1>1
    <2> QED
      BY <2>1 DEF Says
  <1>4. Says(s, Q) => Says(p, Q) \/ Says(q, Q)
    <2> SUFFICES ASSUME NEW k \in 1..Len(s), s[k] \in Q PROVE Says(p, Q) \/ Says(q, Q)
      BY DEF Says
    <2>1. CASE k <= Len(p)
      <3>1. k \in 1..Len(p) /\ p[k] \in Q
        BY <1>1, <2>1
      <3> QED
        BY <3>1 DEF Says
    <2>2. CASE ~(k <= Len(p))
      <3>1. k - Len(p) \in 1..Len(q) /\ Len(p) + (k - Len(p)) = k
        BY <1>1, <2>2
      <3>2. q[k - Len(p)] \in Q
        BY <1>1, <3>1
      <3> QED
        BY <3>1, <3>2 DEF Says
    <2> QED
      BY <2>1, <2>2
  <1> QED
    BY <1>2, <1>3, <1>4 DEF s

\* A conflict in which a side says the word.
Reported(conflicts, Q) ==
    \E k \in 1..Len(conflicts) : Says(conflicts[k].mine, Q) \/ Says(conflicts[k].theirs, Q)

\* What one side says and the base does not, is in the merge or in a conflict.
LEMMA NoneIsDropped ==
  ASSUME NEW U, NEW W, NEW b, NEW m, NEW t, NEW A, NEW B, NEW mu, CanMerge(b, m, t, A, B, mu, U, W),
         NEW Q, IsSaid(b, m, t, mu, U, Q), Says(m, Q) \/ Says(t, Q),
         NEW res, res = Combined(b, m, t, A, B, mu)
  PROVE  Says(res.units, Q) \/ Reported(res.conflicts, Q)
  <1> DEFINE n == Len(b)
             D(i) == Decided(b, m, t, A, B, mu, i)
             E(i) == Emitted(m, t, A, B, i)
             P == Pieces(b, m, t, A, B, mu)
             R == Reports(b, m, t, A, B, mu)
             C == Cases(b, m, t, A, B)
  <1>1. b \in Seq(U) /\ m \in Seq(U) /\ t \in Seq(U) /\ n \in Nat
    BY DEF CanMerge
  <1>2. /\ \A i \in 0..n : Placed(m, A, i) \in Seq(U) /\ Placed(t, B, i) \in Seq(U)
        /\ \A i \in 1..n :
               /\ SideOf(m, A, i) = <<>> \/ \E j \in 1..Len(m) : SideOf(m, A, i) = <<m[j]>>
               /\ SideOf(t, B, i) = <<>> \/ \E j \in 1..Len(t) : SideOf(t, B, i) = <<t[j]>>
    BY SidesAre
  <1>3. /\ \A i \in 0..n : E(i) \in Seq(W)
        /\ \A i \in 1..n :
               D(i).units \in Seq(W) /\ (D(i).conflicts = <<>> \/ D(i).conflicts = <<Case(b, m, t, A, B, i)>>)
        /\ P \in Seq(Seq(W)) /\ Len(P) = n
        /\ R \in Seq(Seq(C)) /\ Len(R) = n
    <2>1. MergeTyped(b, m, t, A, B, mu, W)
      BY ONLY CanMerge(b, m, t, A, B, mu, U, W), MergeIsTyped
    <2> QED
      BY ONLY <2>1 DEF MergeTyped
  <1>4. res.units = E(0) \o FlattenSeq(P) /\ res.conflicts = FlattenSeq(R)
    BY <1>1, CombinedIs
  <1>5. \A i \in 1..n : P[i] = D(i).units \o E(i) /\ R[i] = D(i).conflicts
    BY DEF Pieces, Reports
  <1>6. \A x, y \in U : x \in Q /\ Content(x) = Content(y) => y \in Q
    BY DEF IsSaid
  <1>7. \/ \E i \in 0..n : Says(Placed(m, A, i), Q) \/ Says(Placed(t, B, i), Q)
        \/ \E i \in 1..n : Says(SideOf(m, A, i), Q) \/ Says(SideOf(t, B, i), Q)
    <2>1. CASE Says(m, Q)
      <3>1. PICK r : Partition(A, n, Len(m), r)
        BY DEF CanMerge
      <3>2. \/ \E i \in 0..n : Says(Placed(m, A, i), Q)
            \/ \E i \in 1..n : Says(SideOf(m, A, i), Q)
        BY <1>1, <2>1, <3>1, SaidSomewhere
      <3> QED
        BY <3>2
    <2>2. CASE Says(t, Q)
      <3>1. PICK r : Partition(B, n, Len(t), r)
        BY DEF CanMerge
      <3>2. \/ \E i \in 0..n : Says(Placed(t, B, i), Q)
            \/ \E i \in 1..n : Says(SideOf(t, B, i), Q)
        BY <1>1, <2>2, <3>1, SaidSomewhere
      <3> QED
        BY <3>2
    <2> QED
      BY <2>1, <2>2
  <1> HIDE DEF P, R, C, D, E
  <1>8. /\ Says(E(0), Q) => Says(res.units, Q)
        /\ \A i \in 1..n : Says(P[i], Q) => Says(res.units, Q)
    <2>1. 0 \in 0..n
      BY <1>1
    <2>2. E(0) \in Seq(W)
      BY <1>3, <2>1
    <2> QED
      BY <1>3, <1>4, <2>2, SaidInTheWhole
  <1>9. ASSUME NEW i \in 0..n, Says(Placed(m, A, i), Q) \/ Says(Placed(t, B, i), Q)
        PROVE  Says(res.units, Q)
    <2> DEFINE mm == Placed(m, A, i)
               tt == Placed(t, B, i)
    <2>1. mm \in Seq(U) /\ tt \in Seq(U)
      BY <1>2
    <2>2. E(i) = Inserted(mm, tt)
      BY DEF E, Emitted
    <2> HIDE DEF mm, tt
    <2>3. Says(E(i), Q)
      <3>1. Says(mm, Q) \/ Says(tt, Q)
        BY <1>9 DEF mm, tt
      <3> QED
        BY <1>6, <2>1, <2>2, <3>1, InsertedDropsNothing
    <2>4. CASE i = 0
      BY <1>8, <2>3, <2>4
    <2>5. CASE i # 0
      <3>1. i \in 1..n
        BY <1>1, <2>5
      <3>2. P[i] = D(i).units \o E(i) /\ D(i).units \in Seq(W) /\ E(i) \in Seq(W)
        BY <1>3, <1>5, <3>1
      <3>3. Says(P[i], Q)
        BY <2>3, <3>2, SaidInEither
      <3> QED
        BY <1>8, <3>1, <3>3
    <2> QED
      BY <2>4, <2>5
  <1>10. ASSUME NEW i \in 1..n, Says(SideOf(m, A, i), Q) \/ Says(SideOf(t, B, i), Q)
         PROVE  Says(res.units, Q) \/ Reported(res.conflicts, Q)
    <2> DEFINE mm == SideOf(m, A, i)
               tt == SideOf(t, B, i)
               x == b[i]
               merged == mu[<<(<<x>>)[1], mm[1], tt[1]>>]
               cc == [base |-> <<x>>, mine |-> mm, theirs |-> tt]
    <2>1. mm = <<>> \/ \E j \in 1..Len(m) : mm = <<m[j]>>
      BY <1>2
    <2>2. tt = <<>> \/ \E k \in 1..Len(t) : tt = <<t[k]>>
      BY <1>2
    <2>3. x \notin Q
      BY DEF IsSaid
    <2>4. \A j \in 1..Len(m), k \in 1..Len(t) :
             mu[<<x, m[j], t[k]>>].ok /\ (m[j] \in Q \/ t[k] \in Q) => mu[<<x, m[j], t[k]>>].unit \in Q
      BY DEF IsSaid
    <2>5. D(i) = Decide(<<x>>, mm, tt, merged) /\ Case(b, m, t, A, B, i) = cc
      BY DEF D, Decided, Case
    <2>6. Says(mm, Q) \/ Says(tt, Q)
      BY <1>10
    <2> HIDE DEF mm, tt, x
    <2>7. mm # <<>> /\ tt # <<>> /\ merged.ok => merged.unit \in Q
      <3> SUFFICES ASSUME mm # <<>>, tt # <<>>, merged.ok PROVE merged.unit \in Q
        OBVIOUS
      <3>1. PICK j \in 1..Len(m) : mm = <<m[j]>>
        BY <2>1
      <3>2. PICK k \in 1..Len(t) : tt = <<t[k]>>
        BY <2>2
      <3>3. merged = mu[<<x, m[j], t[k]>>]
        BY <3>1, <3>2
      <3>4. m[j] \in Q \/ t[k] \in Q
        BY <2>6, <3>1, <3>2 DEF Says
      <3> HIDE DEF merged
      <3> QED
        BY <2>4, <3>3, <3>4
    <2>8. (mm = <<>> \/ \E y : mm = <<y>>) /\ (tt = <<>> \/ \E y : tt = <<y>>)
      BY <2>1, <2>2
    <2> HIDE DEF merged
    <2>9. Says(D(i).units, Q) \/ D(i).conflicts = <<cc>>
      <3>1. \/ Says(Decide(<<x>>, mm, tt, merged).units, Q)
            \/ Decide(<<x>>, mm, tt, merged).conflicts = <<cc>>
        BY <2>3, <2>6, <2>7, <2>8, DecideDropsNothing
      <3> QED
        BY <2>5, <3>1
    <2>10. CASE Says(D(i).units, Q)
      <3>1. i \in 0..n
        BY <1>1
      <3>2. P[i] = D(i).units \o E(i) /\ D(i).units \in Seq(W) /\ E(i) \in Seq(W)
        BY <1>3, <1>5, <3>1
      <3>3. Says(P[i], Q)
        BY <2>10, <3>2, SaidInEither
      <3> QED
        BY <1>8, <3>3
    <2>11. CASE D(i).conflicts = <<cc>>
      <3>1. i \in 1..Len(R) /\ R[i] = <<cc>> /\ 1 \in 1..Len(R[i]) /\ R[i][1] = cc
        <4>1. i \in 1..Len(R) /\ R[i] = <<cc>>
          BY <1>3, <1>5, <2>11
        <4>2. \A y : 1 \in 1..Len(<<y>>) /\ (<<y>>)[1] = y
          OBVIOUS
        <4> HIDE DEF cc
        <4> QED
          BY <4>1, <4>2
      <3>2. PICK k \in 1..Len(FlattenSeq(R)) : FlattenSeq(R)[k] = R[i][1]
        <4>1. R \in Seq(Seq(C)) /\ i \in 1..Len(R) /\ 1 \in 1..Len(R[i])
          BY <1>3, <3>1
        <4> QED
          <5>1. Occurs(R[i][1], FlattenSeq(R))
            BY ONLY <4>1, FlattenHolds
          <5> QED
            BY ONLY <5>1 DEF Occurs
      <3> DEFINE c == res.conflicts
      <3>3. k \in 1..Len(c) /\ c[k] = cc
        BY <1>4, <3>1, <3>2
      <3> HIDE DEF c
      <3>4. c[k].mine = mm /\ c[k].theirs = tt
        BY <3>3
      <3>5. Reported(c, Q)
        BY <2>6, <3>3, <3>4 DEF Reported
      <3> QED
        BY <3>5 DEF c
    <2> QED
      BY <2>9, <2>10, <2>11
  <1> QED
    BY <1>7, <1>9, <1>10

LEMMA CombinedIsTyped ==
  ASSUME NEW U, NEW W, NEW b, NEW m, NEW t, NEW A, NEW B, NEW mu, CanMerge(b, m, t, A, B, mu, U, W),
         NEW res, res = Combined(b, m, t, A, B, mu)
  PROVE  /\ res.units \in Seq(W) /\ res.conflicts \in Seq(Cases(b, m, t, A, B))
         /\ \A c \in Cases(b, m, t, A, B) : c.mine \in Seq(W) /\ c.theirs \in Seq(W)
         /\ res.ok = (res.conflicts = <<>>)
  <1> DEFINE n == Len(b)
             E == Emitted(m, t, A, B, 0)
             P == Pieces(b, m, t, A, B, mu)
             R == Reports(b, m, t, A, B, mu)
             C == Cases(b, m, t, A, B)
  <1>1. b \in Seq(U) /\ n \in Nat /\ U \subseteq W
    BY DEF CanMerge
  <1>2. E \in Seq(W) /\ P \in Seq(Seq(W)) /\ R \in Seq(Seq(C))
    <2>1. 0 \in 0..n
      BY <1>1
    <2>2. MergeTyped(b, m, t, A, B, mu, W)
      BY ONLY CanMerge(b, m, t, A, B, mu, U, W), MergeIsTyped
    <2> QED
      BY <2>1, <2>2 DEF MergeTyped
  <1>3. res.units = E \o FlattenSeq(P) /\ res.conflicts = FlattenSeq(R) /\ res.ok = (res.conflicts = <<>>)
    BY <1>1, CombinedIs
  <1> HIDE DEF E, P, R, C
  <1>4. FlattenSeq(P) \in Seq(W)
    BY <1>2, FlattenTyped
  <1>5. FlattenSeq(R) \in Seq(C)
    BY <1>2, FlattenTyped
  <1>6. res.units \in Seq(W)
    BY <1>2, <1>3, <1>4
  <1>7. ASSUME NEW c \in C PROVE c.mine \in Seq(W) /\ c.theirs \in Seq(W)
    <2>1. PICK i \in 1..n : c = Case(b, m, t, A, B, i)
      BY <1>7 DEF C, Cases
    <2> DEFINE mm == SideOf(m, A, i)
               tt == SideOf(t, B, i)
    <2>2. mm = <<>> \/ \E j \in 1..Len(m) : mm = <<m[j]>>
      BY SidesAre
    <2>3. tt = <<>> \/ \E j \in 1..Len(t) : tt = <<t[j]>>
      BY SidesAre
    <2>4. (\A j \in 1..Len(m) : m[j] \in W) /\ \A j \in 1..Len(t) : t[j] \in W
      BY <1>1 DEF CanMerge
    <2>5. c.mine = mm /\ c.theirs = tt
      BY <2>1 DEF Case
    <2>6. <<>> \in Seq(W) /\ \A y \in W : <<y>> \in Seq(W)
      OBVIOUS
    <2> HIDE DEF mm, tt
    <2> QED
      BY <2>2, <2>3, <2>4, <2>5, <2>6
  <1> QED
    BY <1>3, <1>5, <1>6, <1>7 DEF C

\* The merge is of units of W, and all that a side says is in it or reported.
DropsNothing(b, m, t, mu, U, W, res) ==
    /\ res.units \in Seq(W)
    /\ \E C : res.conflicts \in Seq(C) /\ \A c \in C : c.mine \in Seq(W) /\ c.theirs \in Seq(W)
    /\ res.ok = (res.conflicts = <<>>)
    /\ \A Q : IsSaid(b, m, t, mu, U, Q) /\ (Says(m, Q) \/ Says(t, Q))
                 => Says(res.units, Q) \/ Reported(res.conflicts, Q)

LEMMA ThreeWayDropsNothing ==
  ASSUME NEW U, NEW W, U \subseteq W, NEW b \in Seq(U), NEW m \in Seq(U), NEW t \in Seq(U), NEW mu,
         \A i \in 1..Len(b), j \in 1..Len(m), k \in 1..Len(t) :
            mu[<<b[i], m[j], t[k]>>].ok => mu[<<b[i], m[j], t[k]>>].unit \in W,
         NEW res, res = ThreeWayMerge(b, m, t, mu)
  PROVE  DropsNothing(b, m, t, mu, U, W, res)
  <1> DEFINE A == AlignToBase(Ids(b), Ids(m))
             B == AlignToBase(Ids(b), Ids(t))
  <1>1. res = Combined(b, m, t, A, B, mu)
    BY DEF ThreeWayMerge
  <1>2. (\E r : Partition(A, Len(b), Len(m), r)) /\ \E q : Partition(B, Len(b), Len(t), q)
    BY UnitsAreAligned
  <1> HIDE DEF A, B
  <1>3. CanMerge(b, m, t, A, B, mu, U, W)
    BY <1>2 DEF CanMerge
  <1>4. /\ res.units \in Seq(W) /\ res.conflicts \in Seq(Cases(b, m, t, A, B))
        /\ \A c \in Cases(b, m, t, A, B) : c.mine \in Seq(W) /\ c.theirs \in Seq(W)
        /\ res.ok = (res.conflicts = <<>>)
    BY <1>1, <1>3, CombinedIsTyped
  <1>5. ASSUME NEW Q, IsSaid(b, m, t, mu, U, Q), Says(m, Q) \/ Says(t, Q)
        PROVE  Says(res.units, Q) \/ Reported(res.conflicts, Q)
    BY <1>1, <1>3, <1>5, NoneIsDropped
  <1> QED
    BY <1>4, <1>5 DEF DropsNothing

LEMMA ContentHolds ==
  ASSUME NEW x, NEW y, NEW f, f \in DOMAIN x, f \in DOMAIN y, f # "id", Content(x) = Content(y)
  PROVE  x[f] = y[f]
  <1>1. Content(x)[f] = x[f] /\ Content(y)[f] = y[f]
    BY DEF Content
  <1> QED
    BY <1>1

(***************************************************************************)
(* Documents.                                                              *)
(***************************************************************************)
LEMMA TextsAgree ==
  ASSUME NEW b, b = [id |-> b.id, text |-> b.text, format |-> b.format], NEW m, NEW t,
         MergeText(b, m, t).ok
  PROVE  m.text = t.text /\ MergeText(b, m, t).unit.text = m.text
  BY DEF MergeText, Fails

\* The units of W that say w.
Sayers(W, w) == {x \in W : IF kind = "docx" THEN x.text = w ELSE w \in ToSet(x.values)}

\* What one side says and the base does not, is in res or in a conflict of it.
Kept(b, m, t, res) ==
    \E W, C :
        /\ b \in Seq(W) /\ m \in Seq(W) /\ t \in Seq(W)
        /\ res.units \in Seq(W) /\ res.conflicts \in Seq(C)
        /\ \A c \in C : c.mine \in Seq(W) /\ c.theirs \in Seq(W)
        /\ \A w : /\ Says(m, Sayers(W, w)) \/ Says(t, Sayers(W, w))
                  /\ ~Says(b, Sayers(W, w))
                  => Says(res.units, Sayers(W, w)) \/ Reported(res.conflicts, Sayers(W, w))

LEMMA DocsDropNothing ==
  ASSUME kind = "docx", NEW base0 \in Docs, NEW mine0 \in Docs, NEW theirs0 \in Docs,
         NEW res, res = MergeDocxBlocks(base0, mine0, theirs0)
  PROVE  Kept(Blocks(base0), Blocks(mine0), Blocks(theirs0), res)
  <1> DEFINE b == Blocks(base0)
             m == Blocks(mine0)
             t == Blocks(theirs0)
             U == ToSet(b) \union ToSet(m) \union ToSet(t)
             M == ToSet(b) \X ToSet(m) \X ToSet(t)
             mu == [q \in M |-> MergeText(q[1], q[2], q[3])]
             W == U \union {mu[q].unit : q \in M}
  <1>1. res = ThreeWayMerge(b, m, t, mu)
    BY DEF MergeDocxBlocks
  <1>2. \A s \in {b, m, t} : s \in Seq(ToSet(s))
    BY DocsHaveUnits
  <1>3. \A s \in {b, m, t} : \A x \in ToSet(s) : x = [id |-> x.id, text |-> x.text, format |-> x.format]
    <2>1. ASSUME NEW doc PROVE \A x \in ToSet(Blocks(doc)) : x = [id |-> x.id, text |-> x.text, format |-> x.format]
      BY DEF ToSet, Blocks
    <2> QED
      BY <2>1
  <1> HIDE DEF b, m, t
  <1>4. b \in Seq(U) /\ m \in Seq(U) /\ t \in Seq(U)
    <2>1. ToSet(b) \subseteq U /\ ToSet(m) \subseteq U /\ ToSet(t) \subseteq U
      OBVIOUS
    <2> HIDE DEF U
    <2> QED
      BY <1>2, <2>1, SeqsGrow
  <1>5. \A x \in U : x = [id |-> x.id, text |-> x.text, format |-> x.format]
    BY <1>3
  <1>6. /\ \A i \in 1..Len(b) : b[i] \in ToSet(b)
        /\ \A j \in 1..Len(m) : m[j] \in ToSet(m)
        /\ \A k \in 1..Len(t) : t[k] \in ToSet(t)
    BY <1>2 DEF ToSet
  <1>7. \A i \in 1..Len(b), j \in 1..Len(m), k \in 1..Len(t) :
           /\ <<b[i], m[j], t[k]>> \in M
           /\ mu[<<b[i], m[j], t[k]>>] = MergeText(b[i], m[j], t[k])
    BY <1>6
  <1> HIDE DEF M
  <1>8. U \subseteq W /\ \A q \in M : mu[q].unit \in W
    OBVIOUS
  <1>9. \A i \in 1..Len(b) : b[i] = [id |-> b[i].id, text |-> b[i].text, format |-> b[i].format]
    BY <1>3, <1>6
  <1> HIDE DEF mu, U, W
  <1>10. /\ res.units \in Seq(W)
         /\ \E C : res.conflicts \in Seq(C) /\ \A c \in C : c.mine \in Seq(W) /\ c.theirs \in Seq(W)
         /\ \A Q : IsSaid(b, m, t, mu, U, Q) /\ (Says(m, Q) \/ Says(t, Q))
                      => Says(res.units, Q) \/ Reported(res.conflicts, Q)
    <2>1. \A i \in 1..Len(b), j \in 1..Len(m), k \in 1..Len(t) :
             mu[<<b[i], m[j], t[k]>>].ok => mu[<<b[i], m[j], t[k]>>].unit \in W
      BY <1>7, <1>8
    <2>2. DropsNothing(b, m, t, mu, U, W, res)
      BY <1>1, <1>4, <1>8, <2>1, ThreeWayDropsNothing
    <2> QED
      BY <2>2 DEF DropsNothing
  <1>11. ASSUME NEW w, NEW Q, Q = Sayers(W, w), ~Says(b, Q)
         PROVE  IsSaid(b, m, t, mu, U, Q)
    <2>1. ASSUME NEW x \in U, NEW y \in U, x \in Q, Content(x) = Content(y) PROVE y \in Q
      <3>1. x["text"] = y["text"]
        <4>1. "text" \in DOMAIN x /\ "text" \in DOMAIN y
          BY <1>5
        <4> QED
          BY <2>1, <4>1, ContentHolds
      <3> QED
        BY <1>8, <1>11, <2>1, <3>1 DEF Sayers
    <2>2. \A i \in 1..Len(b) : b[i] \notin Q
      BY <1>11 DEF Says
    <2>3. ASSUME NEW i \in 1..Len(b), NEW j \in 1..Len(m), NEW k \in 1..Len(t),
                 MergeText(b[i], m[j], t[k]).ok, m[j] \in Q \/ t[k] \in Q
          PROVE  MergeText(b[i], m[j], t[k]).unit \in Q
      <3> DEFINE x == b[i]
                 y == m[j]
                 z == t[k]
      <3>1. x = [id |-> x.id, text |-> x.text, format |-> x.format]
        BY <1>9
      <3>2. MergeText(x, y, z).unit \in W
        BY <1>7, <1>8
      <3>3. MergeText(x, y, z).ok /\ (y.text = w \/ z.text = w)
        BY <1>11, <2>3 DEF Sayers
      <3> HIDE DEF x, y, z
      <3>4. y.text = z.text /\ MergeText(x, y, z).unit.text = y.text
        BY <3>1, <3>3, TextsAgree
      <3>5. MergeText(x, y, z).unit \in Q
        BY <1>11, <3>2, <3>3, <3>4 DEF Sayers
      <3> QED
        BY <3>5 DEF x, y, z
    <2> QED
      BY <1>7, <2>1, <2>2, <2>3 DEF IsSaid
  <1>12. PICK C : res.conflicts \in Seq(C) /\ \A c \in C : c.mine \in Seq(W) /\ c.theirs \in Seq(W)
    BY <1>10
  <1>13. ASSUME NEW w, NEW Q, Q = Sayers(W, w), Says(m, Q) \/ Says(t, Q), ~Says(b, Q)
         PROVE  Says(res.units, Q) \/ Reported(res.conflicts, Q)
    BY <1>10, <1>11, <1>13
  <1>14. \A w : /\ Says(m, Sayers(W, w)) \/ Says(t, Sayers(W, w))
                /\ ~Says(b, Sayers(W, w))
                => Says(res.units, Sayers(W, w)) \/ Reported(res.conflicts, Sayers(W, w))
    BY <1>13
  <1>16. b \in Seq(W) /\ m \in Seq(W) /\ t \in Seq(W)
    BY <1>4, <1>8, SeqsGrow
  <1> QED
    BY <1>10, <1>12, <1>14, <1>16 DEF b, m, t, Kept

(***************************************************************************)
(* Rows and their cells.                                                   *)
(***************************************************************************)
IsRow(r) ==
    /\ r = [id |-> r.id, values |-> r.values, colIds |-> r.colIds]
    /\ r.values \in Seq(ToSet(r.values)) /\ DOMAIN r.colIds = DOMAIN r.values

LEMMA RowsAreRows ==
  ASSUME NEW sheet \in Sheets
  PROVE  \A x \in ToSet(RowUnits(sheet)) : IsRow(x)
  <1>1. /\ sheet \in Seq(ToSet(sheet)) /\ Len(sheet) \in Nat /\ DOMAIN sheet = 1..Len(sheet)
        /\ \A row \in ToSet(sheet) : row \in Seq(ToSet(row)) /\ Len(row) = Len(sheet[1])
    BY VersionsAssumption
  <1>2. DOMAIN RowUnits(sheet) = 1..Len(sheet)
    BY <1>1 DEF RowUnits
  <1> SUFFICES ASSUME NEW i \in 1..Len(sheet) PROVE IsRow(RowUnits(sheet)[i])
    BY <1>2 DEF ToSet
  <1> DEFINE x == RowUnits(sheet)[i]
             cols == Names(Columns(sheet))
  <1>3. x = [id |-> Names(sheet)[i], values |-> sheet[i], colIds |-> cols]
    BY <1>1 DEF RowUnits
  <1>4. 1 \in 1..Len(sheet) /\ sheet # <<>>
    BY <1>1
  <1>5. sheet[i] \in ToSet(sheet) /\ sheet[1] \in ToSet(sheet)
    BY <1>1, <1>4 DEF ToSet
  <1>6. sheet[i] \in Seq(ToSet(sheet[i])) /\ sheet[1] \in Seq(ToSet(sheet[1])) /\ Len(sheet[i]) = Len(sheet[1])
    BY <1>1, <1>5
  <1>7. DOMAIN sheet[i] = DOMAIN sheet[1]
    BY <1>6
  <1>8. DOMAIN cols = DOMAIN sheet[1]
    BY <1>4 DEF Names, Columns
  <1> HIDE DEF x, cols
  <1>9. x.values = sheet[i] /\ x.colIds = cols /\ x = [id |-> x.id, values |-> x.values, colIds |-> x.colIds]
    BY <1>3
  <1>10. IsRow(x)
    BY <1>6, <1>7, <1>8, <1>9 DEF IsRow
  <1> QED
    BY <1>10 DEF x

LEMMA CellsAre ==
  ASSUME NEW r, IsRow(r)
  PROVE  /\ Cells(r) \in Seq(ToSet(Cells(r))) /\ Len(Cells(r)) = Len(r.values) /\ Len(r.values) \in Nat
         /\ DOMAIN r.values = 1..Len(r.values)
         /\ \A c \in 1..Len(r.values) :
               Cells(r)[c] = [id |-> r.colIds[c], value |-> r.values[c]]
         /\ \A x \in ToSet(Cells(r)) : x = [id |-> x.id, value |-> x.value]
  <1> DEFINE n == Len(r.values)
             s == Cells(r)
  <1>1. n \in Nat /\ DOMAIN r.values = 1..n /\ DOMAIN r.colIds = 1..n
    BY DEF IsRow
  <1>2. s = [c \in 1..n |-> [id |-> r.colIds[c], value |-> r.values[c]]]
    BY <1>1 DEF Cells
  <1> HIDE DEF s, n
  <1>3. DOMAIN s = 1..n /\ \A c \in 1..n : s[c] \in ToSet(s)
    BY <1>2 DEF ToSet
  <1>4. s = [c \in 1..n |-> s[c]]
    BY <1>2
  <1>5. s \in Seq(ToSet(s)) /\ Len(s) = n
    BY <1>1, <1>3, <1>4
  <1>6. \A x \in ToSet(s) : x = [id |-> x.id, value |-> x.value]
    BY <1>2 DEF ToSet
  <1> QED
    BY <1>1, <1>2, <1>5, <1>6 DEF s, n

\* A value in a row is said by one of its cells.
LEMMA CellsSay ==
  ASSUME NEW r, IsRow(r), NEW W, ToSet(Cells(r)) \subseteq W, NEW w, NEW Q, Q = {x \in W : x.value = w}
  PROVE  Says(Cells(r), Q) <=> w \in ToSet(r.values)
  <1> DEFINE n == Len(r.values)
             s == Cells(r)
  <1>1. /\ s \in Seq(ToSet(s)) /\ Len(s) = n /\ n \in Nat /\ DOMAIN r.values = 1..n
        /\ \A c \in 1..n : s[c] = [id |-> r.colIds[c], value |-> r.values[c]]
    BY CellsAre
  <1>2. \A c \in 1..n : s[c] \in W
    BY <1>1 DEF ToSet
  <1> HIDE DEF n, s
  <1>3. \A c \in 1..n : s[c] \in Q <=> r.values[c] = w
    BY <1>1, <1>2
  <1>4. w \in ToSet(r.values) <=> \E c \in 1..n : r.values[c] = w
    BY <1>1 DEF ToSet
  <1>5. Says(s, Q) <=> \E c \in 1..n : s[c] \in Q
    BY <1>1 DEF Says
  <1> QED
    BY <1>3, <1>4, <1>5 DEF s

LEMMA RowsDropNothing ==
  ASSUME NEW x, NEW y, NEW z, IsRow(x), IsRow(y), IsRow(z), NEW w,
         w \notin ToSet(x.values), w \in ToSet(y.values) \/ w \in ToSet(z.values),
         MergeRowUnits(x, y, z).ok
  PROVE  w \in ToSet(MergeRowUnits(x, y, z).unit.values)
  <1> DEFINE b == Cells(x)
             m == Cells(y)
             t == Cells(z)
             U == ToSet(b) \union ToSet(m) \union ToSet(t)
             M == ToSet(b) \X ToSet(m) \X ToSet(t)
             mu == [q \in M |-> Fails]
             r == ThreeWayMerge(b, m, t, mu)
             Q == {c \in U : c.value = w}
  <1>1. MergeRowUnits(x, y, z) = Joined(x, r)
    BY DEF MergeRowUnits
  <1>2. b \in Seq(ToSet(b)) /\ m \in Seq(ToSet(m)) /\ t \in Seq(ToSet(t))
    BY CellsAre
  <1>3. \A c \in U : c = [id |-> c.id, value |-> c.value]
    BY CellsAre
  <1>4. ToSet(b) \subseteq U /\ ToSet(m) \subseteq U /\ ToSet(t) \subseteq U
    OBVIOUS
  <1>5. /\ Says(b, Q) <=> w \in ToSet(x.values)
        /\ Says(m, Q) <=> w \in ToSet(y.values)
        /\ Says(t, Q) <=> w \in ToSet(z.values)
    <2> HIDE DEF U
    <2>1. Says(b, Q) <=> w \in ToSet(x.values)
      BY <1>4, CellsSay
    <2>2. Says(m, Q) <=> w \in ToSet(y.values)
      BY <1>4, CellsSay
    <2>3. Says(t, Q) <=> w \in ToSet(z.values)
      BY <1>4, CellsSay
    <2> QED
      BY <2>1, <2>2, <2>3
  <1> HIDE DEF b, m, t, r
  <1>6. b \in Seq(U) /\ m \in Seq(U) /\ t \in Seq(U)
    <2> HIDE DEF U
    <2> QED
      BY <1>2, <1>4, SeqsGrow
  <1>7. \A i \in 1..Len(b), j \in 1..Len(m), k \in 1..Len(t) : ~mu[<<b[i], m[j], t[k]>>].ok
    <2> SUFFICES ASSUME NEW i \in 1..Len(b), NEW j \in 1..Len(m), NEW k \in 1..Len(t)
                 PROVE  ~mu[<<b[i], m[j], t[k]>>].ok
      OBVIOUS
    <2>1. b[i] \in ToSet(b) /\ m[j] \in ToSet(m) /\ t[k] \in ToSet(t)
      BY <1>2
    <2>2. mu[<<b[i], m[j], t[k]>>] = Fails
      BY <2>1
    <2> HIDE DEF mu
    <2> QED
      BY <2>2 DEF Fails
  <1> HIDE DEF mu, U
  <1>8. DropsNothing(b, m, t, mu, U, U, r)
    <2>1. /\ U \subseteq U /\ r = ThreeWayMerge(b, m, t, mu)
          /\ \A i \in 1..Len(b), j \in 1..Len(m), k \in 1..Len(t) :
                mu[<<b[i], m[j], t[k]>>].ok => mu[<<b[i], m[j], t[k]>>].unit \in U
      BY <1>7 DEF r
    <2> QED
      BY ONLY <1>6, <2>1, ThreeWayDropsNothing
  <1>9. r.ok /\ MergeRowUnits(x, y, z).unit = [x EXCEPT !.values = [c \in DOMAIN r.units |-> r.units[c].value]]
    BY <1>1 DEF Joined, Fails
  <1>10. IsSaid(b, m, t, mu, U, Q)
    <2>1. ASSUME NEW c \in U, NEW d \in U, c \in Q, Content(c) = Content(d) PROVE d \in Q
      <3>1. c["value"] = d["value"]
        <4>1. "value" \in DOMAIN c /\ "value" \in DOMAIN d
          BY <1>3
        <4> QED
          BY <2>1, <4>1, ContentHolds
      <3> QED
        BY <2>1, <3>1
    <2>2. \A i \in 1..Len(b) : b[i] \notin Q
      BY <1>5 DEF Says
    <2> QED
      BY <1>7, <2>1, <2>2 DEF IsSaid
  <1>11. Says(r.units, Q)
    <2>1. r.conflicts = <<>>
      BY <1>8, <1>9 DEF DropsNothing
    <2>2. ~Reported(r.conflicts, Q)
      BY <2>1 DEF Reported
    <2>3. Says(m, Q) \/ Says(t, Q)
      BY <1>5
    <2> HIDE DEF Q
    <2> QED
      BY <1>8, <1>10, <2>2, <2>3 DEF DropsNothing
  <1>12. r.units \in Seq(U)
    BY <1>8 DEF DropsNothing
  <1> DEFINE v == [c \in DOMAIN r.units |-> r.units[c].value]
             u == [x EXCEPT !.values = v]
  <1>13. w \in ToSet(v)
    <2>1. PICK k \in 1..Len(r.units) : r.units[k] \in Q
      BY <1>11 DEF Says
    <2>2. k \in DOMAIN r.units
      BY <1>12
    <2>3. v[k] = w /\ k \in DOMAIN v
      BY <2>1, <2>2
    <2> HIDE DEF v
    <2> QED
      BY <2>3 DEF ToSet
  <1> HIDE DEF v
  <1>14. u.values = v
    BY DEF IsRow
  <1> QED
    BY <1>9, <1>13, <1>14 DEF v

LEMMA SheetsDropNothing ==
  ASSUME kind = "xlsx", NEW base0 \in Sheets, NEW mine0 \in Sheets, NEW theirs0 \in Sheets,
         NEW res, res = MergeSheetRows(base0, mine0, theirs0)
  PROVE  Kept(RowUnits(base0), RowUnits(mine0), RowUnits(theirs0), res)
  <1> DEFINE b == RowUnits(base0)
             m == RowUnits(mine0)
             t == RowUnits(theirs0)
             U == ToSet(b) \union ToSet(m) \union ToSet(t)
             M == ToSet(b) \X ToSet(m) \X ToSet(t)
             mu == [q \in M |-> MergeRowUnits(q[1], q[2], q[3])]
             W == U \union {mu[q].unit : q \in M}
  <1>1. res = ThreeWayMerge(b, m, t, mu)
    BY DEF MergeSheetRows
  <1>2. \A s \in {b, m, t} : s \in Seq(ToSet(s))
    BY SheetsHaveUnits
  <1>3. \A s \in {b, m, t} : \A x \in ToSet(s) : IsRow(x)
    BY RowsAreRows
  <1> HIDE DEF b, m, t
  <1>4. b \in Seq(U) /\ m \in Seq(U) /\ t \in Seq(U)
    <2>1. ToSet(b) \subseteq U /\ ToSet(m) \subseteq U /\ ToSet(t) \subseteq U
      OBVIOUS
    <2> HIDE DEF U
    <2> QED
      BY <1>2, <2>1, SeqsGrow
  <1>5. \A x \in U : IsRow(x)
    BY <1>3
  <1>6. /\ \A i \in 1..Len(b) : b[i] \in ToSet(b)
        /\ \A j \in 1..Len(m) : m[j] \in ToSet(m)
        /\ \A k \in 1..Len(t) : t[k] \in ToSet(t)
    BY <1>2 DEF ToSet
  <1>7. \A i \in 1..Len(b), j \in 1..Len(m), k \in 1..Len(t) :
           /\ <<b[i], m[j], t[k]>> \in M
           /\ mu[<<b[i], m[j], t[k]>>] = MergeRowUnits(b[i], m[j], t[k])
    BY <1>6
  <1>8. U \subseteq W /\ \A q \in M : mu[q].unit \in W
    OBVIOUS
  <1>9. /\ \A i \in 1..Len(b) : b[i] \in U
        /\ \A j \in 1..Len(m) : m[j] \in U
        /\ \A k \in 1..Len(t) : t[k] \in U
    BY <1>6
  <1> HIDE DEF M, mu, U, W
  <1>10. DropsNothing(b, m, t, mu, U, W, res)
    <2>1. \A i \in 1..Len(b), j \in 1..Len(m), k \in 1..Len(t) :
             mu[<<b[i], m[j], t[k]>>].ok => mu[<<b[i], m[j], t[k]>>].unit \in W
      BY <1>7, <1>8
    <2> QED
      BY <1>1, <1>4, <1>8, <2>1, ThreeWayDropsNothing
  <1>11. ASSUME NEW w, NEW Q, Q = Sayers(W, w), ~Says(b, Q)
         PROVE  IsSaid(b, m, t, mu, U, Q)
    <2>1. ASSUME NEW x \in U, NEW y \in U, x \in Q, Content(x) = Content(y) PROVE y \in Q
      <3>1. x["values"] = y["values"]
        <4>1. "values" \in DOMAIN x /\ "values" \in DOMAIN y
          BY <1>5 DEF IsRow
        <4> QED
          BY <2>1, <4>1, ContentHolds
      <3> QED
        BY <1>8, <1>11, <2>1, <3>1 DEF Sayers
    <2>2. \A i \in 1..Len(b) : b[i] \notin Q
      BY <1>11 DEF Says
    <2>3. ASSUME NEW i \in 1..Len(b), NEW j \in 1..Len(m), NEW k \in 1..Len(t),
                 MergeRowUnits(b[i], m[j], t[k]).ok, m[j] \in Q \/ t[k] \in Q
          PROVE  MergeRowUnits(b[i], m[j], t[k]).unit \in Q
      <3> DEFINE x == b[i]
                 y == m[j]
                 z == t[k]
      <3>1. x \in U /\ y \in U /\ z \in U
        BY <1>9
      <3>2. IsRow(x) /\ IsRow(y) /\ IsRow(z) /\ x \in W
        BY <1>5, <1>8, <3>1
      <3>3. MergeRowUnits(x, y, z).unit \in W
        BY <1>7, <1>8
      <3>4. MergeRowUnits(x, y, z).ok /\ (y \in Q \/ z \in Q) /\ x \notin Q
        BY <2>2, <2>3
      <3> HIDE DEF x, y, z
      <3>5. w \notin ToSet(x.values) /\ (w \in ToSet(y.values) \/ w \in ToSet(z.values))
        BY <1>11, <3>2, <3>4 DEF Sayers
      <3>6. w \in ToSet(MergeRowUnits(x, y, z).unit.values)
        BY <3>2, <3>4, <3>5, RowsDropNothing
      <3>7. MergeRowUnits(x, y, z).unit \in Q
        BY <1>11, <3>3, <3>6 DEF Sayers
      <3> QED
        BY <3>7 DEF x, y, z
    <2> QED
      BY <1>7, <2>1, <2>2, <2>3 DEF IsSaid
  <1>12. PICK C : res.conflicts \in Seq(C) /\ \A c \in C : c.mine \in Seq(W) /\ c.theirs \in Seq(W)
    BY <1>10 DEF DropsNothing
  <1>13. ASSUME NEW w, NEW Q, Q = Sayers(W, w), Says(m, Q) \/ Says(t, Q), ~Says(b, Q)
         PROVE  Says(res.units, Q) \/ Reported(res.conflicts, Q)
    BY <1>10, <1>11, <1>13 DEF DropsNothing
  <1>14. \A w : /\ Says(m, Sayers(W, w)) \/ Says(t, Sayers(W, w))
                /\ ~Says(b, Sayers(W, w))
                => Says(res.units, Sayers(W, w)) \/ Reported(res.conflicts, Sayers(W, w))
    BY <1>13
  <1>15. res.units \in Seq(W)
    BY <1>10 DEF DropsNothing
  <1>16. b \in Seq(W) /\ m \in Seq(W) /\ t \in Seq(W)
    BY <1>4, <1>8, SeqsGrow
  <1> QED
    BY <1>10, <1>12, <1>14, <1>15, <1>16 DEF b, m, t, Kept

(***************************************************************************)
(* The words of what is read and of what comes out.                        *)
(***************************************************************************)
LEMMA WordsAreSaid ==
  ASSUME NEW X, NEW s \in Seq(X), NEW W, \A k \in 1..Len(s) : s[k] \in W, NEW w
  PROVE  w \in Words(s) <=> Says(s, Sayers(W, w))
  <1>1. Len(s) \in Nat /\ DOMAIN s = 1..Len(s)
    OBVIOUS
  <1>2. Says(s, Sayers(W, w)) <=>
           \E k \in 1..Len(s) : IF kind = "docx" THEN s[k].text = w ELSE w \in ToSet(s[k].values)
    BY DEF Says, Sayers
  <1>3. CASE kind = "docx"
    <2>1. Said(s) = [i \in 1..Len(s) |-> s[i].text]
      BY <1>1, <1>3 DEF Said
    <2>2. w \in Words(s) <=> \E k \in 1..Len(s) : s[k].text = w
      BY <1>3, <2>1 DEF Words, ToSet
    <2> QED
      BY <1>2, <1>3, <2>2
  <1>4. CASE kind # "docx"
    <2>1. Said(s) = [i \in 1..Len(s) |-> s[i].values]
      BY <1>1, <1>4 DEF Said
    <2>2. ToSet(Said(s)) = {s[i].values : i \in 1..Len(s)}
      BY <2>1 DEF ToSet
    <2>3. w \in Words(s) <=> \E k \in 1..Len(s) : w \in ToSet(s[k].values)
      BY <1>4, <2>2 DEF Words
    <2> QED
      BY <1>2, <1>4, <2>3
  <1> QED
    BY <1>3, <1>4

LEMMA ReadMeansNothingDropped == ASSUME IsRead PROVE NothingIsDropped
  <1> DEFINE b == Units(base)
             m == Units(mine)
             t == Units(theirs)
             res == result
  <1> SUFFICES ASSUME Merging, NEW w \in Words(m) \union Words(t), w \notin Words(b)
               PROVE  \/ w \in Words(res.units)
                      \/ \E c \in ToSet(res.conflicts) : w \in Words(c.mine) \/ w \in Words(c.theirs)
    BY DEF NothingIsDropped
  <1>1. res = Merged(mine, theirs)
    BY DEF IsRead
  <1>2. PICK U : b \in Seq(U) /\ m \in Seq(U) /\ t \in Seq(U)
    BY MergedIs
  <1>3. Kept(b, m, t, res)
    <2>1. CASE kind = "docx"
      BY <1>1, <2>1, DocsDropNothing DEF IsRead, Units, Merged
    <2>2. CASE kind = "xlsx"
      BY <1>1, <2>2, SheetsDropNothing DEF IsRead, Units, Merged
    <2> QED
      BY <2>1, <2>2 DEF IsRead
  <1>4. PICK W, C :
            /\ b \in Seq(W) /\ m \in Seq(W) /\ t \in Seq(W)
            /\ res.units \in Seq(W) /\ res.conflicts \in Seq(C)
            /\ \A c \in C : c.mine \in Seq(W) /\ c.theirs \in Seq(W)
            /\ /\ Says(m, Sayers(W, w)) \/ Says(t, Sayers(W, w))
               /\ ~Says(b, Sayers(W, w))
               => Says(res.units, Sayers(W, w)) \/ Reported(res.conflicts, Sayers(W, w))
    BY <1>3 DEF Kept
  <1> HIDE DEF b, m, t, res
  <1>5. \A s \in Seq(W) : w \in Words(s) <=> Says(s, Sayers(W, w))
    <2> TAKE s \in Seq(W)
    <2>1. \A k \in 1..Len(s) : s[k] \in W
      OBVIOUS
    <2> QED
      BY <2>1, WordsAreSaid
  <1>6. Says(res.units, Sayers(W, w)) \/ Reported(res.conflicts, Sayers(W, w))
    <2>1. w \in Words(m) \/ w \in Words(t)
      OBVIOUS
    <2> QED
      BY <1>4, <1>5, <2>1
  <1>7. CASE Says(res.units, Sayers(W, w))
    BY <1>4, <1>5, <1>7
  <1>8. CASE Reported(res.conflicts, Sayers(W, w))
    <2> DEFINE s == res.conflicts
    <2>1. PICK k \in 1..Len(s) : Says(s[k].mine, Sayers(W, w)) \/ Says(s[k].theirs, Sayers(W, w))
      BY <1>8 DEF Reported
    <2>2. s[k] \in C /\ s[k] \in ToSet(s)
      BY <1>4 DEF ToSet
    <2>3. w \in Words(s[k].mine) \/ w \in Words(s[k].theirs)
      BY <1>4, <1>5, <2>1, <2>2
    <2> QED
      BY <2>2, <2>3
  <1> QED
    BY <1>6, <1>7, <1>8

\* A text or value that one side has brought in is in the merge or in a
\* conflict that is reported, whatever the names of the units match.
THEOREM NothingIsLost == Spec => []NothingIsDropped
<1>1. IsRead => NothingIsDropped
  BY ReadMeansNothingDropped
<1> QED BY <1>1, AlwaysRead, PTL

(***************************************************************************)
(* Units without their order: K is the key of a unit.                      *)
(***************************************************************************)
At(s, K, v) == {i \in 1..Len(s) : K[s[i]] = v}
Count(s, K, v) == Cardinality(At(s, K, v))
AsMany(s, t, K) == \A v : Count(s, K, v) = Count(t, K, v)

LEMMA CountIsNat ==
  ASSUME NEW U, NEW s \in Seq(U), NEW K, NEW v
  PROVE  IsFiniteSet(At(s, K, v)) /\ Count(s, K, v) \in Nat
  <1>1. Len(s) \in Nat
    OBVIOUS
  <1>2. IsFiniteSet(1..Len(s))
    BY <1>1, FS_Interval
  <1>3. At(s, K, v) \subseteq 1..Len(s)
    BY DEF At
  <1>4. IsFiniteSet(At(s, K, v))
    BY <1>2, <1>3, FS_Subset
  <1> QED
    BY <1>4, FS_CardinalityType DEF Count

LEMMA CountOfBoth ==
  ASSUME NEW U, NEW p \in Seq(U), NEW q \in Seq(U), NEW K, NEW v
  PROVE  Count(p \o q, K, v) = Count(p, K, v) + Count(q, K, v)
  <1> DEFINE s == p \o q
             S == At(p, K, v)
             T == At(q, K, v)
             n == Len(p)
             R == {n + k : k \in T}
             f == [k \in T |-> n + k]
  <1>1. /\ n \in Nat /\ Len(q) \in Nat /\ Len(s) = n + Len(q)
        /\ \A k \in 1..n : s[k] = p[k]
        /\ \A k \in 1..Len(q) : s[n + k] = q[k]
    OBVIOUS
  <1>2. S \subseteq 1..n /\ T \subseteq 1..Len(q)
    BY DEF At
  <1>3. IsFiniteSet(S) /\ IsFiniteSet(T)
    BY CountIsNat
  <1>4. \A k \in S : K[p[k]] = v
    BY DEF At
  <1>5. \A k \in T : K[q[k]] = v
    BY DEF At
  <1> HIDE DEF s, n
  <1>6. At(s, K, v) = S \union R
    <2>1. ASSUME NEW i \in At(s, K, v) PROVE i \in S \union R
      <3>1. i \in 1..Len(s) /\ K[s[i]] = v
        BY <2>1 DEF At
      <3>2. CASE i <= n
        <4>1. i \in 1..n /\ K[p[i]] = v
          BY <1>1, <3>1, <3>2
        <4>2. i \in S
          BY <4>1 DEF At, n
        <4> QED
          BY <4>2
      <3>3. CASE ~(i <= n)
        <4>1. i - n \in 1..Len(q) /\ n + (i - n) = i
          BY <1>1, <3>1, <3>3
        <4>2. K[q[i - n]] = v
          BY <1>1, <3>1, <4>1
        <4>3. i - n \in T
          BY <4>1, <4>2 DEF At
        <4> HIDE DEF T
        <4> QED
          BY <4>1, <4>3
      <3> QED
        BY <3>2, <3>3
    <2>2. ASSUME NEW i \in S PROVE i \in At(s, K, v)
      <3>1. i \in 1..Len(s) /\ s[i] = p[i] /\ K[p[i]] = v
        BY <1>1, <1>2, <1>4, <2>2
      <3> QED
        BY <3>1 DEF At
    <2>3. ASSUME NEW i \in R PROVE i \in At(s, K, v)
      <3>1. PICK k \in T : i = n + k
        BY <2>3
      <3>2. k \in 1..Len(q) /\ K[q[k]] = v
        BY <1>2, <1>5
      <3>3. i \in 1..Len(s) /\ s[i] = q[k]
        BY <1>1, <3>1, <3>2
      <3> QED
        BY <3>2, <3>3 DEF At
    <2> QED
      BY <2>1, <2>2, <2>3
  <1> HIDE DEF S, T
  <1>7. S \intersect R = {}
    <2> SUFFICES ASSUME NEW k \in T, n + k \in S PROVE FALSE
      OBVIOUS
    <2>1. k \in 1..Len(q) /\ n + k \in 1..n
      BY <1>2
    <2> QED
      BY <1>1, <2>1
  <1>8. IsFiniteSet(R) /\ Cardinality(R) = Cardinality(T)
    <2>1. f \in Bijection(T, R)
      <3>1. \A k \in T : k \in Nat
        BY <1>1, <1>2
      <3>2. f \in [T -> R]
        OBVIOUS
      <3>3. \A k, l \in T : f[k] = f[l] => k = l
        BY <1>1, <3>1
      <3>4. \A y \in R : \E k \in T : f[k] = y
        OBVIOUS
      <3> QED
        BY <3>2, <3>3, <3>4 DEF Bijection, Injection, IsInjective, Surjection
    <2>2. ExistsBijection(T, R)
      BY <2>1 DEF ExistsBijection
    <2> QED
      BY <1>3, <2>2, FS_Bijection
  <1>9. Cardinality(S \union R) = Cardinality(S) + Cardinality(R) - Cardinality(S \intersect R)
    BY <1>3, <1>8, FS_Union
  <1>10. Cardinality(S \intersect R) = 0
    BY <1>7, FS_EmptySet
  <1>11. Cardinality(S) \in Nat /\ Cardinality(R) \in Nat
    BY <1>3, <1>8, FS_CardinalityType
  <1> HIDE DEF R
  <1>12. Cardinality(At(s, K, v)) = Cardinality(S) + Cardinality(T)
    BY <1>6, <1>8, <1>9, <1>10, <1>11
  <1> QED
    BY <1>12 DEF Count, s, S, T

\* Pieces alike make wholes alike.
LEMMA WholesAlike ==
  ASSUME NEW U, NEW c \in Seq(Seq(U)), NEW d \in Seq(Seq(U)), Len(c) = Len(d), NEW K,
         \A i \in 1..Len(c) : AsMany(c[i], d[i], K)
  PROVE  AsMany(FlattenSeq(c), FlattenSeq(d), K)
  <1> DEFINE n == Len(c)
  <1>1. PICK f : Flattens(f, c, FlattenSeq(c)) /\ \A j \in 0..n : f[j] \in Seq(U)
    BY FlattenSteps
  <1>2. PICK g : Flattens(g, d, FlattenSeq(d)) /\ \A j \in 0..n : g[j] \in Seq(U)
    <2>1. \E g : Flattens(g, d, FlattenSeq(d)) /\ \A j \in 0..Len(d) : g[j] \in Seq(U)
      BY FlattenSteps
    <2> QED
      BY <2>1
  <1>3. n \in Nat /\ \A j \in 1..n : c[j] \in Seq(U) /\ d[j] \in Seq(U)
    OBVIOUS
  <1>4. /\ FlattenSeq(c) = f[n] /\ f[0] = <<>> /\ \A j \in 1..n : f[j] = f[j - 1] \o c[j]
        /\ FlattenSeq(d) = g[n] /\ g[0] = <<>> /\ \A j \in 1..n : g[j] = g[j - 1] \o d[j]
    BY <1>1, <1>2 DEF Flattens
  <1>5. \A j \in 1..n : AsMany(c[j], d[j], K)
    OBVIOUS
  <1> HIDE DEF n
  <1> DEFINE N == {j \in Nat : j <= n => AsMany(f[j], g[j], K)}
  <1>6. 0 \in N
    BY <1>4 DEF AsMany
  <1>7. ASSUME NEW j \in Nat, j \in N PROVE j + 1 \in N
    <2> SUFFICES ASSUME j + 1 <= n PROVE AsMany(f[j + 1], g[j + 1], K)
      OBVIOUS
    <2>1. j + 1 \in 1..n /\ (j + 1) - 1 = j /\ j \in 0..n /\ j <= n
      BY <1>3
    <2>2. AsMany(f[j], g[j], K) /\ AsMany(c[j + 1], d[j + 1], K)
      BY <1>5, <1>7, <2>1
    <2>3. f[j + 1] = f[j] \o c[j + 1] /\ g[j + 1] = g[j] \o d[j + 1]
      BY <1>4, <2>1
    <2>4. f[j] \in Seq(U) /\ g[j] \in Seq(U) /\ c[j + 1] \in Seq(U) /\ d[j + 1] \in Seq(U)
      BY <1>1, <1>2, <1>3, <2>1
    <2>5. \A p, q \in Seq(U) : \A v : Count(p \o q, K, v) = Count(p, K, v) + Count(q, K, v)
      BY CountOfBoth
    <2> QED
      BY <2>2, <2>3, <2>4, <2>5 DEF AsMany
  <1> HIDE DEF N
  <1>8. Nat \subseteq N
    BY <1>6, <1>7, NatSetInduction
  <1>9. n \in N /\ n <= n
    BY <1>3, <1>8
  <1> QED
    BY <1>4, <1>9 DEF N

LEMMA BothAlike ==
  ASSUME NEW U, NEW p \in Seq(U), NEW q \in Seq(U), NEW r \in Seq(U), NEW s \in Seq(U), NEW K,
         AsMany(p, r, K), AsMany(q, s, K)
  PROVE  AsMany(p \o q, r \o s, K) /\ AsMany(p \o q, s \o r, K)
  <1>1. \A x, y \in Seq(U) : \A v : Count(x \o y, K, v) = Count(x, K, v) + Count(y, K, v)
    BY CountOfBoth
  <1>2. \A x \in Seq(U) : \A v : Count(x, K, v) \in Nat
    BY CountIsNat
  <1> QED
    BY <1>1, <1>2 DEF AsMany

LEMMA KeysAlike ==
  ASSUME NEW p, NEW q, NEW K, Len(p) = Len(q), \A k \in 1..Len(p) : K[p[k]] = K[q[k]]
  PROVE  AsMany(p, q, K)
  <1>1. \A v : At(p, K, v) = At(q, K, v)
    BY DEF At
  <1> QED
    BY <1>1 DEF AsMany, Count

\* As many of each key: the bags of the keys are equal.
Keys(s, K) == [i \in DOMAIN s |-> K[s[i]]]

LEMMA BagsAlike ==
  ASSUME NEW U, NEW s \in Seq(U), NEW t \in Seq(U), NEW K, AsMany(s, t, K),
         NEW x, x = Keys(s, K), NEW y, y = Keys(t, K)
  PROVE  ToBag(x) = ToBag(y)
  <1>1. DOMAIN s = 1..Len(s) /\ DOMAIN t = 1..Len(t)
    OBVIOUS
  <1>2. \A v : {i \in DOMAIN x : x[i] = v} = At(s, K, v)
    BY <1>1 DEF At, Keys
  <1>3. \A v : {i \in DOMAIN y : y[i] = v} = At(t, K, v)
    BY <1>1 DEF At, Keys
  <1>4. \A v : Cardinality({i \in DOMAIN x : x[i] = v}) = Cardinality({i \in DOMAIN y : y[i] = v})
    <2> TAKE v
    <2>1. Cardinality(At(s, K, v)) = Cardinality(At(t, K, v))
      BY DEF AsMany, Count
    <2> QED
      BY <1>2, <1>3, <2>1
  <1>5. \A v : At(s, K, v) = {} <=> At(t, K, v) = {}
    BY CountIsNat, FS_EmptySet DEF AsMany, Count
  <1>6. Range(x) = Range(y)
    <2>1. \A v : v \in Range(x) <=> At(s, K, v) # {}
      BY <1>2 DEF Range
    <2>2. \A v : v \in Range(y) <=> At(t, K, v) # {}
      BY <1>3 DEF Range
    <2> QED
      BY <1>5, <2>1, <2>2
  <1> QED
    BY <1>4, <1>6 DEF ToBag

(***************************************************************************)
(* The sides exchanged.                                                    *)
(***************************************************************************)
\* t is s, each element mapped by F.
Mapped(s, t, F) == Len(t) = Len(s) /\ \A k \in 1..Len(s) : t[k] = F[s[k]]

LEMMA BothMapped ==
  ASSUME NEW U, NEW V, NEW p \in Seq(U), NEW q \in Seq(U), NEW r \in Seq(V), NEW s \in Seq(V), NEW F,
         Mapped(p, r, F), Mapped(q, s, F)
  PROVE  Mapped(p \o q, r \o s, F)
  <1> DEFINE x == p \o q
             y == r \o s
             n == Len(p)
  <1>1. /\ n \in Nat /\ Len(q) \in Nat /\ Len(x) = n + Len(q)
        /\ \A k \in 1..n : x[k] = p[k]
        /\ \A k \in 1..Len(q) : x[n + k] = q[k]
    OBVIOUS
  <1>2. /\ Len(r) = n /\ Len(s) = Len(q)
        /\ \A k \in 1..n : r[k] = F[p[k]]
        /\ \A k \in 1..Len(q) : s[k] = F[q[k]]
    BY DEF Mapped
  <1>3. /\ Len(y) = Len(r) + Len(s)
        /\ \A k \in 1..Len(r) : y[k] = r[k]
        /\ \A k \in 1..Len(s) : y[Len(r) + k] = s[k]
    OBVIOUS
  <1> HIDE DEF x, y, n
  <1>4. ASSUME NEW k \in 1..Len(x) PROVE y[k] = F[x[k]]
    <2>1. CASE k <= n
      <3>1. k \in 1..n
        BY <1>1, <2>1
      <3> QED
        BY <1>1, <1>2, <1>3, <3>1
    <2>2. CASE ~(k <= n)
      <3>1. k - n \in 1..Len(q) /\ n + (k - n) = k
        BY <1>1, <2>2
      <3>2. x[k] = q[k - n] /\ y[k] = s[k - n]
        BY <1>1, <1>2, <1>3, <3>1
      <3> QED
        BY <1>2, <3>1, <3>2
    <2> QED
      BY <2>1, <2>2
  <1>5. Mapped(x, y, F)
    BY <1>1, <1>2, <1>3, <1>4 DEF Mapped
  <1> QED
    BY <1>5 DEF x, y

LEMMA WholeMapped ==
  ASSUME NEW U, NEW V, NEW c \in Seq(Seq(U)), NEW d \in Seq(Seq(V)), Len(c) = Len(d), NEW F,
         \A i \in 1..Len(c) : Mapped(c[i], d[i], F)
  PROVE  Mapped(FlattenSeq(c), FlattenSeq(d), F)
  <1> DEFINE n == Len(c)
  <1>1. PICK f : Flattens(f, c, FlattenSeq(c)) /\ \A j \in 0..n : f[j] \in Seq(U)
    BY FlattenSteps
  <1>2. PICK g : Flattens(g, d, FlattenSeq(d)) /\ \A j \in 0..n : g[j] \in Seq(V)
    <2>1. \E g : Flattens(g, d, FlattenSeq(d)) /\ \A j \in 0..Len(d) : g[j] \in Seq(V)
      BY FlattenSteps
    <2> QED
      BY <2>1
  <1>3. n \in Nat /\ \A j \in 1..n : c[j] \in Seq(U) /\ d[j] \in Seq(V)
    OBVIOUS
  <1>4. /\ FlattenSeq(c) = f[n] /\ f[0] = <<>> /\ \A j \in 1..n : f[j] = f[j - 1] \o c[j]
        /\ FlattenSeq(d) = g[n] /\ g[0] = <<>> /\ \A j \in 1..n : g[j] = g[j - 1] \o d[j]
    BY <1>1, <1>2 DEF Flattens
  <1>5. \A j \in 1..n : Mapped(c[j], d[j], F)
    OBVIOUS
  <1> HIDE DEF n
  <1> DEFINE N == {j \in Nat : j <= n => Mapped(f[j], g[j], F)}
  <1>6. 0 \in N
    <2>1. Mapped(<<>>, <<>>, F)
      BY DEF Mapped
    <2> QED
      BY <1>4, <2>1
  <1>7. ASSUME NEW j \in Nat, j \in N PROVE j + 1 \in N
    <2> SUFFICES ASSUME j + 1 <= n PROVE Mapped(f[j + 1], g[j + 1], F)
      OBVIOUS
    <2>1. j + 1 \in 1..n /\ (j + 1) - 1 = j /\ j \in 0..n /\ j <= n
      BY <1>3
    <2>2. Mapped(f[j], g[j], F) /\ Mapped(c[j + 1], d[j + 1], F)
      BY <1>5, <1>7, <2>1
    <2>3. f[j + 1] = f[j] \o c[j + 1] /\ g[j + 1] = g[j] \o d[j + 1]
      BY <1>4, <2>1
    <2>4. f[j] \in Seq(U) /\ g[j] \in Seq(V) /\ c[j + 1] \in Seq(U) /\ d[j + 1] \in Seq(V)
      BY <1>1, <1>2, <1>3, <2>1
    <2>5. \A p, q \in Seq(U) : \A r, s \in Seq(V) :
             Mapped(p, r, F) /\ Mapped(q, s, F) => Mapped(p \o q, r \o s, F)
      BY BothMapped
    <2> QED
      BY <2>2, <2>3, <2>4, <2>5
  <1> HIDE DEF N
  <1>8. Nat \subseteq N
    BY <1>6, <1>7, NatSetInduction
  <1>9. n \in N /\ n <= n
    BY <1>3, <1>8
  <1> QED
    BY <1>4, <1>9 DEF N

\* What nu makes of a unit with the sides exchanged is like what mu makes of it.
Mirrored(b, m, t, mu, nu, W, K) ==
    \A i \in 1..Len(b), j \in 1..Len(m), k \in 1..Len(t) :
        LET x == mu[<<b[i], m[j], t[k]>>]
            y == nu[<<b[i], t[k], m[j]>>]
        IN  y.ok = x.ok /\ (x.ok => x.unit \in W /\ y.unit \in W /\ K[x.unit] = K[y.unit])

\* d and e put units alike, and report nothing or the same with sides exchanged.
Mirrors(d, e, x, mm, tt, K) ==
    /\ AsMany(d.units, e.units, K)
    /\ \/ d.conflicts = <<>> /\ e.conflicts = <<>>
       \/ /\ d.conflicts = <<[base |-> x, mine |-> mm, theirs |-> tt]>>
          /\ e.conflicts = <<[base |-> x, mine |-> tt, theirs |-> mm]>>

LEMMA DecideMirrored ==
  ASSUME NEW K, NEW x, NEW mm, NEW tt, NEW merged, NEW other,
         mm = <<>> \/ \E y : mm = <<y>>, tt = <<>> \/ \E z : tt = <<z>>,
         mm # <<>> /\ tt # <<>> =>
            other.ok = merged.ok /\ (merged.ok => K[merged.unit] = K[other.unit])
  PROVE  Mirrors(Decide(<<x>>, mm, tt, merged), Decide(<<x>>, tt, mm, other), <<x>>, mm, tt, K)
  <1>1. \A s : AsMany(s, s, K)
    BY DEF AsMany
  <1>2. \A s, t : Mirrors(Put(s), Put(t), <<x>>, mm, tt, K) <=> AsMany(s, t, K)
    BY DEF Mirrors, Put
  <1>3. Mirrors(Clash(<<x>>, mm, tt), Clash(<<x>>, tt, mm), <<x>>, mm, tt, K)
    BY <1>1 DEF Mirrors, Clash
  <1>4. \A y : <<y>> # <<>> /\ <<>> \o <<y>> = <<y>> /\ <<y>> \o <<>> = <<y>>
    OBVIOUS
  <1>5. mm = <<>> \/ tt = <<>> => mm \o tt = tt \o mm
    BY <1>4
  <1>6. CASE mm = <<>> \/ tt = <<>>
    <2>1. CASE mm = <<>> /\ tt = <<>>
      BY <1>1, <1>2, <2>1 DEF Decide
    <2>2. CASE ~(mm = <<>> /\ tt = <<>>) /\ mm \o tt = <<x>>
      <3>1. Decide(<<x>>, mm, tt, merged) = Put(<<>>) /\ Decide(<<x>>, tt, mm, other) = Put(<<>>)
        BY <1>5, <1>6, <2>2 DEF Decide
      <3> QED
        BY <1>1, <1>2, <3>1
    <2>3. CASE ~(mm = <<>> /\ tt = <<>>) /\ mm \o tt # <<x>>
      <3>1. /\ Decide(<<x>>, mm, tt, merged) = Clash(<<x>>, mm, tt)
            /\ Decide(<<x>>, tt, mm, other) = Clash(<<x>>, tt, mm)
        BY <1>5, <1>6, <2>3 DEF Decide
      <3> QED
        BY <1>3, <3>1
    <2> QED
      BY <2>1, <2>2, <2>3
  <1>7. CASE mm # <<>> /\ tt # <<>>
    <2>1. CASE tt = <<x>> \/ tt = mm
      <3>1. Decide(<<x>>, mm, tt, merged) = Put(mm) /\ Decide(<<x>>, tt, mm, other) = Put(mm)
        BY <1>7, <2>1 DEF Decide
      <3> QED
        BY <1>1, <1>2, <3>1
    <2>2. CASE tt # <<x>> /\ tt # mm /\ mm = <<x>>
      <3>1. Decide(<<x>>, mm, tt, merged) = Put(tt) /\ Decide(<<x>>, tt, mm, other) = Put(tt)
        BY <1>7, <2>2 DEF Decide
      <3> QED
        BY <1>1, <1>2, <3>1
    <2>3. CASE tt # <<x>> /\ tt # mm /\ mm # <<x>>
      <3>1. /\ Decide(<<x>>, mm, tt, merged) = Both(<<x>>, mm, tt, merged)
            /\ Decide(<<x>>, tt, mm, other) = Both(<<x>>, tt, mm, other)
        BY <1>7, <2>3 DEF Decide
      <3>2. CASE merged.ok
        <4> DEFINE y == merged.unit
                   z == other.unit
        <4>1. /\ Decide(<<x>>, mm, tt, merged) = Put(<<y>>)
              /\ Decide(<<x>>, tt, mm, other) = Put(<<z>>)
          BY <1>7, <3>1, <3>2 DEF Both
        <4>2. K[y] = K[z]
          BY <1>7, <3>2
        <4> HIDE DEF y, z
        <4>3. AsMany(<<y>>, <<z>>, K)
          <5>1. Len(<<y>>) = Len(<<z>>) /\ \A k \in 1..Len(<<y>>) : K[(<<y>>)[k]] = K[(<<z>>)[k]]
            BY <4>2
          <5> QED
            BY <5>1, KeysAlike
        <4> QED
          BY <1>2, <4>1, <4>3
      <3>3. CASE ~merged.ok
        <4>1. /\ Decide(<<x>>, mm, tt, merged) = Clash(<<x>>, mm, tt)
              /\ Decide(<<x>>, tt, mm, other) = Clash(<<x>>, tt, mm)
          BY <1>7, <3>1, <3>3 DEF Both
        <4> QED
          BY <1>3, <4>1
      <3> QED
        BY <3>2, <3>3
    <2> QED
      BY <2>1, <2>2, <2>3
  <1> QED
    BY <1>6, <1>7

LEMMA InsertedMirrored ==
  ASSUME NEW U, NEW mm \in Seq(U), NEW tt \in Seq(U), NEW K,
         \A x, y \in U : Content(x) = Content(y) => K[x] = K[y]
  PROVE  AsMany(Inserted(mm, tt), Inserted(tt, mm), K)
  <1>1. DOMAIN mm = 1..Len(mm) /\ DOMAIN tt = 1..Len(tt) /\ Len(mm) \in Nat /\ Len(tt) \in Nat
    OBVIOUS
  <1>2. mm # <<>> /\ Len(mm) = Len(tt) => tt # <<>>
    OBVIOUS
  <1>3. tt # <<>> /\ Len(mm) = Len(tt) => mm # <<>>
    OBVIOUS
  <1> DEFINE Same == Len(mm) = Len(tt) /\ \A i \in 1..Len(mm) : Content(mm[i]) = Content(tt[i])
  <1>4. /\ Inserted(mm, tt) = IF mm # <<>> /\ Same THEN mm ELSE mm \o tt
        /\ Inserted(tt, mm) = IF mm # <<>> /\ Same THEN tt ELSE tt \o mm
    <2>1. Inserted(mm, tt) = IF mm # <<>> /\ Same THEN mm ELSE mm \o tt
      BY <1>1 DEF Inserted
    <2>2. Inserted(tt, mm) = IF mm # <<>> /\ Same THEN tt ELSE tt \o mm
      <3>1. CASE mm # <<>> /\ Same
        BY <1>1, <1>2, <3>1 DEF Inserted
      <3>2. CASE ~(mm # <<>> /\ Same)
        BY <1>1, <1>3, <3>2 DEF Inserted
      <3> QED
        BY <3>1, <3>2
    <2> QED
      BY <2>1, <2>2
  <1>5. CASE mm # <<>> /\ Same
    <2>1. \A i \in 1..Len(mm) : mm[i] \in U /\ tt[i] \in U
      BY <1>5
    <2>2. \A i \in 1..Len(mm) : K[mm[i]] = K[tt[i]]
      BY <1>5, <2>1
    <2>3. AsMany(mm, tt, K)
      BY <1>5, <2>2, KeysAlike
    <2> QED
      BY <1>4, <1>5, <2>3
  <1>6. CASE ~(mm # <<>> /\ Same)
    <2>1. AsMany(mm, mm, K) /\ AsMany(tt, tt, K)
      BY DEF AsMany
    <2>2. AsMany(mm \o tt, tt \o mm, K)
      BY <2>1, BothAlike
    <2> HIDE DEF Same
    <2> QED
      BY <1>4, <1>6, <2>2
  <1> QED
    BY <1>5, <1>6

Exchanged(c) == [base |-> c.base, mine |-> c.theirs, theirs |-> c.mine]

\* The two merges have units alike and the same conflicts, sides exchanged.
Alike(res, other, K) ==
    /\ AsMany(res.units, other.units, K) /\ other.ok = res.ok
    /\ other.conflicts = [k \in DOMAIN res.conflicts |-> Exchanged(res.conflicts[k])]

LEMMA CombinedMirrored ==
  ASSUME NEW U, NEW W, NEW b, NEW m, NEW t, NEW A, NEW B, NEW mu, NEW nu, NEW K,
         CanMerge(b, m, t, A, B, mu, U, W), CanMerge(b, t, m, B, A, nu, U, W),
         Mirrored(b, m, t, mu, nu, W, K),
         \A x, y \in U : Content(x) = Content(y) => K[x] = K[y],
         NEW res, res = Combined(b, m, t, A, B, mu),
         NEW other, other = Combined(b, t, m, B, A, nu)
  PROVE  Alike(res, other, K)
  <1> DEFINE n == Len(b)
             D(i) == Decided(b, m, t, A, B, mu, i)
             E(i) == Emitted(m, t, A, B, i)
             P == Pieces(b, m, t, A, B, mu)
             R == Reports(b, m, t, A, B, mu)
             C == Cases(b, m, t, A, B)
             D2(i) == Decided(b, t, m, B, A, nu, i)
             E2(i) == Emitted(t, m, B, A, i)
             P2 == Pieces(b, t, m, B, A, nu)
             R2 == Reports(b, t, m, B, A, nu)
             C2 == Cases(b, t, m, B, A)
             F == [c \in C |-> Exchanged(c)]
  <1>1. b \in Seq(U) /\ n \in Nat /\ U \subseteq W
    BY DEF CanMerge
  <1>2. /\ \A i \in 0..n : E(i) \in Seq(W)
        /\ \A i \in 1..n : D(i).units \in Seq(W)
        /\ P \in Seq(Seq(W)) /\ Len(P) = n
        /\ R \in Seq(Seq(C)) /\ Len(R) = n
    <2>1. MergeTyped(b, m, t, A, B, mu, W)
      BY ONLY CanMerge(b, m, t, A, B, mu, U, W), MergeIsTyped
    <2> QED
      BY ONLY <2>1 DEF MergeTyped
  <1>3. /\ \A i \in 0..n : E2(i) \in Seq(W)
        /\ \A i \in 1..n : D2(i).units \in Seq(W)
        /\ P2 \in Seq(Seq(W)) /\ Len(P2) = n
        /\ R2 \in Seq(Seq(C2)) /\ Len(R2) = n
    <2>1. MergeTyped(b, t, m, B, A, nu, W)
      BY ONLY CanMerge(b, t, m, B, A, nu, U, W), MergeIsTyped
    <2> QED
      BY ONLY <2>1 DEF MergeTyped
  <1>4. /\ res.units = E(0) \o FlattenSeq(P) /\ res.conflicts = FlattenSeq(R)
        /\ res.ok = (res.conflicts = <<>>)
    BY <1>1, CombinedIs
  <1>5. /\ other.units = E2(0) \o FlattenSeq(P2) /\ other.conflicts = FlattenSeq(R2)
        /\ other.ok = (other.conflicts = <<>>)
    BY <1>1, CombinedIs
  <1>6. \A i \in 1..n : P[i] = D(i).units \o E(i) /\ R[i] = D(i).conflicts
    BY DEF Pieces, Reports
  <1>7. \A i \in 1..n : P2[i] = D2(i).units \o E2(i) /\ R2[i] = D2(i).conflicts
    BY DEF Pieces, Reports
  <1>8. /\ \A i \in 0..n : Placed(m, A, i) \in Seq(U) /\ Placed(t, B, i) \in Seq(U)
        /\ \A i \in 1..n :
               /\ SideOf(m, A, i) = <<>> \/ \E j \in 1..Len(m) : SideOf(m, A, i) = <<m[j]>>
               /\ SideOf(t, B, i) = <<>> \/ \E j \in 1..Len(t) : SideOf(t, B, i) = <<t[j]>>
    BY SidesAre
  <1>9. ASSUME NEW i \in 0..n PROVE AsMany(E(i), E2(i), K)
    <2> DEFINE mm == Placed(m, A, i)
               tt == Placed(t, B, i)
    <2>1. mm \in Seq(U) /\ tt \in Seq(U)
      BY <1>8
    <2> HIDE DEF mm, tt
    <2>2. AsMany(Inserted(mm, tt), Inserted(tt, mm), K)
      BY <2>1, InsertedMirrored
    <2> QED
      BY <2>2 DEF Emitted, mm, tt
  <1>10. ASSUME NEW i \in 1..n
         PROVE  Mirrors(D(i), D2(i), <<b[i]>>, SideOf(m, A, i), SideOf(t, B, i), K)
    <2> DEFINE mm == SideOf(m, A, i)
               tt == SideOf(t, B, i)
               x == b[i]
               merged == mu[<<(<<x>>)[1], mm[1], tt[1]>>]
               swapped == nu[<<(<<x>>)[1], tt[1], mm[1]>>]
    <2>1. mm = <<>> \/ \E j \in 1..Len(m) : mm = <<m[j]>>
      BY <1>8
    <2>2. tt = <<>> \/ \E k \in 1..Len(t) : tt = <<t[k]>>
      BY <1>8
    <2>3. D(i) = Decide(<<x>>, mm, tt, merged) /\ D2(i) = Decide(<<x>>, tt, mm, swapped)
      BY DEF Decided
    <2>4. \A j \in 1..Len(m), k \in 1..Len(t) :
             /\ nu[<<x, t[k], m[j]>>].ok = mu[<<x, m[j], t[k]>>].ok
             /\ mu[<<x, m[j], t[k]>>].ok => K[mu[<<x, m[j], t[k]>>].unit] = K[nu[<<x, t[k], m[j]>>].unit]
      BY DEF Mirrored
    <2> HIDE DEF mm, tt, x
    <2>5. mm # <<>> /\ tt # <<>> =>
             swapped.ok = merged.ok /\ (merged.ok => K[merged.unit] = K[swapped.unit])
      <3> SUFFICES ASSUME mm # <<>>, tt # <<>>
                   PROVE  swapped.ok = merged.ok /\ (merged.ok => K[merged.unit] = K[swapped.unit])
        OBVIOUS
      <3>1. PICK j \in 1..Len(m) : mm = <<m[j]>>
        BY <2>1
      <3>2. PICK k \in 1..Len(t) : tt = <<t[k]>>
        BY <2>2
      <3>3. merged = mu[<<x, m[j], t[k]>>] /\ swapped = nu[<<x, t[k], m[j]>>]
        BY <3>1, <3>2
      <3> HIDE DEF merged, swapped
      <3> QED
        BY <2>4, <3>3
    <2>6. (mm = <<>> \/ \E y : mm = <<y>>) /\ (tt = <<>> \/ \E y : tt = <<y>>)
      BY <2>1, <2>2
    <2> HIDE DEF merged, swapped
    <2>7. Mirrors(Decide(<<x>>, mm, tt, merged), Decide(<<x>>, tt, mm, swapped), <<x>>, mm, tt, K)
      BY <2>5, <2>6, DecideMirrored
    <2> QED
      BY <2>3, <2>7 DEF x, mm, tt
  <1>11. ASSUME NEW i \in 1..n PROVE Case(b, m, t, A, B, i) \in C
    BY DEF Cases
  <1> HIDE DEF D, E, P, R, C, D2, E2, P2, R2, C2, n
  <1>12. AsMany(res.units, other.units, K)
    <2>1. ASSUME NEW i \in 1..n PROVE AsMany(P[i], P2[i], K)
      <3> DEFINE p == D(i).units
                 q == E(i)
                 r == D2(i).units
                 s == E2(i)
      <3>1. i \in 0..n
        BY <1>1
      <3>2. p \in Seq(W) /\ q \in Seq(W) /\ r \in Seq(W) /\ s \in Seq(W)
        BY <1>2, <1>3, <3>1
      <3>3. AsMany(p, r, K) /\ AsMany(q, s, K)
        BY <1>9, <1>10, <3>1 DEF Mirrors
      <3>4. P[i] = p \o q /\ P2[i] = r \o s
        BY <1>6, <1>7
      <3> HIDE DEF p, q, r, s
      <3> QED
        BY <3>2, <3>3, <3>4, BothAlike
    <2>2. AsMany(FlattenSeq(P), FlattenSeq(P2), K)
      BY <1>2, <1>3, <2>1, WholesAlike
    <2>3. FlattenSeq(P) \in Seq(W) /\ FlattenSeq(P2) \in Seq(W)
      BY <1>2, <1>3, FlattenTyped
    <2>4. 0 \in 0..n
      BY <1>1
    <2>5. E(0) \in Seq(W) /\ E2(0) \in Seq(W) /\ AsMany(E(0), E2(0), K)
      BY <1>2, <1>3, <1>9, <2>4
    <2> QED
      BY <1>4, <1>5, <2>2, <2>3, <2>5, BothAlike
  <1>13. Mapped(res.conflicts, other.conflicts, F)
    <2>1. ASSUME NEW i \in 1..n PROVE Mapped(R[i], R2[i], F)
      <3> DEFINE c == Case(b, m, t, A, B, i)
                 e == Exchanged(c)
      <3>1. \/ R[i] = <<>> /\ R2[i] = <<>>
            \/ R[i] = <<c>> /\ R2[i] = <<e>>
        BY <1>6, <1>7, <1>10 DEF Mirrors, Case, Exchanged
      <3>2. c \in C /\ F[c] = e
        BY <1>11
      <3> HIDE DEF c, e, F
      <3>3. CASE R[i] = <<>> /\ R2[i] = <<>>
        BY <3>3 DEF Mapped
      <3>4. CASE R[i] = <<c>> /\ R2[i] = <<e>>
        BY <3>2, <3>4 DEF Mapped
      <3> QED
        BY <3>1, <3>3, <3>4
    <2> HIDE DEF F
    <2>2. Mapped(FlattenSeq(R), FlattenSeq(R2), F)
      BY <1>2, <1>3, <2>1, WholeMapped
    <2> QED
      BY <1>4, <1>5, <2>2
  <1>14. res.conflicts \in Seq(C) /\ other.conflicts \in Seq(C2)
    BY <1>2, <1>3, <1>4, <1>5, FlattenTyped
  <1> DEFINE r == res.conflicts
             o == other.conflicts
  <1>15. o = [k \in DOMAIN r |-> Exchanged(r[k])] /\ (o = <<>> <=> r = <<>>)
    <2>1. Len(o) = Len(r) /\ \A k \in 1..Len(r) : o[k] = F[r[k]]
      BY <1>13 DEF Mapped
    <2> HIDE DEF r, o
    <2>2. r \in Seq(C) /\ o \in Seq(C2)
      BY <1>14 DEF r, o
    <2>3. \A k \in 1..Len(r) : r[k] \in C /\ F[r[k]] = Exchanged(r[k])
      BY <2>2
    <2> HIDE DEF F
    <2>4. DOMAIN o = 1..Len(r) /\ DOMAIN r = 1..Len(r) /\ o = [k \in 1..Len(o) |-> o[k]]
      BY <2>1, <2>2
    <2>5. o = <<>> <=> r = <<>>
      BY <2>1, <2>2
    <2> QED
      BY <2>1, <2>3, <2>4, <2>5
  <1> QED
    BY <1>4, <1>5, <1>12, <1>15 DEF Alike

LEMMA ThreeWayMirrored ==
  ASSUME NEW U, NEW W, U \subseteq W, NEW b \in Seq(U), NEW m \in Seq(U), NEW t \in Seq(U),
         NEW mu, NEW nu, NEW K, Mirrored(b, m, t, mu, nu, W, K),
         \A x, y \in U : Content(x) = Content(y) => K[x] = K[y],
         NEW res, res = ThreeWayMerge(b, m, t, mu),
         NEW other, other = ThreeWayMerge(b, t, m, nu)
  PROVE  Alike(res, other, K) /\ res.units \in Seq(W) /\ other.units \in Seq(W)
  <1> DEFINE A == AlignToBase(Ids(b), Ids(m))
             B == AlignToBase(Ids(b), Ids(t))
  <1>1. res = Combined(b, m, t, A, B, mu) /\ other = Combined(b, t, m, B, A, nu)
    BY DEF ThreeWayMerge
  <1>2. (\E r : Partition(A, Len(b), Len(m), r)) /\ \E q : Partition(B, Len(b), Len(t), q)
    BY UnitsAreAligned
  <1> HIDE DEF A, B
  <1>3. CanMerge(b, m, t, A, B, mu, U, W)
    <2>1. \A i \in 1..Len(b), j \in 1..Len(m), k \in 1..Len(t) :
             mu[<<b[i], m[j], t[k]>>].ok => mu[<<b[i], m[j], t[k]>>].unit \in W
      BY DEF Mirrored
    <2> QED
      BY <1>2, <2>1 DEF CanMerge
  <1>4. CanMerge(b, t, m, B, A, nu, U, W)
    <2>1. \A i \in 1..Len(b), k \in 1..Len(t), j \in 1..Len(m) :
             nu[<<b[i], t[k], m[j]>>].ok => nu[<<b[i], t[k], m[j]>>].unit \in W
      BY DEF Mirrored
    <2> QED
      BY <1>2, <2>1 DEF CanMerge
  <1>5. Alike(res, other, K)
    BY <1>1, <1>3, <1>4, CombinedMirrored
  <1>6. res.units \in Seq(W)
    BY <1>1, <1>3, CombinedIsTyped
  <1>7. other.units \in Seq(W)
    BY <1>1, <1>4, CombinedIsTyped
  <1> QED
    BY <1>5, <1>6, <1>7

LEMMA TextsMirrored ==
  ASSUME NEW b, NEW m, NEW t
  PROVE  /\ MergeText(b, t, m).ok = MergeText(b, m, t).ok
         /\ MergeText(b, m, t).ok => MergeText(b, t, m).unit = MergeText(b, m, t).unit
  BY DEF MergeText, Fails

\* What is merged by the two is alike, under the name of the units' keys.
MirroredBags(res, other, K) ==
    \E W : /\ \A x \in W : K[x] = (IF kind = "docx" THEN <<x.text, x.format>> ELSE ToBag(x.values))
           /\ res.units \in Seq(W) /\ other.units \in Seq(W)
           /\ Alike(res, other, K)

LEMMA DocsMirrored ==
  ASSUME kind = "docx", NEW base0 \in Docs, NEW mine0 \in Docs, NEW theirs0 \in Docs,
         NEW res, res = MergeDocxBlocks(base0, mine0, theirs0),
         NEW other, other = MergeDocxBlocks(base0, theirs0, mine0)
  PROVE  \E K : MirroredBags(res, other, K)
  <1> DEFINE b == Blocks(base0)
             m == Blocks(mine0)
             t == Blocks(theirs0)
             U == ToSet(b) \union ToSet(m) \union ToSet(t)
             M == ToSet(b) \X ToSet(m) \X ToSet(t)
             N == ToSet(b) \X ToSet(t) \X ToSet(m)
             mu == [q \in M |-> MergeText(q[1], q[2], q[3])]
             nu == [q \in N |-> MergeText(q[1], q[2], q[3])]
             W == U \union {mu[q].unit : q \in M}
             K == [x \in W |-> <<x.text, x.format>>]
  <1>1. res = ThreeWayMerge(b, m, t, mu) /\ other = ThreeWayMerge(b, t, m, nu)
    BY DEF MergeDocxBlocks
  <1>2. \A s \in {b, m, t} : s \in Seq(ToSet(s))
    BY DocsHaveUnits
  <1>3. \A s \in {b, m, t} : \A x \in ToSet(s) : x = [id |-> x.id, text |-> x.text, format |-> x.format]
    <2>1. ASSUME NEW doc PROVE \A x \in ToSet(Blocks(doc)) : x = [id |-> x.id, text |-> x.text, format |-> x.format]
      BY DEF ToSet, Blocks
    <2> QED
      BY <2>1
  <1> HIDE DEF b, m, t
  <1>4. b \in Seq(U) /\ m \in Seq(U) /\ t \in Seq(U)
    <2>1. ToSet(b) \subseteq U /\ ToSet(m) \subseteq U /\ ToSet(t) \subseteq U
      OBVIOUS
    <2> HIDE DEF U
    <2> QED
      BY <1>2, <2>1, SeqsGrow
  <1>5. \A x \in U : x = [id |-> x.id, text |-> x.text, format |-> x.format]
    BY <1>3
  <1>6. /\ \A i \in 1..Len(b) : b[i] \in ToSet(b)
        /\ \A j \in 1..Len(m) : m[j] \in ToSet(m)
        /\ \A k \in 1..Len(t) : t[k] \in ToSet(t)
    BY <1>2 DEF ToSet
  <1>7. \A i \in 1..Len(b), j \in 1..Len(m), k \in 1..Len(t) :
           /\ <<b[i], m[j], t[k]>> \in M
           /\ mu[<<b[i], m[j], t[k]>>] = MergeText(b[i], m[j], t[k])
           /\ nu[<<b[i], t[k], m[j]>>] = MergeText(b[i], t[k], m[j])
    BY <1>6
  <1> HIDE DEF M, N
  <1>8. U \subseteq W /\ \A q \in M : mu[q].unit \in W
    OBVIOUS
  <1> HIDE DEF mu, nu, U, W
  <1>9. \A x \in W : K[x] = <<x.text, x.format>>
    OBVIOUS
  <1> HIDE DEF K
  <1>10. Mirrored(b, m, t, mu, nu, W, K)
    <2> SUFFICES ASSUME NEW i \in 1..Len(b), NEW j \in 1..Len(m), NEW k \in 1..Len(t)
                 PROVE  LET x == mu[<<b[i], m[j], t[k]>>]
                            y == nu[<<b[i], t[k], m[j]>>]
                        IN  y.ok = x.ok /\ (x.ok => x.unit \in W /\ y.unit \in W /\ K[x.unit] = K[y.unit])
      BY DEF Mirrored
    <2> DEFINE x == mu[<<b[i], m[j], t[k]>>]
               y == nu[<<b[i], t[k], m[j]>>]
    <2>1. x = MergeText(b[i], m[j], t[k]) /\ y = MergeText(b[i], t[k], m[j]) /\ x.unit \in W
      BY <1>7, <1>8
    <2>2. y.ok = x.ok /\ (x.ok => y.unit = x.unit)
      BY <2>1, TextsMirrored
    <2> QED
      BY <2>1, <2>2
  <1>11. ASSUME NEW x \in U, NEW y \in U, Content(x) = Content(y) PROVE K[x] = K[y]
    <2>1. {"text", "format"} \subseteq DOMAIN x /\ {"text", "format"} \subseteq DOMAIN y
      BY <1>5
    <2>2. x["text"] = y["text"]
      BY <1>11, <2>1, ContentHolds
    <2>3. x["format"] = y["format"]
      BY <1>11, <2>1, ContentHolds
    <2> QED
      BY <1>8, <1>9, <2>2, <2>3
  <1>12. Alike(res, other, K) /\ res.units \in Seq(W) /\ other.units \in Seq(W)
    <2>1. \A x, y \in U : Content(x) = Content(y) => K[x] = K[y]
      BY <1>11
    <2> QED
      BY ONLY <1>1, <1>4, <1>8, <1>10, <2>1, ThreeWayMirrored
  <1> QED
    BY <1>9, <1>12 DEF MirroredBags

(***************************************************************************)
(* Rows with the sides exchanged.                                          *)
(***************************************************************************)
LEMMA RowsMirrored ==
  ASSUME NEW x, NEW y, NEW z, IsRow(x), IsRow(y), IsRow(z)
  PROVE  /\ MergeRowUnits(x, z, y).ok = MergeRowUnits(x, y, z).ok
         /\ MergeRowUnits(x, y, z).ok =>
               ToBag(MergeRowUnits(x, z, y).unit.values) = ToBag(MergeRowUnits(x, y, z).unit.values)
  <1> DEFINE b == Cells(x)
             m == Cells(y)
             t == Cells(z)
             U == ToSet(b) \union ToSet(m) \union ToSet(t)
             M == ToSet(b) \X ToSet(m) \X ToSet(t)
             N == ToSet(b) \X ToSet(t) \X ToSet(m)
             mu == [q \in M |-> Fails]
             nu == [q \in N |-> Fails]
             r == ThreeWayMerge(b, m, t, mu)
             s == ThreeWayMerge(b, t, m, nu)
             K == [c \in U |-> c.value]
  <1>1. MergeRowUnits(x, y, z) = Joined(x, r) /\ MergeRowUnits(x, z, y) = Joined(x, s)
    BY DEF MergeRowUnits
  <1>2. b \in Seq(ToSet(b)) /\ m \in Seq(ToSet(m)) /\ t \in Seq(ToSet(t))
    BY CellsAre
  <1>3. \A c \in U : c = [id |-> c.id, value |-> c.value]
    BY CellsAre
  <1>4. ToSet(b) \subseteq U /\ ToSet(m) \subseteq U /\ ToSet(t) \subseteq U
    OBVIOUS
  <1> HIDE DEF b, m, t, r, s
  <1>5. b \in Seq(U) /\ m \in Seq(U) /\ t \in Seq(U)
    <2> HIDE DEF U
    <2> QED
      BY <1>2, <1>4, SeqsGrow
  <1>6. ASSUME NEW i \in 1..Len(b), NEW j \in 1..Len(m), NEW k \in 1..Len(t)
        PROVE  ~mu[<<b[i], m[j], t[k]>>].ok /\ ~nu[<<b[i], t[k], m[j]>>].ok
               /\ mu[<<b[i], m[j], t[k]>>].ok = nu[<<b[i], t[k], m[j]>>].ok
    <2>1. b[i] \in ToSet(b) /\ m[j] \in ToSet(m) /\ t[k] \in ToSet(t)
      BY <1>2
    <2>2. mu[<<b[i], m[j], t[k]>>] = Fails /\ nu[<<b[i], t[k], m[j]>>] = Fails
      BY <2>1
    <2> HIDE DEF mu, nu
    <2> QED
      BY <2>2 DEF Fails
  <1> HIDE DEF mu, nu, U
  <1>7. \A c \in U : K[c] = c.value
    OBVIOUS
  <1> HIDE DEF K
  <1>8. Mirrored(b, m, t, mu, nu, U, K)
    BY <1>6 DEF Mirrored
  <1>9. ASSUME NEW c \in U, NEW d \in U, Content(c) = Content(d) PROVE K[c] = K[d]
    <2>1. "value" \in DOMAIN c /\ "value" \in DOMAIN d
      BY <1>3
    <2>2. c["value"] = d["value"]
      BY <1>9, <2>1, ContentHolds
    <2> QED
      BY <1>7, <2>2
  <1>10. Alike(r, s, K) /\ r.units \in Seq(U) /\ s.units \in Seq(U)
    <2>1. U \subseteq U /\ r = ThreeWayMerge(b, m, t, mu) /\ s = ThreeWayMerge(b, t, m, nu)
      BY DEF r, s
    <2> QED
      BY <1>5, <1>8, <1>9, <2>1, ThreeWayMirrored
  <1>11. s.ok = r.ok /\ AsMany(r.units, s.units, K)
    BY <1>10 DEF Alike
  <1> DEFINE p == [c \in DOMAIN r.units |-> r.units[c].value]
             q == [c \in DOMAIN s.units |-> s.units[c].value]
  <1>12. ToBag(q) = ToBag(p)
    <2>1. p = [c \in DOMAIN r.units |-> K[r.units[c]]] /\ q = [c \in DOMAIN s.units |-> K[s.units[c]]]
      BY <1>7, <1>10
    <2> DEFINE u == r.units
               v == s.units
    <2>2. u \in Seq(U) /\ v \in Seq(U) /\ AsMany(u, v, K)
      BY <1>10, <1>11
    <2> HIDE DEF p, q
    <2>3. p = Keys(u, K) /\ q = Keys(v, K)
      BY <2>1 DEF Keys
    <2> HIDE DEF u, v
    <2>4. ToBag(p) = ToBag(q)
      BY <2>2, <2>3, BagsAlike
    <2> QED
      BY <2>4
  <1> HIDE DEF p, q
  <1>13. ASSUME NEW v PROVE [x EXCEPT !.values = v].values = v
    BY DEF IsRow
  <1>14. CASE r.ok
    <2>1. /\ MergeRowUnits(x, y, z).ok /\ MergeRowUnits(x, y, z).unit = [x EXCEPT !.values = p]
          /\ MergeRowUnits(x, z, y).ok /\ MergeRowUnits(x, z, y).unit = [x EXCEPT !.values = q]
      BY <1>1, <1>11, <1>14 DEF Joined, p, q
    <2> QED
      BY <1>12, <1>13, <2>1
  <1>15. CASE ~r.ok
    <2>1. MergeRowUnits(x, y, z) = Fails /\ MergeRowUnits(x, z, y) = Fails
      BY <1>1, <1>11, <1>15 DEF Joined
    <2> QED
      BY <2>1 DEF Fails
  <1> QED
    BY <1>14, <1>15

LEMMA SheetsMirrored ==
  ASSUME kind = "xlsx", NEW base0 \in Sheets, NEW mine0 \in Sheets, NEW theirs0 \in Sheets,
         NEW res, res = MergeSheetRows(base0, mine0, theirs0),
         NEW other, other = MergeSheetRows(base0, theirs0, mine0)
  PROVE  \E K : MirroredBags(res, other, K)
  <1> DEFINE b == RowUnits(base0)
             m == RowUnits(mine0)
             t == RowUnits(theirs0)
             U == ToSet(b) \union ToSet(m) \union ToSet(t)
             M == ToSet(b) \X ToSet(m) \X ToSet(t)
             N == ToSet(b) \X ToSet(t) \X ToSet(m)
             mu == [q \in M |-> MergeRowUnits(q[1], q[2], q[3])]
             nu == [q \in N |-> MergeRowUnits(q[1], q[2], q[3])]
             W == U \union {mu[q].unit : q \in M} \union {nu[q].unit : q \in N}
             K == [x \in W |-> ToBag(x.values)]
  <1>1. res = ThreeWayMerge(b, m, t, mu) /\ other = ThreeWayMerge(b, t, m, nu)
    BY DEF MergeSheetRows
  <1>2. \A s \in {b, m, t} : s \in Seq(ToSet(s))
    BY SheetsHaveUnits
  <1>3. \A s \in {b, m, t} : \A x \in ToSet(s) : IsRow(x)
    BY RowsAreRows
  <1> HIDE DEF b, m, t
  <1>4. b \in Seq(U) /\ m \in Seq(U) /\ t \in Seq(U)
    <2>1. ToSet(b) \subseteq U /\ ToSet(m) \subseteq U /\ ToSet(t) \subseteq U
      OBVIOUS
    <2> HIDE DEF U
    <2> QED
      BY <1>2, <2>1, SeqsGrow
  <1>5. \A x \in U : IsRow(x)
    BY <1>3
  <1>6. /\ \A i \in 1..Len(b) : b[i] \in ToSet(b)
        /\ \A j \in 1..Len(m) : m[j] \in ToSet(m)
        /\ \A k \in 1..Len(t) : t[k] \in ToSet(t)
    BY <1>2 DEF ToSet
  <1>7. \A i \in 1..Len(b), j \in 1..Len(m), k \in 1..Len(t) :
           /\ <<b[i], m[j], t[k]>> \in M /\ <<b[i], t[k], m[j]>> \in N
           /\ mu[<<b[i], m[j], t[k]>>] = MergeRowUnits(b[i], m[j], t[k])
           /\ nu[<<b[i], t[k], m[j]>>] = MergeRowUnits(b[i], t[k], m[j])
           /\ IsRow(b[i]) /\ IsRow(m[j]) /\ IsRow(t[k])
    BY <1>3, <1>6
  <1> HIDE DEF M, N
  <1>8. U \subseteq W /\ (\A q \in M : mu[q].unit \in W) /\ \A q \in N : nu[q].unit \in W
    OBVIOUS
  <1> HIDE DEF mu, nu, U, W
  <1>9. \A x \in W : K[x] = ToBag(x.values)
    OBVIOUS
  <1> HIDE DEF K
  <1>10. Mirrored(b, m, t, mu, nu, W, K)
    <2> SUFFICES ASSUME NEW i \in 1..Len(b), NEW j \in 1..Len(m), NEW k \in 1..Len(t)
                 PROVE  LET x == mu[<<b[i], m[j], t[k]>>]
                            y == nu[<<b[i], t[k], m[j]>>]
                        IN  y.ok = x.ok /\ (x.ok => x.unit \in W /\ y.unit \in W /\ K[x.unit] = K[y.unit])
      BY DEF Mirrored
    <2> DEFINE x == mu[<<b[i], m[j], t[k]>>]
               y == nu[<<b[i], t[k], m[j]>>]
    <2>1. x = MergeRowUnits(b[i], m[j], t[k]) /\ y = MergeRowUnits(b[i], t[k], m[j])
      BY <1>7
    <2>2. x.unit \in W /\ y.unit \in W
      BY <1>7, <1>8
    <2>3. IsRow(b[i]) /\ IsRow(m[j]) /\ IsRow(t[k])
      BY <1>7
    <2>4. y.ok = x.ok /\ (x.ok => ToBag(y.unit.values) = ToBag(x.unit.values))
      <3>1. \A p, q, r : IsRow(p) /\ IsRow(q) /\ IsRow(r) =>
               /\ MergeRowUnits(p, r, q).ok = MergeRowUnits(p, q, r).ok
               /\ MergeRowUnits(p, q, r).ok =>
                     ToBag(MergeRowUnits(p, r, q).unit.values) = ToBag(MergeRowUnits(p, q, r).unit.values)
        BY RowsMirrored
      <3> HIDE DEF x, y
      <3> QED
        BY <2>1, <2>3, <3>1
    <2>5. K[x.unit] = ToBag(x.unit.values) /\ K[y.unit] = ToBag(y.unit.values)
      BY <1>9, <2>2
    <2> QED
      BY <2>2, <2>4, <2>5
  <1>11. ASSUME NEW x \in U, NEW y \in U, Content(x) = Content(y) PROVE K[x] = K[y]
    <2>1. "values" \in DOMAIN x /\ "values" \in DOMAIN y
      BY <1>5 DEF IsRow
    <2>2. x["values"] = y["values"]
      BY <1>11, <2>1, ContentHolds
    <2>3. K[x] = ToBag(x.values) /\ K[y] = ToBag(y.values)
      BY <1>8, <1>9
    <2> QED
      BY <2>2, <2>3
  <1>12. Alike(res, other, K) /\ res.units \in Seq(W) /\ other.units \in Seq(W)
    <2>1. \A x, y \in U : Content(x) = Content(y) => K[x] = K[y]
      BY <1>11
    <2> QED
      BY ONLY <1>1, <1>4, <1>8, <1>10, <2>1, ThreeWayMirrored
  <1> QED
    BY <1>9, <1>12 DEF MirroredBags

LEMMA ReadMeansSidesAlike == ASSUME IsRead PROVE SidesAreAlike
  <1> DEFINE res == result
             other == Merged(theirs, mine)
  <1> SUFFICES ASSUME Merging
               PROVE  /\ other.conflicts = [k \in DOMAIN res.conflicts |->
                            [base |-> res.conflicts[k].base, mine |-> res.conflicts[k].theirs,
                             theirs |-> res.conflicts[k].mine]]
                      /\ Bags(other.units) = Bags(res.units)
    BY DEF SidesAreAlike
  <1>1. res = Merged(mine, theirs)
    BY DEF IsRead
  <1>2. \E K : MirroredBags(res, other, K)
    <2>1. CASE kind = "docx"
      BY <1>1, <2>1, DocsMirrored DEF IsRead, Merged
    <2>2. CASE kind = "xlsx"
      BY <1>1, <2>2, SheetsMirrored DEF IsRead, Merged
    <2> QED
      BY <2>1, <2>2 DEF IsRead
  <1> HIDE DEF res, other
  <1>3. PICK K : MirroredBags(res, other, K)
    BY <1>2
  <1>4. PICK W :
           /\ \A x \in W : K[x] = (IF kind = "docx" THEN <<x.text, x.format>> ELSE ToBag(x.values))
           /\ res.units \in Seq(W) /\ other.units \in Seq(W)
           /\ Alike(res, other, K)
    BY <1>3 DEF MirroredBags
  <1>5. ASSUME NEW s \in Seq(W) PROVE Bags(s) = ToBag(Keys(s, K))
    <2>1. \A i \in DOMAIN s : s[i] \in W
      OBVIOUS
    <2>2. CASE kind = "docx"
      <3>1. \A i \in DOMAIN s : Body(s)[i] = <<s[i].text, s[i].format>>
        BY <2>2 DEF Body
      <3>2. \A i \in DOMAIN s : Body(s)[i] = K[s[i]]
        BY <1>4, <2>1, <2>2, <3>1
      <3>3. [i \in DOMAIN s |-> IF kind = "docx" THEN Body(s)[i] ELSE ToBag(s[i].values)] = Keys(s, K)
        BY <2>2, <3>2 DEF Keys
      <3> QED
        BY <3>3 DEF Bags
    <2>3. CASE kind # "docx"
      <3>1. \A i \in DOMAIN s : ToBag(s[i].values) = K[s[i]]
        BY <1>4, <2>1, <2>3
      <3>2. [i \in DOMAIN s |-> IF kind = "docx" THEN Body(s)[i] ELSE ToBag(s[i].values)] = Keys(s, K)
        BY <2>3, <3>1 DEF Keys
      <3> QED
        BY <3>2 DEF Bags
    <2> QED
      BY <2>2, <2>3
  <1>6. Bags(other.units) = Bags(res.units)
    <2>1. AsMany(res.units, other.units, K)
      BY <1>4 DEF Alike
    <2>2. ToBag(Keys(res.units, K)) = ToBag(Keys(other.units, K))
      BY <1>4, <2>1, BagsAlike
    <2> QED
      BY <1>4, <1>5, <2>2
  <1> QED
    BY <1>4, <1>6 DEF Alike, Exchanged

\* Whose side is called mine makes no difference: the same conflicts with the
\* sides exchanged, and the same units, at one place perhaps in another order.
THEOREM NoSideIsPreferred == Spec => []SidesAreAlike
<1>1. IsRead => SidesAreAlike
  BY ReadMeansSidesAlike
<1> QED BY <1>1, AlwaysRead, PTL
===========================================================================
