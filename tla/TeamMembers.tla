---------------------------- MODULE TeamMembers ----------------------------
(***************************************************************************)
(* The list of members of a team (shared/team-members.mjs,                 *)
(* kernel/team-store.mjs, shared/team-source.mjs).  Every device writes a  *)
(* log of its own into a directory that a sync client copies between       *)
(* devices, file by file and when it likes, now and then leaving a copy of *)
(* an older version behind.  Each device works out from all logs it sees   *)
(* who is a member, who has been removed, and which invitations are used.  *)
(*                                                                         *)
(* A key stands for the fingerprint of a key pair, a time for a time stamp *)
(* (clocks agree).  Records are signed by those who write them and nobody  *)
(* else writes; the sync client is external.                               *)
(***************************************************************************)
EXTENDS Integers, Sequences, FiniteSets, SequencesExt

CONSTANTS Devices, Owner,      \* the owner's device has created the team
          Members, Founder,    \* member ids; one is the owner's
          Rejoins,             \* may a device with a log join by another invitation?
          OwnCopies,           \* may a copy appear beside the log a device writes itself?
          MaxKeys, MaxRevokes, MaxCopies

ASSUME TeamAssumption ==
    Owner \in Devices /\ Founder \in Members

VARIABLES seen,      \* seen[d][e]: what d sees of the log of e, the file and a copy
          config,    \* config[d]: the key d signs with, 0 while it is in no team
          slots,     \* the member ids invitations have been made for
          keys,      \* how many key pairs have been made
          now,       \* the time of the next record
          said       \* history: every record ever written
vars == <<seen, config, slots, keys, now, said>>

NoLog == [main |-> <<>>, copy |-> <<>>]

(***************************************************************************)
(* team-members.mjs                                                        *)
(***************************************************************************)
\* appendMemberOp: the number goes on from the last record.
AppendMemberOp(records, rec) ==
    Append(records, [rec EXCEPT !.seq = IF records = <<>> THEN 1 ELSE Last(records).seq + 1])
Op(op, m, scope, key, ts) == [op |-> op, member |-> m, scope |-> scope, by |-> key, ts |-> ts, seq |-> 0]

\* mergeMemberLogCopies: of each signer and number the first record, in order of time.
SameNumber(r, q) == r.by = q.by /\ r.seq = q.seq
Firsts(records) ==
    {records[i] : i \in {i \in DOMAIN records : \A k \in 1..(i - 1) : ~SameNumber(records[k], records[i])}}
BySigner(a, b) == a.by < b.by \/ (a.by = b.by /\ a.seq < b.seq)    \* as Earlier, a fault
Earlier(a, b) == a.ts < b.ts \/ (a.ts = b.ts /\ BySigner(a, b))
Latest(records) == CHOOSE r \in records : \A q \in records \ {r} : Earlier(q, r)

\* replayMembers: removing an invitation does not remove a member.
About(records, m) == {r \in records : r.member = m /\ r.scope = "member"}
Status(records, m) ==
    IF About(records, m) # {} /\ Latest(About(records, m)).op = "revoke" THEN "revoked" ELSE "active"
Adds(records, m) == {r \in records : r.member = m /\ r.op = "add"}
ConsumedInvites(records) == {r.member : r \in {r \in records : r.op = "revoke" /\ r.scope = "invite"}}

\* pubKeyResolver: the last key of each member, of those who have been removed too.
Unremoved(records) == {Latest(Adds(records, m)).by : m \in
    {m \in Members : Adds(records, m) # {} /\ Status(records, m) = "active"}}    \* a fault
PubKeys(records) == {Latest(Adds(records, m)).by : m \in {m \in Members : Adds(records, m) # {}}}

\* verifyMemberChain, for records that were written as they are signed.
ChainErrors(records, known) ==
    {[at |-> i, reason |-> "bad-seq"] : i \in {i \in DOMAIN records : records[i].seq # i}}
        \union {[at |-> i, reason |-> "unknown-signer"] : i \in {i \in DOMAIN records : records[i].by \notin known}}

(***************************************************************************)
(* What a device reads: all logs, with their copies.                       *)
(***************************************************************************)
NewestCopy(files) == IF files.copy = <<>> THEN files.main ELSE files.copy    \* a fault
ReadLogCopies(files) == files.main \o files.copy
AllRecords(d) == UNION {ToSet(ReadLogCopies(seen[d][e])) : e \in Devices}
\* A key signs in one log only, so that the logs can be merged one by one.
View(d) == UNION {Firsts(ReadLogCopies(seen[d][e])) : e \in Devices}

(***************************************************************************)
(* team-store.mjs                                                          *)
(***************************************************************************)
Writes(d, records) ==
    /\ seen' = [seen EXCEPT ![d][d].main = records]
    /\ said' = said \union ToSet(records)
    /\ now' = now + 1

\* createTeam
Init ==
    /\ LET log == AppendMemberOp(<<>>, Op("add", Founder, "member", 1, 1))
       IN  /\ seen = [d \in Devices |-> [e \in Devices |->
                         IF d = Owner /\ e = Owner THEN [NoLog EXCEPT !.main = log] ELSE NoLog]]
           /\ said = ToSet(log)
    /\ config = [d \in Devices |-> IF d = Owner THEN 1 ELSE 0]
    /\ slots = {}
    /\ keys = 1 /\ now = 2

\* exportInvite, exportTeamPackage: whoever is in the team may invite.
Invite(d, m) ==
    /\ config[d] # 0
    /\ m \notin slots \union {Founder}
    /\ slots' = slots \union {m}
    /\ UNCHANGED <<seen, config, keys, now, said>>

\* completeJoin: the log of the device is written anew.
JoinLog(m, key, ts) ==
    AppendMemberOp(AppendMemberOp(<<>>, Op("add", m, "member", key, ts)), Op("revoke", m, "invite", key, ts))

\* joinTeam, importTeamPackage: any device may have the code, and only the logs that have
\* arrived say that it is used.  The process may die before the configuration is saved.
Join(d, m) ==
    /\ m \in slots
    /\ m \notin ConsumedInvites(AllRecords(d))
    /\ \/ Rejoins
       \/ \A k \in DOMAIN seen[d][d].main : seen[d][d].main[k].member = m
    /\ keys < MaxKeys
    /\ Writes(d, JoinLog(m, keys + 1, now))
    /\ keys' = keys + 1
    /\ \/ config' = [config EXCEPT ![d] = keys + 1]
       \/ UNCHANGED config
    /\ UNCHANGED slots

\* revokeMember: what is read, copies and all, is written back with one record more.
RevokeMember(d, m) ==
    /\ config[d] # 0
    /\ Cardinality({r \in said : r.op = "revoke" /\ r.scope = "member"}) < MaxRevokes
    /\ Writes(d, AppendMemberOp(ReadLogCopies(seen[d][d]), Op("revoke", m, "member", config[d], now)))
    /\ UNCHANGED <<config, slots, keys>>

(***************************************************************************)
(* The sync client (external).                                             *)
(***************************************************************************)
Copies == Cardinality({p \in Devices \X Devices : seen[p[1]][p[2]].copy # <<>>})

Sync(d, e) ==
    /\ d # e /\ seen[d][e].main # seen[e][e].main
    /\ seen' = [seen EXCEPT ![d][e].main = seen[e][e].main,
                            ![d][e].copy = IF seen[e][e].copy = <<>> THEN @ ELSE seen[e][e].copy]
    /\ UNCHANGED <<config, slots, keys, now, said>>

\* A new version arrives and the older one stays beside it; beside a device's own
\* log an older version may come back.
SyncKeepsCopy(d, e) ==
    /\ Copies < MaxCopies /\ seen[d][e].copy = <<>>
    /\ IF d = e
       THEN /\ OwnCopies
            /\ \E n \in 1..Len(seen[d][d].main) : seen' = [seen EXCEPT ![d][d].copy = SubSeq(seen[d][d].main, 1, n)]
       ELSE /\ seen[d][e].main \notin {<<>>, seen[e][e].main}
            /\ seen' = [seen EXCEPT ![d][e] = [main |-> seen[e][e].main, copy |-> seen[d][e].main]]
    /\ UNCHANGED <<config, slots, keys, now, said>>

Next ==
    \/ \E d \in Devices, m \in Members : Invite(d, m) \/ Join(d, m) \/ RevokeMember(d, m)
    \/ \E d, e \in Devices : Sync(d, e) \/ SyncKeepsCopy(d, e)

(* The sync client comes round to every file again. *)
Spec == Init /\ [][Next]_vars /\ \A d, e \in Devices : WF_vars(Sync(d, e))

(***************************************************************************)
(* Properties.                                                             *)
(***************************************************************************)
AddsOf(m) == {r \in said : r.member = m /\ r.op = "add"}
Removals(m) == {r \in said : r.member = m /\ r.op = "revoke" /\ r.scope = "member"}
Sees(d, r) == \E e \in Devices : r \in ToSet(ReadLogCopies(seen[d][e]))

(* Whoever sees the removal of a member does not list the member any more, *)
(* unless the member has joined later (mergeMemberLogCopies orders the     *)
(* records of all devices by time, and drops none that is not a copy).     *)
RevocationHolds ==
    \A d \in Devices :
        LET view == View(d)
        IN  \A m \in Members : \A r \in Removals(m) :
                Sees(d, r) /\ (\A a \in AddsOf(m) : a.ts < r.ts) => Status(view, m) = "revoked"

(* An invitation is used once, says team-store.mjs:402, on whatever        *)
(* device.  The mark of its use is in the log of the device that used it,  *)
(* and another device that has the code may join before that log arrives.  *)
InviteUsedOnce == \A m \in Members : Cardinality(AddsOf(m)) <= 1

(* No record that a device sees is of an unknown signer, whatever has been *)
(* synced so far and whoever has been removed: only where one invitation   *)
(* is seen to have been used twice, one of its keys is lost                *)
(* (pubKeyResolver has one key for each member id).                        *)
UsedTwice(records, key) ==
    \E m \in Members : \E r, q \in Adds(records, m) : r.by = key /\ q.by # key

SignersAreKnown ==
    \A d \in Devices :
        LET known == PubKeys(View(d))
        IN  \A e \in Devices : \A r \in ToSet(ReadLogCopies(seen[d][e])) :
                r.by \in known \/ UsedTwice(View(d), r.by)

(* Logs the program wrote itself raise no alarm (verifyTeamSource).        *)
NoFalseAlarm ==
    \A d \in Devices :
        LET known == PubKeys(View(d))
        IN  \A e \in Devices : ChainErrors(ReadLogCopies(seen[d][e]), known) = {}

(* A member who has been removed for good is in the end removed on every   *)
(* device, if the files get there.                                         *)
RevocationReaches ==
    \A m \in Members, d \in Devices :
        <>[](\E r \in Removals(m) : \A a \in AddsOf(m) : a.ts < r.ts) => <>[](Status(View(d), m) = "revoked")

(* In the end all devices list the same members, with the same keys and    *)
(* the same ones removed, though invitations have been used on two devices *)
(* at once and older versions of logs lie about.                           *)
List(records) ==
    {[member |-> m, status |-> Status(records, m), key |-> Latest(Adds(records, m)).by] :
        m \in {m \in Members : Adds(records, m) # {}}}

MembersAgree == <>[](\A d \in Devices : List(View(d)) = List(View(Owner)))
=============================================================================
