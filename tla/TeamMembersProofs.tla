------------------------- MODULE TeamMembersProofs -------------------------
(***************************************************************************)
(* Theorems about TeamMembers, for every number of devices, members and    *)
(* keys, when no device that has a log joins by another invitation: a      *)
(* record that a device sees is of a known signer, whatever the sync       *)
(* client has copied and left behind, unless the device sees that the      *)
(* signer's invitation has been used twice.  When moreover no copy appears *)
(* beside a device's own log, a removal that is seen is obeyed.  TLC       *)
(* refutes the first with Rejoins, the second with OwnCopies.              *)
(***************************************************************************)
EXTENDS TeamMembers, SequenceTheorems, FiniteSetTheorems, WellFoundedInduction, TLAPS

Rec == [op : {"add", "revoke"}, member : Members, scope : {"member", "invite"},
        by : Nat, ts : Nat, seq : Nat]

Files == [main : Seq(Rec), copy : Seq(Rec)]

Typed ==
    /\ seen \in [Devices -> [Devices -> Files]]
    /\ config \in [Devices -> Nat]
    /\ slots \subseteq Members \ {Founder}
    /\ keys \in Nat /\ now \in Nat
    /\ said \subseteq Rec

(***************************************************************************)
(* The inductive invariant.  The log a device writes itself begins with    *)
(* the joining of its member, followed by the mark of the invitation; all  *)
(* of it is signed with one key that is nobody else's; and whatever else   *)
(* is seen anywhere is the beginning of such a log.                        *)
(***************************************************************************)
log(d) == seen[d][d].main

Mark(r, m) == r.op = "revoke" /\ r.scope = "invite" /\ r.member = m

Begun(d) ==
    log(d) # <<>> =>
      /\ log(d)[1].op = "add" /\ log(d)[1].by <= keys
      /\ log(d)[1].member # Founder => Len(log(d)) >= 2 /\ Mark(log(d)[2], log(d)[1].member)

GoesOn(d) ==
    \A i \in 1..Len(log(d)) :
      /\ log(d)[i].by = log(d)[1].by
      /\ log(d)[i].op = "add" \/ log(d)[i].seq = 1 => log(d)[i] = log(d)[1]
      /\ log(d)[i].seq >= 1
      /\ log(d)[i].ts < now

OwnKey(d) == config[d] # 0 => log(d) # <<>> /\ config[d] = log(d)[1].by

KeysApart ==
    \A d, e \in Devices : d # e /\ log(d) # <<>> /\ log(e) # <<>> => log(d)[1].by # log(e)[1].by

Begins(s, t) == Len(s) <= Len(t) /\ \A i \in 1..Len(s) : s[i] = t[i]

SeenBegins == \A d, e \in Devices : Begins(seen[d][e].main, log(e)) /\ Begins(seen[d][e].copy, log(e))

SaidIsLogged == \A r : r \in said <=> \E d \in Devices : \E i \in 1..Len(log(d)) : r = log(d)[i]

Logs ==
    /\ \A d \in Devices : Begun(d) /\ GoesOn(d) /\ OwnKey(d)
    /\ KeysApart /\ SeenBegins /\ SaidIsLogged

\* Without copies beside the logs that are written, the records of a log are numbered through.
Numbered ==
    \A d \in Devices : seen[d][d].copy = <<>> /\ \A i \in 1..Len(log(d)) : log(d)[i].seq = i

(***************************************************************************)
(* The records that are written.                                           *)
(***************************************************************************)
Rec6(op, m, scope, key, ts, n) ==
    [op |-> op, member |-> m, scope |-> scope, by |-> key, ts |-> ts, seq |-> n]

NextSeq(records) == IF records = <<>> THEN 1 ELSE records[Len(records)].seq + 1

LEMMA AppendIs ==
    ASSUME NEW records, NEW op, NEW m, NEW scope, NEW key, NEW ts
    PROVE  AppendMemberOp(records, Op(op, m, scope, key, ts)) =
             Append(records, Rec6(op, m, scope, key, ts, NextSeq(records)))
<1>1. \A n : [Op(op, m, scope, key, ts) EXCEPT !.seq = n] = Rec6(op, m, scope, key, ts, n)
  BY DEF Op, Rec6
<1> QED BY <1>1 DEF AppendMemberOp, NextSeq, Last

LEMMA NextSeqType == ASSUME NEW records \in Seq(Rec) PROVE NextSeq(records) \in Nat
<1>1. ASSUME records # <<>> PROVE records[Len(records)] \in Rec
  BY <1>1, EmptySeq, LenProperties, ElementOfSeq
<1> QED BY <1>1 DEF NextSeq, Rec

LEMMA Rec6Type ==
    ASSUME NEW op \in {"add", "revoke"}, NEW m \in Members,
           NEW scope \in {"member", "invite"}, NEW key \in Nat, NEW ts \in Nat, NEW n \in Nat
    PROVE  Rec6(op, m, scope, key, ts, n) \in Rec
BY DEF Rec6, Rec

LEMMA JoinLogIs ==
    ASSUME NEW m \in Members, NEW key \in Nat, NEW ts \in Nat
    PROVE  /\ JoinLog(m, key, ts) \in Seq(Rec) /\ Len(JoinLog(m, key, ts)) = 2
           /\ JoinLog(m, key, ts)[1] = Rec6("add", m, "member", key, ts, 1)
           /\ JoinLog(m, key, ts)[2] = Rec6("revoke", m, "invite", key, ts, 2)
<1> DEFINE a == Rec6("add", m, "member", key, ts, 1)
           b == Rec6("revoke", m, "invite", key, ts, 2)
<1>1. AppendMemberOp(<<>>, Op("add", m, "member", key, ts)) = Append(<<>>, a)
  BY AppendIs DEF NextSeq
<1>2. Append(<<>>, a) = <<a>>
  OBVIOUS
<1>3. NextSeq(<<a>>) = 2
  BY DEF NextSeq, Rec6
<1>4. AppendMemberOp(<<a>>, Op("revoke", m, "invite", key, ts)) = Append(<<a>>, b)
  BY <1>3, AppendIs
<1>5. a \in Rec /\ b \in Rec
  BY Rec6Type
<1>6. JoinLog(m, key, ts) = Append(<<a>>, b)
  BY <1>1, <1>2, <1>4 DEF JoinLog
<1> HIDE DEF a, b
<1>7. <<a>> \in Seq(Rec) /\ Len(<<a>>) = 1 /\ <<a>>[1] = a
  BY <1>5
<1>8. /\ Append(<<a>>, b) \in Seq(Rec) /\ Len(Append(<<a>>, b)) = 2
      /\ Append(<<a>>, b)[1] = a /\ Append(<<a>>, b)[2] = b
  BY <1>5, <1>7, AppendProperties
<1> QED BY <1>6, <1>8 DEF a, b

\* What a removal makes of the log of a device: all that was there, once or twice, and the removal.
LEMMA RevokeLogIs ==
    ASSUME Typed, NEW d \in Devices, NEW m \in Members, RevokeMember(d, m), log(d) # <<>>,
           Begins(seen[d][d].copy, log(d))
    PROVE  \E n \in Nat :
             /\ log(d)' \in Seq(Rec)
             /\ Len(log(d)') = Len(log(d)) + Len(seen[d][d].copy) + 1
             /\ log(d)'[Len(log(d)')] = Rec6("revoke", m, "member", config[d], now, n)
             /\ \A i \in 1..Len(log(d)) : log(d)'[i] = log(d)[i]
             /\ \A i \in 1..Len(log(d)') : i = Len(log(d)') \/ \E k \in 1..Len(log(d)) : log(d)'[i] = log(d)[k]
             /\ n = log(d)'[Len(log(d)') - 1].seq + 1
<1> DEFINE old == log(d) \o seen[d][d].copy
<1>0. log(d) \in Seq(Rec) /\ seen[d][d].copy \in Seq(Rec) /\ config[d] \in Nat /\ now \in Nat
  BY DEF Typed, Files, log
<1>1. /\ old \in Seq(Rec) /\ Len(old) = Len(log(d)) + Len(seen[d][d].copy)
      /\ \A i \in 1..Len(old) : old[i] = IF i <= Len(log(d)) THEN log(d)[i] ELSE seen[d][d].copy[i - Len(log(d))]
  BY <1>0, ConcatProperties
<1>2. Len(log(d)) \in Nat /\ Len(log(d)) > 0 /\ Len(seen[d][d].copy) \in Nat /\ old # <<>>
  BY <1>0, <1>1, LenProperties, EmptySeq
<1> DEFINE n == NextSeq(old)
<1>3. log(d)' = Append(old, Rec6("revoke", m, "member", config[d], now, n)) /\ n \in Nat
  <2>1. log(d)' = AppendMemberOp(old, Op("revoke", m, "member", config[d], now))
    BY DEF RevokeMember, Writes, Typed, log, ReadLogCopies, Files
  <2> QED BY <1>1, <2>1, AppendIs, NextSeqType
<1>4. Rec6("revoke", m, "member", config[d], now, n) \in Rec
  BY <1>0, <1>3, Rec6Type
<1>5. /\ log(d)' \in Seq(Rec) /\ Len(log(d)') = Len(old) + 1
      /\ \A i \in 1..Len(old) : log(d)'[i] = old[i]
      /\ log(d)'[Len(old) + 1] = Rec6("revoke", m, "member", config[d], now, n)
  <2> HIDE DEF old
  <2> QED BY <1>1, <1>3, <1>4, AppendProperties
<1>6. \A i \in 1..Len(old) : \E k \in 1..Len(log(d)) : old[i] = log(d)[k]
  <2> TAKE i \in 1..Len(old)
  <2>1. CASE i <= Len(log(d))
    BY <1>1, <1>2, <2>1
  <2>2. CASE i > Len(log(d))
    <3>1. i - Len(log(d)) \in 1..Len(seen[d][d].copy) /\ i - Len(log(d)) \in 1..Len(log(d))
      BY <1>1, <1>2, <2>2 DEF Begins
    <3> QED BY <1>1, <2>2, <3>1 DEF Begins
  <2> QED BY <1>2, <2>1, <2>2
<1>7. n = log(d)'[Len(log(d)') - 1].seq + 1
  <2>1. Len(old) \in 1..Len(old) /\ Len(log(d)') - 1 = Len(old)
    BY <1>1, <1>2, <1>5
  <2>2. log(d)'[Len(log(d)') - 1] = old[Len(old)]
    BY <1>5, <2>1
  <2> QED BY <1>2, <2>2 DEF NextSeq
<1> HIDE DEF old, n
<1>8. \A i \in 1..Len(log(d)) : log(d)'[i] = log(d)[i]
  BY <1>1, <1>2, <1>5
<1>9. \A i \in 1..Len(log(d)') : i = Len(log(d)') \/ \E k \in 1..Len(log(d)) : log(d)'[i] = log(d)[k]
  <2> TAKE i \in 1..Len(log(d)')
  <2>1. i = Len(old) + 1 \/ i \in 1..Len(old)
    BY <1>1, <1>2, <1>5
  <2>2. ASSUME i \in 1..Len(old) PROVE \E k \in 1..Len(log(d)) : log(d)'[i] = log(d)[k]
    BY <1>5, <1>6, <2>2
  <2> QED BY <1>5, <2>1, <2>2
<1> QED BY <1>1, <1>3, <1>5, <1>7, <1>8, <1>9

(***************************************************************************)
(* Types.                                                                  *)
(***************************************************************************)
LEMMA InitLog ==
    /\ AppendMemberOp(<<>>, Op("add", Founder, "member", 1, 1)) = <<Rec6("add", Founder, "member", 1, 1, 1)>>
    /\ Rec6("add", Founder, "member", 1, 1, 1) \in Rec
<1>1. Append(<<>>, Rec6("add", Founder, "member", 1, 1, 1)) = <<Rec6("add", Founder, "member", 1, 1, 1)>>
  OBVIOUS
<1>2. Rec6("add", Founder, "member", 1, 1, 1) \in Rec
  BY TeamAssumption, Rec6Type
<1> QED BY <1>1, <1>2, AppendIs DEF NextSeq

LEMMA InitTyped == Init => Typed
<1> SUFFICES ASSUME Init PROVE Typed
  OBVIOUS
<1> DEFINE r == Rec6("add", Founder, "member", 1, 1, 1)
<1>1. /\ seen = [d \in Devices |-> [e \in Devices |->
                    IF d = Owner /\ e = Owner THEN [NoLog EXCEPT !.main = <<r>>] ELSE NoLog]]
      /\ said = ToSet(<<r>>)
  BY InitLog DEF Init
<1>2. r \in Rec
  BY InitLog
<1> HIDE DEF r
<1>3. said \subseteq Rec
  BY <1>1, <1>2 DEF ToSet
<1>4. NoLog \in Files /\ [NoLog EXCEPT !.main = <<r>>] \in Files
  <2>1. <<>> \in Seq(Rec) /\ <<r>> \in Seq(Rec)
    BY <1>2
  <2> QED BY <2>1 DEF NoLog, Files
<1>5. seen \in [Devices -> [Devices -> Files]]
  BY <1>1, <1>4
<1> QED BY <1>3, <1>5 DEF Init, Typed

\* A write of d changes its own log and nothing else that is seen.
Wrote(d, new) ==
    /\ seen' = [seen EXCEPT ![d][d].main = new]
    /\ said' = said \cup ToSet(new)
    /\ now' = now + 1

LEMMA WroteSees ==
    ASSUME Typed, NEW d \in Devices, NEW new \in Seq(Rec), Wrote(d, new)
    PROVE  /\ log(d)' = new
           /\ \A e \in Devices : e # d => log(e)' = log(e)
           /\ \A e, f \in Devices : e # f \/ e # d => seen'[e][f] = seen[e][f]
           /\ seen'[d][d].copy = seen[d][d].copy
           /\ seen' \in [Devices -> [Devices -> Files]]
           /\ said' \subseteq Rec /\ now' \in Nat
<1>1. seen'[d][d] = [seen[d][d] EXCEPT !.main = new] /\ seen[d][d] \in Files
  BY DEF Wrote, Typed
<1>2. seen'[d][d].main = new /\ seen'[d][d].copy = seen[d][d].copy /\ seen'[d][d] \in Files
  BY <1>1 DEF Files
<1>3. \A e, f \in Devices : e # f \/ e # d => seen'[e][f] = seen[e][f]
  BY DEF Wrote, Typed
<1>4. seen' \in [Devices -> [Devices -> Files]]
  BY <1>2, <1>3 DEF Wrote, Typed
<1>5. said' \subseteq Rec
  BY DEF Wrote, ToSet, Typed
<1> QED BY <1>2, <1>3, <1>4, <1>5 DEF log, Wrote, Typed

LEMMA JoinWrites ==
    ASSUME Typed, NEW d \in Devices, NEW m \in Members, Join(d, m)
    PROVE  /\ Wrote(d, JoinLog(m, keys + 1, now)) /\ JoinLog(m, keys + 1, now) \in Seq(Rec)
           /\ Len(JoinLog(m, keys + 1, now)) = 2
           /\ JoinLog(m, keys + 1, now)[1] = Rec6("add", m, "member", keys + 1, now, 1)
           /\ JoinLog(m, keys + 1, now)[2] = Rec6("revoke", m, "invite", keys + 1, now, 2)
<1>1. keys + 1 \in Nat /\ now \in Nat
  BY DEF Typed
<1> QED BY <1>1, JoinLogIs DEF Join, Writes, Wrote

LEMMA RevokeWrites ==
    ASSUME Typed, NEW d \in Devices, NEW m \in Members, RevokeMember(d, m)
    PROVE  \E new \in Seq(Rec) : Wrote(d, new)
<1> DEFINE old == log(d) \o seen[d][d].copy
           r == Rec6("revoke", m, "member", config[d], now, NextSeq(old))
<1>1. old \in Seq(Rec) /\ NextSeq(old) \in Nat
  <2>1. log(d) \in Seq(Rec) /\ seen[d][d].copy \in Seq(Rec)
    BY DEF Typed, Files, log
  <2>2. old \in Seq(Rec)
    BY <2>1, ConcatProperties
  <2> QED BY <2>2, NextSeqType
<1>2. r \in Rec
  BY <1>1, Rec6Type DEF Typed
<1>3. Append(old, r) \in Seq(Rec)
  <2> HIDE DEF old, r
  <2> QED BY <1>1, <1>2, AppendProperties
<1>4. Wrote(d, Append(old, r))
  BY AppendIs DEF RevokeMember, Writes, Wrote, ReadLogCopies, log
<1> QED BY <1>3, <1>4

LEMMA SubSeqTyped ==
    ASSUME NEW s \in Seq(Rec), NEW n \in 1..Len(s)
    PROVE  /\ SubSeq(s, 1, n) \in Seq(Rec) /\ Len(SubSeq(s, 1, n)) = n
           /\ \A i \in 1..n : SubSeq(s, 1, n)[i] = s[i]
<1>1. Len(s) \in Nat
  BY LenProperties
<1> QED BY <1>1, SubSeqProperties

\* What the sync client brings d is what e has, what d had, or the beginning of it.
Brings(d, e, f) ==
    /\ seen' = [seen EXCEPT ![d][e] = f]
    /\ f.main \in {seen[d][e].main, log(e)}
    /\ f.copy \in {seen[d][e].copy, seen[e][e].copy, seen[d][e].main} \/ Begins(f.copy, log(e))
    /\ d = e => OwnCopies

LEMMA SyncBrings ==
    ASSUME Typed, NEW d \in Devices, NEW e \in Devices, Sync(d, e) \/ SyncKeepsCopy(d, e)
    PROVE  \E f \in Files : Brings(d, e, f)
<1>0. seen[d][e] \in Files /\ seen[e][e] \in Files /\ seen[d][d] \in Files
  BY DEF Typed
<1>1. CASE Sync(d, e)
  <2> DEFINE f == [main |-> seen[e][e].main,
                   copy |-> IF seen[e][e].copy = <<>> THEN seen[d][e].copy ELSE seen[e][e].copy]
  <2>1. f \in Files
    BY <1>0 DEF Files
  <2> DEFINE s1 == [seen EXCEPT ![d][e].main = seen[e][e].main]
  <2>2. seen' = [s1 EXCEPT ![d][e].copy = IF seen[e][e].copy = <<>> THEN s1[d][e].copy ELSE seen[e][e].copy]
    BY <1>1 DEF Sync
  <2>3. s1 = [seen EXCEPT ![d][e] = [seen[d][e] EXCEPT !.main = seen[e][e].main]]
    BY DEF Typed
  <2>4. /\ s1[d][e] = [seen[d][e] EXCEPT !.main = seen[e][e].main]
        /\ s1[d][e].copy = seen[d][e].copy /\ DOMAIN s1 = Devices /\ DOMAIN s1[d] = Devices
    BY <1>0, <2>3 DEF Typed, Files
  <2> HIDE DEF s1
  <2>5. [s1[d][e] EXCEPT !.copy = IF seen[e][e].copy = <<>> THEN s1[d][e].copy ELSE seen[e][e].copy] = f
    BY <1>0, <2>4 DEF Files
  <2>6. seen' = [s1 EXCEPT ![d][e] = f]
    BY <2>2, <2>4, <2>5
  <2> HIDE DEF f
  <2>7. seen' = [seen EXCEPT ![d][e] = f]
    BY <2>3, <2>6 DEF Typed
  <2>8. d # e
    BY <1>1 DEF Sync
  <2>9. f.main = log(e) /\ f.copy \in {seen[d][e].copy, seen[e][e].copy}
    BY DEF f, log
  <2> QED BY <2>1, <2>7, <2>8, <2>9 DEF Brings
<1>2. CASE SyncKeepsCopy(d, e)
  <2>1. CASE d = e
    <3>1. PICK n \in 1..Len(seen[d][d].main) : seen' = [seen EXCEPT ![d][d].copy = SubSeq(seen[d][d].main, 1, n)]
      BY <1>2, <2>1 DEF SyncKeepsCopy
    <3>2. SubSeq(seen[d][d].main, 1, n) \in Seq(Rec)
      BY <1>0, SubSeqTyped DEF Files
    <3> DEFINE f == [seen[d][d] EXCEPT !.copy = SubSeq(seen[d][d].main, 1, n)]
    <3>3. f \in Files
      BY <1>0, <3>2 DEF Files
    <3>4. seen' = [seen EXCEPT ![d][e] = f]
      BY <2>1, <3>1 DEF Typed
    <3>5. f.main = seen[d][d].main /\ f.copy = SubSeq(seen[d][d].main, 1, n)
      BY <1>0 DEF Files
    <3>6. Begins(f.copy, log(d))
      <4>1. seen[d][d].main \in Seq(Rec) /\ Len(seen[d][d].main) \in Nat
        BY <1>0, LenProperties DEF Files
      <4>2. /\ Len(SubSeq(seen[d][d].main, 1, n)) = n
            /\ \A i \in 1..n : SubSeq(seen[d][d].main, 1, n)[i] = seen[d][d].main[i]
        BY <4>1, SubSeqTyped
      <4> HIDE DEF f
      <4> QED BY <3>5, <4>1, <4>2 DEF Begins, log
    <3>7. OwnCopies
      BY <1>2, <2>1, Zenon DEF SyncKeepsCopy
    <3> HIDE DEF f
    <3> QED BY <2>1, <3>3, <3>4, <3>5, <3>6, <3>7 DEF Brings
  <2>2. CASE d # e
    <3> DEFINE f == [main |-> seen[e][e].main, copy |-> seen[d][e].main]
    <3>1. f \in Files /\ f.main = log(e) /\ f.copy = seen[d][e].main
      BY <1>0 DEF Files, log
    <3>2. seen' = [seen EXCEPT ![d][e] = f]
      BY <1>2, <2>2 DEF SyncKeepsCopy
    <3> HIDE DEF f
    <3> QED BY <2>2, <3>1, <3>2 DEF Brings
  <2> QED BY <2>1, <2>2
<1> QED BY <1>1, <1>2

LEMMA NextTyped == ASSUME Typed, [Next]_vars PROVE Typed'
<1>1. ASSUME NEW d \in Devices, NEW m \in Members, Invite(d, m) PROVE Typed'
  BY <1>1 DEF Invite, Typed
<1>2. ASSUME NEW d \in Devices, NEW m \in Members, Join(d, m) PROVE Typed'
  <2>1. config' \in [Devices -> Nat] /\ keys' \in Nat /\ slots' = slots
    BY <1>2 DEF Join, Typed
  <2> QED BY <1>2, <2>1, JoinWrites, WroteSees DEF Typed
<1>3. ASSUME NEW d \in Devices, NEW m \in Members, RevokeMember(d, m) PROVE Typed'
  <2>1. config' = config /\ keys' = keys /\ slots' = slots
    BY <1>3 DEF RevokeMember
  <2> QED BY <1>3, <2>1, RevokeWrites, WroteSees DEF Typed
<1>4. ASSUME NEW d \in Devices, NEW e \in Devices, Sync(d, e) \/ SyncKeepsCopy(d, e) PROVE Typed'
  <2>1. PICK f \in Files : Brings(d, e, f)
    BY <1>4, SyncBrings
  <2>2. seen' \in [Devices -> [Devices -> Files]]
    BY <2>1 DEF Brings, Typed
  <2> QED BY <1>4, <2>2 DEF Sync, SyncKeepsCopy, Typed
<1>5. CASE UNCHANGED vars
  BY <1>5 DEF vars, Typed
<1> QED BY <1>1, <1>2, <1>3, <1>4, <1>5 DEF Next

(***************************************************************************)
(* The logs.                                                               *)
(***************************************************************************)
LEMMA InitLogs == Init => Logs /\ Numbered
<1> SUFFICES ASSUME Init PROVE Logs /\ Numbered
  OBVIOUS
<1> DEFINE r == Rec6("add", Founder, "member", 1, 1, 1)
<1>1. /\ seen = [d \in Devices |-> [e \in Devices |->
                    IF d = Owner /\ e = Owner THEN [NoLog EXCEPT !.main = <<r>>] ELSE NoLog]]
      /\ said = ToSet(<<r>>)
      /\ config = [d \in Devices |-> IF d = Owner THEN 1 ELSE 0] /\ keys = 1 /\ now = 2
  BY InitLog DEF Init
<1>2. r.op = "add" /\ r.member = Founder /\ r.by = 1 /\ r.ts = 1 /\ r.seq = 1
  BY DEF Rec6
<1> HIDE DEF r
<1>3. /\ log(Owner) = <<r>> /\ Owner \in Devices
      /\ \A d \in Devices : d # Owner => log(d) = <<>>
      /\ \A d, e \in Devices : /\ seen[d][e].copy = <<>>
                               /\ seen[d][e].main = <<>> \/ (d = Owner /\ e = Owner)
  BY <1>1, TeamAssumption DEF log, NoLog
<1>4. Len(<<r>>) = 1 /\ <<r>>[1] = r /\ Len(<<>>) = 0 /\ <<r>> # <<>>
  OBVIOUS
<1>5. \A d \in Devices : Begun(d) /\ GoesOn(d) /\ OwnKey(d)
  <2>1. Begun(Owner) /\ OwnKey(Owner)
    BY <1>1, <1>2, <1>3, <1>4 DEF Begun, OwnKey
  <2>2. GoesOn(Owner)
    BY <1>1, <1>2, <1>3, <1>4 DEF GoesOn
  <2>3. \A d \in Devices : d # Owner => Begun(d) /\ GoesOn(d) /\ OwnKey(d)
    BY <1>1, <1>3, <1>4 DEF Begun, GoesOn, OwnKey
  <2> QED BY <2>1, <2>2, <2>3
<1>6. KeysApart /\ SeenBegins
  BY <1>3, <1>4 DEF KeysApart, SeenBegins, Begins, log
<1>7. SaidIsLogged
  BY <1>1, <1>3, <1>4 DEF SaidIsLogged, ToSet
<1>8. Numbered
  BY <1>2, <1>3, <1>4 DEF Numbered
<1> QED BY <1>5, <1>6, <1>7, <1>8 DEF Logs

LEMMA BeginsTransitive == \A r, s, t : Len(r) \in Nat /\ Len(s) \in Nat /\ Begins(r, s) /\ Begins(s, t) /\ Len(t) \in Nat => Begins(r, t)
BY DEF Begins

\* A log that goes on, signed with its own key, keeps all of the invariant.
LEMMA LogsGrow ==
    ASSUME Typed, Logs, NEW d \in Devices, NEW new \in Seq(Rec), Wrote(d, new),
           Begins(log(d), new), keys' \in Nat, keys <= keys',
           \A e \in Devices : e # d => config'[e] = config[e],
           Begun(d)', GoesOn(d)', OwnKey(d)',
           \A e \in Devices : e # d /\ log(e) # <<>> => log(e)[1].by # new[1].by
    PROVE  Logs'
<1>1. /\ log(d)' = new
      /\ \A e \in Devices : e # d => log(e)' = log(e)
      /\ \A e, f \in Devices : e # f \/ e # d => seen'[e][f] = seen[e][f]
      /\ seen'[d][d].copy = seen[d][d].copy
  BY WroteSees
<1>2. /\ now \in Nat /\ now' = now + 1 /\ keys \in Nat
      /\ \A e \in Devices : log(e) \in Seq(Rec)
  BY DEF Typed, Files, Wrote, log
<1>3. \A e \in Devices : Len(log(e)) \in Nat /\ \A i \in 1..Len(log(e)) : log(e)[i] \in Rec
  BY <1>2, LenProperties, ElementOfSeq
<1>4. \A e \in Devices : log(e) # <<>> => 1 \in 1..Len(log(e))
  BY <1>2, <1>3, EmptySeq
<1>5. \A e \in Devices : e # d => Begun(e)' /\ GoesOn(e)' /\ OwnKey(e)'
  <2> SUFFICES ASSUME NEW e \in Devices, e # d PROVE Begun(e)' /\ GoesOn(e)' /\ OwnKey(e)'
    OBVIOUS
  <2>1. log(e)' = log(e) /\ config'[e] = config[e] /\ Begun(e) /\ GoesOn(e) /\ OwnKey(e)
    BY <1>1 DEF Logs
  <2>2. \A i \in 1..Len(log(e)) : log(e)[i].by \in Nat /\ log(e)[i].ts \in Nat
    BY <1>3 DEF Rec
  <2>3. Begun(e)'
    BY <1>2, <1>4, <2>1, <2>2 DEF Begun
  <2>4. GoesOn(e)'
    BY <1>2, <2>1, <2>2 DEF GoesOn
  <2> QED BY <2>1, <2>3, <2>4 DEF OwnKey
<1>6. KeysApart'
  BY <1>1 DEF Logs, KeysApart
<1>7. Len(new) \in Nat
  BY LenProperties
<1>8. SeenBegins'
  <2> SUFFICES ASSUME NEW a \in Devices, NEW e \in Devices
               PROVE  Begins(seen'[a][e].main, log(e)') /\ Begins(seen'[a][e].copy, log(e)')
    BY DEF SeenBegins
  <2>1. Begins(seen[a][e].main, log(e)) /\ Begins(seen[a][e].copy, log(e))
    BY DEF Logs, SeenBegins
  <2>2. Len(seen[a][e].main) \in Nat /\ Len(seen[a][e].copy) \in Nat
    <3>1. seen[a][e] \in Files
      BY DEF Typed
    <3>2. seen[a][e].main \in Seq(Rec) /\ seen[a][e].copy \in Seq(Rec)
      BY <3>1 DEF Files
    <3> QED BY <3>2, LenProperties
  <2>3. Begins(seen[a][e].main, log(e)') /\ Begins(seen[a][e].copy, log(e)')
    BY <1>1, <1>3, <1>7, <2>1, <2>2, BeginsTransitive
  <2>4. CASE a = d /\ e = d
    <3>1. seen'[d][d].main = log(d)'
      BY DEF log
    <3>2. Begins(new, new)
      BY <1>7 DEF Begins
    <3> QED BY <1>1, <2>3, <2>4, <3>1, <3>2
  <2>5. CASE ~(a = d /\ e = d)
    BY <1>1, <2>3, <2>5
  <2> QED BY <2>4, <2>5
<1>9. SaidIsLogged'
  <2>1. \A r : r \in said' <=> r \in said \/ \E i \in 1..Len(new) : r = new[i]
    BY <1>7 DEF Wrote, ToSet
  <2>2. \A r : (\E i \in 1..Len(log(d)) : r = log(d)[i]) => \E i \in 1..Len(new) : r = new[i]
    BY <1>3, <1>7 DEF Begins
  <2>3. \A r : r \in said <=> \E e \in Devices : \E i \in 1..Len(log(e)) : r = log(e)[i]
    BY DEF Logs, SaidIsLogged
  <2>4. ASSUME NEW r PROVE r \in said' <=> \E e \in Devices : \E i \in 1..Len(log(e)') : r = log(e)'[i]
    <3>1. ASSUME r \in said' PROVE \E e \in Devices : \E i \in 1..Len(log(e)') : r = log(e)'[i]
      <4>1. CASE \E i \in 1..Len(new) : r = new[i]
        BY <1>1, <4>1
      <4>2. CASE r \in said
        <5>1. PICK e \in Devices : \E i \in 1..Len(log(e)) : r = log(e)[i]
          BY <2>3, <4>2
        <5>2. CASE e = d
          <6>1. \E i \in 1..Len(new) : r = new[i]
            BY <2>2, <5>1, <5>2
          <6> QED BY <1>1, <6>1
        <5>3. CASE e # d
          BY <1>1, <5>1, <5>3
        <5> QED BY <5>2, <5>3
      <4> QED BY <2>1, <3>1, <4>1, <4>2
    <3>2. ASSUME NEW e \in Devices, NEW i \in 1..Len(log(e)'), r = log(e)'[i] PROVE r \in said'
      <4>1. CASE e = d
        BY <1>1, <2>1, <3>2, <4>1
      <4>2. CASE e # d
        BY <1>1, <2>1, <2>3, <3>2, <4>2
      <4> QED BY <4>1, <4>2
    <3> QED BY <3>1, <3>2
  <2> QED BY <2>4 DEF SaidIsLogged
<1> QED BY <1>5, <1>6, <1>8, <1>9 DEF Logs

LEMMA JoinLogs ==
    ASSUME ~Rejoins, Typed, Logs, NEW d \in Devices, NEW m \in Members, Join(d, m)
    PROVE  log(d) = <<>> /\ Logs'
<1> DEFINE new == JoinLog(m, keys + 1, now)
<1>1. /\ Wrote(d, new) /\ new \in Seq(Rec) /\ Len(new) = 2
      /\ new[1] = Rec6("add", m, "member", keys + 1, now, 1)
      /\ new[2] = Rec6("revoke", m, "invite", keys + 1, now, 2)
  BY JoinWrites
<1>2. /\ m \in slots /\ m \notin ConsumedInvites(AllRecords(d))
      /\ \A k \in DOMAIN log(d) : log(d)[k].member = m
      /\ keys' = keys + 1
  BY DEF Join, log
<1>3. m # Founder /\ now \in Nat /\ keys \in Nat /\ log(d) \in Seq(Rec)
      /\ seen[d][d].copy \in Seq(Rec)
  BY <1>2, TeamAssumption DEF Typed, Files, log
<1>4. ASSUME log(d) # <<>> PROVE FALSE
  <2>1. Len(log(d)) \in Nat /\ DOMAIN log(d) = 1..Len(log(d)) /\ 1 \in DOMAIN log(d)
    BY <1>3, <1>4, LenProperties, EmptySeq
  <2>2. log(d)[1].member = m
    BY <1>2, <2>1
  <2>3. Len(log(d)) >= 2 /\ Mark(log(d)[2], m)
    BY <1>3, <1>4, <2>2 DEF Logs, Begun
  <2>4. log(d)[2] \in AllRecords(d)
    <3>1. (log(d) \o seen[d][d].copy)[2] = log(d)[2] /\ 2 \in DOMAIN (log(d) \o seen[d][d].copy)
      BY <1>3, <2>1, <2>3, ConcatProperties, LenProperties
    <3>2. log(d)[2] \in ToSet(log(d) \o seen[d][d].copy)
      BY <3>1 DEF ToSet
    <3> QED BY <3>2 DEF AllRecords, ReadLogCopies, log
  <2> QED BY <1>2, <2>3, <2>4 DEF ConsumedInvites, Mark
<1>5. log(d)' = new
  BY <1>1, WroteSees
<1> HIDE DEF new
<1>6. \A i \in 1..Len(new) : i = 1 \/ i = 2
  BY <1>1
<1>7. new # <<>>
  BY <1>1
<1>8. Begins(log(d), new)
  BY <1>1, <1>4 DEF Begins
<1>0. /\ new[1].op = "add" /\ new[1].by = keys + 1 /\ new[1].member = m /\ new[1].seq = 1 /\ new[1].ts = now
      /\ new[2].op = "revoke" /\ new[2].by = keys + 1 /\ new[2].member = m /\ new[2].scope = "invite"
      /\ new[2].seq = 2 /\ new[2].ts = now
  BY <1>1 DEF Rec6
<1>9. Begun(d)'
  <2>1. keys' = keys + 1
    BY <1>2
  <2>2. new[1].by <= keys'
    BY <1>0, <1>3, <2>1
  <2>3. new[1].op = "add" /\ Len(new) >= 2
    BY <1>0, <1>1
  <2>4. log(d)'[1].op = "add" /\ log(d)'[1].by <= keys' /\ Len(log(d)') >= 2
    BY <1>5, <2>2, <2>3
  <2>5. Mark(log(d)[2], log(d)[1].member)'
    BY <1>0, <1>5 DEF Mark
  <2> QED BY <2>4, <2>5 DEF Begun
<1>10. GoesOn(d)'
  <2> SUFFICES ASSUME NEW i \in 1..Len(new)
               PROVE  /\ new[i].by = new[1].by
                      /\ new[i].op = "add" \/ new[i].seq = 1 => new[i] = new[1]
                      /\ new[i].seq >= 1 /\ new[i].ts < now'
    BY <1>5 DEF GoesOn
  <2>1. now' = now + 1
    BY <1>1 DEF Wrote
  <2> QED BY <1>0, <1>3, <1>6, <2>1
<1>11. OwnKey(d)' /\ \A e \in Devices : e # d => config'[e] = config[e]
  <2>1. config' = [config EXCEPT ![d] = keys + 1] \/ config' = config
    BY DEF Join
  <2>2. config[d] # 0 => FALSE
    BY <1>4 DEF Logs, OwnKey
  <2>3. new[1].by = keys + 1
    BY <1>1 DEF Rec6
  <2> QED BY <1>5, <1>7, <2>1, <2>2, <2>3 DEF OwnKey, Typed
<1>12. \A e \in Devices : e # d /\ log(e) # <<>> => log(e)[1].by # new[1].by
  <2> SUFFICES ASSUME NEW e \in Devices, log(e) # <<>> PROVE log(e)[1].by # new[1].by
    OBVIOUS
  <2>1. log(e)[1].by <= keys /\ log(e)[1].by \in Nat
    <3>1. log(e) \in Seq(Rec)
      BY DEF Typed, Files, log
    <3>2. log(e)[1] \in Rec
      BY <3>1, EmptySeq, LenProperties, ElementOfSeq
    <3> QED BY <3>2 DEF Logs, Begun, Rec
  <2> QED BY <1>1, <1>3, <2>1 DEF Rec6
<1> QED BY <1>1, <1>2, <1>3, <1>4, <1>8, <1>9, <1>10, <1>11, <1>12, LogsGrow

LEMMA RevokeLogs ==
    ASSUME Typed, Logs, NEW d \in Devices, NEW m \in Members, RevokeMember(d, m)
    PROVE  Logs'
<1>1. PICK new \in Seq(Rec) : Wrote(d, new)
  BY RevokeWrites
<1>2. log(d) # <<>> /\ config[d] = log(d)[1].by /\ Begun(d) /\ GoesOn(d)
  BY DEF RevokeMember, Logs, OwnKey
<1>3. Begins(seen[d][d].copy, log(d))
  BY DEF Logs, SeenBegins
<1>4. log(d)' = new
  BY <1>1, WroteSees
<1>5. PICK n \in Nat :
             /\ Len(log(d)') = Len(log(d)) + Len(seen[d][d].copy) + 1
             /\ log(d)'[Len(log(d)')] = Rec6("revoke", m, "member", config[d], now, n)
             /\ \A i \in 1..Len(log(d)) : log(d)'[i] = log(d)[i]
             /\ \A i \in 1..Len(log(d)') : i = Len(log(d)') \/ \E k \in 1..Len(log(d)) : log(d)'[i] = log(d)[k]
             /\ n = log(d)'[Len(log(d)') - 1].seq + 1
  BY <1>2, <1>3, RevokeLogIs
<1>6. log(d) \in Seq(Rec) /\ seen[d][d].copy \in Seq(Rec) /\ now \in Nat /\ keys \in Nat /\ now' = now + 1
  BY <1>1 DEF Typed, Files, log, Wrote
<1>7. Len(log(d)) \in Nat /\ Len(log(d)) > 0 /\ Len(seen[d][d].copy) \in Nat
      /\ \A i \in 1..Len(log(d)) : log(d)[i] \in Rec
  BY <1>2, <1>6, LenProperties, EmptySeq, ElementOfSeq
<1>8. Len(new) \in Nat /\ Len(new) > Len(log(d)) /\ new # <<>>
      /\ (\A i \in 1..Len(log(d)) : new[i] = log(d)[i])
      /\ \A i \in 1..Len(new) : i = Len(new) \/ \E k \in 1..Len(log(d)) : new[i] = log(d)[k]
  BY <1>4, <1>5, <1>7
<1>9. new[1] = log(d)[1]
  BY <1>7, <1>8
<1>10. n >= 2
  <2>1. Len(new) - 1 \in 1..Len(new) /\ Len(new) - 1 # Len(new)
    BY <1>7, <1>8
  <2>2. PICK k \in 1..Len(log(d)) : new[Len(new) - 1] = log(d)[k]
    BY <1>8, <2>1
  <2>3. log(d)[k].seq >= 1 /\ log(d)[k].seq \in Nat
    BY <1>2, <1>7 DEF GoesOn, Rec
  <2>4. n = log(d)[k].seq + 1
    BY <1>4, <1>5, <2>2
  <2> QED BY <2>3, <2>4
<1>11. Begun(d)'
  BY <1>1, <1>2, <1>4, <1>7, <1>8, <1>9 DEF Begun, Mark, RevokeMember
<1>12. GoesOn(d)'
  <2> SUFFICES ASSUME NEW i \in 1..Len(new)
               PROVE  /\ new[i].by = new[1].by
                      /\ new[i].op = "add" \/ new[i].seq = 1 => new[i] = new[1]
                      /\ new[i].seq >= 1 /\ new[i].ts < now'
    BY <1>4 DEF GoesOn
  <2>1. CASE i = Len(new)
    <3>1. new[i] = Rec6("revoke", m, "member", config[d], now, n)
      BY <1>4, <1>5, <2>1
    <3> QED BY <1>2, <1>6, <1>9, <1>10, <3>1 DEF Rec6
  <2>2. CASE i # Len(new)
    <3>1. PICK k \in 1..Len(log(d)) : new[i] = log(d)[k]
      BY <1>8, <2>2
    <3>2. log(d)[k].ts \in Nat
      BY <1>7 DEF Rec
    <3> QED BY <1>2, <1>6, <1>9, <3>1, <3>2 DEF GoesOn
  <2> QED BY <2>1, <2>2
<1>13. OwnKey(d)' /\ config' = config /\ keys' = keys
  BY <1>2, <1>4, <1>8, <1>9 DEF OwnKey, RevokeMember
<1>14. Begins(log(d), new)
  BY <1>7, <1>8 DEF Begins
<1>15. \A e \in Devices : e # d /\ log(e) # <<>> => log(e)[1].by # new[1].by
  BY <1>2, <1>9 DEF Logs, KeysApart
<1> QED BY <1>1, <1>6, <1>11, <1>12, <1>13, <1>14, <1>15, LogsGrow

LEMMA SyncLogs ==
    ASSUME Typed, Logs, NEW d \in Devices, NEW e \in Devices, Sync(d, e) \/ SyncKeepsCopy(d, e)
    PROVE  Logs'
<1>1. PICK f \in Files : Brings(d, e, f)
  BY SyncBrings
<1>2. /\ seen'[d][e] = f
      /\ \A a, b \in Devices : a # d \/ b # e => seen'[a][b] = seen[a][b]
  BY <1>1 DEF Brings, Typed
<1>3. \A a \in Devices : log(a)' = log(a)
  BY <1>1, <1>2 DEF Brings, log
<1>4. UNCHANGED <<config, keys, now, said>>
  BY DEF Sync, SyncKeepsCopy
<1>5. \A a \in Devices : Begun(a)' /\ GoesOn(a)' /\ OwnKey(a)'
  <2>1. \A a \in Devices : Begun(a)'
    BY <1>3, <1>4 DEF Logs, Begun
  <2>2. \A a \in Devices : GoesOn(a)'
    BY <1>3, <1>4 DEF Logs, GoesOn
  <2>3. \A a \in Devices : OwnKey(a)'
    BY <1>3, <1>4 DEF Logs, OwnKey
  <2> QED BY <2>1, <2>2, <2>3
<1>6. KeysApart'
  BY <1>3 DEF Logs, KeysApart
<1>7. SeenBegins'
  <2>1. Begins(f.main, log(e)) /\ Begins(f.copy, log(e))
    <3>1. Len(log(e)) \in Nat
      <4>1. seen[e][e] \in Files
        BY DEF Typed
      <4>2. log(e) \in Seq(Rec)
        BY <4>1 DEF Files, log
      <4> QED BY <4>2, LenProperties
    <3>2. Begins(log(e), log(e))
      BY <3>1 DEF Begins
    <3> QED BY <1>1, <3>2 DEF Brings, Logs, SeenBegins
  <2> QED BY <1>2, <1>3, <2>1 DEF Logs, SeenBegins
<1>8. SaidIsLogged'
  BY <1>3, <1>4 DEF Logs, SaidIsLogged
<1> QED BY <1>5, <1>6, <1>7, <1>8 DEF Logs

LEMMA NextLogs == ASSUME ~Rejoins, Typed, Logs, [Next]_vars PROVE Logs'
<1>1. ASSUME NEW d \in Devices, NEW m \in Members, Invite(d, m) PROVE Logs'
  BY <1>1 DEF Invite, Logs, Begun, GoesOn, OwnKey, KeysApart, SeenBegins, SaidIsLogged, log
<1>2. ASSUME NEW d \in Devices, NEW m \in Members, Join(d, m) PROVE Logs'
  BY <1>2, JoinLogs
<1>3. ASSUME NEW d \in Devices, NEW m \in Members, RevokeMember(d, m) PROVE Logs'
  BY <1>3, RevokeLogs
<1>4. ASSUME NEW d \in Devices, NEW e \in Devices, Sync(d, e) \/ SyncKeepsCopy(d, e) PROVE Logs'
  BY <1>4, SyncLogs
<1>5. CASE UNCHANGED vars
  BY <1>5 DEF vars, Logs, Begun, GoesOn, OwnKey, KeysApart, SeenBegins, SaidIsLogged, log
<1> QED BY <1>1, <1>2, <1>3, <1>4, <1>5 DEF Next

LEMMA AlwaysLogs == ASSUME ~Rejoins PROVE Spec => [](Typed /\ Logs)
<1>1. Typed /\ Logs /\ [Next]_vars => Typed' /\ Logs'
  BY NextTyped, NextLogs
<1> QED BY <1>1, InitTyped, InitLogs, PTL DEF Spec

(***************************************************************************)
(* Signers: without a second joining of one device.                        *)
(***************************************************************************)

\* A key adds one member, in one record.
LEMMA AddsOfOne ==
    ASSUME Typed, Logs, NEW r \in said, NEW q \in said, r.op = "add", q.op = "add", r.by = q.by
    PROVE  r = q
<1>1. PICK d \in Devices : \E i \in 1..Len(log(d)) : r = log(d)[i]
  BY DEF Logs, SaidIsLogged
<1>2. PICK e \in Devices : \E i \in 1..Len(log(e)) : q = log(e)[i]
  BY DEF Logs, SaidIsLogged
<1>3. r = log(d)[1] /\ q = log(e)[1]
  BY <1>1, <1>2 DEF Logs, GoesOn
<1>4. log(d) # <<>> /\ log(e) # <<>>
  BY <1>1, <1>2
<1>5. d = e
  BY <1>3, <1>4 DEF Logs, KeysApart
<1> QED BY <1>3, <1>5

\* What d sees of the log of e, if anything, begins with the record that adds its member.
LEMMA SeenOf ==
    ASSUME Typed, Logs, NEW d \in Devices, NEW e \in Devices
    PROVE  LET records == ReadLogCopies(seen[d][e])
           IN  /\ records \in Seq(Rec)
               /\ \A i \in 1..Len(records) : \E k \in 1..Len(log(e)) : records[i] = log(e)[k]
               /\ records # <<>> => records[1] = log(e)[1] /\ 1 \in 1..Len(log(e))
<1> DEFINE x == seen[d][e].main
           y == seen[d][e].copy
           records == x \o y
<1>1. x \in Seq(Rec) /\ y \in Seq(Rec) /\ log(e) \in Seq(Rec)
  <2>1. seen[d][e] \in Files /\ seen[e][e] \in Files
    BY DEF Typed
  <2> QED BY <2>1 DEF Files, log
<1>2. Len(x) \in Nat /\ Len(y) \in Nat /\ Len(log(e)) \in Nat /\ Begins(x, log(e)) /\ Begins(y, log(e))
  BY <1>1, LenProperties DEF Logs, SeenBegins
<1> HIDE DEF x, y
<1>3. /\ records \in Seq(Rec) /\ Len(records) = Len(x) + Len(y)
      /\ \A i \in 1..Len(records) : records[i] = IF i <= Len(x) THEN x[i] ELSE y[i - Len(x)]
  BY <1>1, ConcatProperties
<1> HIDE DEF records
<1>4. ASSUME NEW i \in 1..Len(records) PROVE \E k \in 1..Len(log(e)) : records[i] = log(e)[k]
  <2>1. CASE i <= Len(x)
    BY <1>2, <1>3, <2>1 DEF Begins
  <2>2. CASE i > Len(x)
    <3>1. i - Len(x) \in 1..Len(y) /\ i - Len(x) \in 1..Len(log(e))
      BY <1>2, <1>3, <2>2 DEF Begins
    <3>2. records[i] = y[i - Len(x)]
      BY <1>2, <1>3, <2>2
    <3>3. y[i - Len(x)] = log(e)[i - Len(x)]
      BY <1>2, <3>1 DEF Begins
    <3> QED BY <3>1, <3>2, <3>3
  <2> QED BY <1>2, <2>1, <2>2
<1>5. ASSUME records # <<>> PROVE records[1] = log(e)[1] /\ 1 \in 1..Len(log(e))
  <2>1. 1 \in 1..Len(records)
    BY <1>2, <1>3, <1>5, EmptySeq
  <2>2. CASE 1 <= Len(x)
    BY <1>2, <1>3, <2>1, <2>2 DEF Begins
  <2>3. CASE Len(x) = 0
    BY <1>2, <1>3, <2>1, <2>3 DEF Begins
  <2> QED BY <1>2, <2>2, <2>3
<1> QED BY <1>3, <1>4, <1>5 DEF ReadLogCopies, records, x, y

LEMMA ViewIsSaid ==
    ASSUME Typed, Logs, NEW d \in Devices
    PROVE  View(d) \subseteq said
<1> SUFFICES ASSUME NEW e \in Devices, NEW r \in Firsts(ReadLogCopies(seen[d][e])) PROVE r \in said
  BY DEF View
<1> DEFINE records == ReadLogCopies(seen[d][e])
<1>1. records \in Seq(Rec) /\ \A i \in 1..Len(records) : \E k \in 1..Len(log(e)) : records[i] = log(e)[k]
  BY SeenOf
<1> HIDE DEF records
<1>2. PICK i \in DOMAIN records : r = records[i]
  BY DEF Firsts, records
<1>3. i \in 1..Len(records)
  BY <1>1, <1>2, LenProperties
<1> QED BY <1>1, <1>2, <1>3 DEF Logs, SaidIsLogged

\* A record that is seen, in whatever order the logs arrive, is of a signer whose key the
\* reader has: the key comes with the first record of the log, and neither later records nor
\* the removal of the member takes it away, only the key of a second one who is seen to have
\* joined by the same invitation.
THEOREM SignersStayKnown == ASSUME ~Rejoins PROVE Spec => []SignersAreKnown
<1>1. ASSUME Typed, Logs, NEW d \in Devices, NEW e \in Devices, NEW r \in ToSet(ReadLogCopies(seen[d][e]))
      PROVE  r.by \in PubKeys(View(d)) \/ UsedTwice(View(d), r.by)
  <2> DEFINE records == ReadLogCopies(seen[d][e])
             first == log(e)[1]
             adds == Adds(View(d), first.member)
  <2>1. /\ records \in Seq(Rec)
        /\ \A i \in 1..Len(records) : \E k \in 1..Len(log(e)) : records[i] = log(e)[k]
        /\ records # <<>> => records[1] = first /\ 1 \in 1..Len(log(e))
    BY <1>1, SeenOf
  <2> HIDE DEF records
  <2>2. PICK i \in 1..Len(records) : r = records[i]
    <3>1. DOMAIN records = 1..Len(records)
      BY <2>1, LenProperties
    <3> QED BY <1>1, <3>1 DEF ToSet, records
  <2>3. Len(records) \in Nat /\ 1 \in 1..Len(records) /\ records # <<>> /\ DOMAIN records = 1..Len(records)
    BY <2>1, <2>2, LenProperties
  <2>4. first = records[1] /\ log(e) # <<>>
    BY <2>1, <2>3
  <2>5. r.by = first.by
    BY <1>1, <2>1, <2>2 DEF Logs, GoesOn
  <2>6. first \in View(d)
    <3>1. first \in Firsts(records)
      BY <2>3, <2>4 DEF Firsts
    <3> QED BY <3>1 DEF View, records
  <2>7. first \in said /\ first.op = "add" /\ first.member \in Members
    <3>1. first \in said
      BY <1>1, <2>6, ViewIsSaid
    <3> QED BY <1>1, <2>4, <3>1 DEF Logs, Begun, Typed, Rec
  <2> HIDE DEF first
  <2>8. first \in adds
    BY <2>6, <2>7 DEF Adds
  <2>9. CASE \E q \in adds : q.by # first.by
    BY <2>5, <2>7, <2>8, <2>9 DEF UsedTwice
  <2>10. CASE \A q \in adds : q.by = first.by
    <3>1. \A q \in adds : q \in said /\ q.op = "add"
      BY <1>1, ViewIsSaid DEF Adds
    <3>2. \A q \in adds : q = first
      BY <1>1, <2>7, <2>10, <3>1, AddsOfOne
    <3>3. adds = {first}
      BY <2>8, <3>2
    <3>4. Latest(adds) = first
      BY <3>3 DEF Latest
    <3> QED BY <2>5, <2>7, <3>3, <3>4 DEF PubKeys
  <2> QED BY <2>9, <2>10
<1>2. Typed /\ Logs => SignersAreKnown
  BY <1>1 DEF SignersAreKnown
<1> QED BY <1>2, AlwaysLogs, PTL

(***************************************************************************)
(* Removals: moreover without copies beside the log a device writes.       *)
(***************************************************************************)
LEMMA NextNumbered ==
    ASSUME ~Rejoins, ~OwnCopies, Typed, Logs, Numbered, [Next]_vars
    PROVE  Numbered'
<1>1. ASSUME NEW d \in Devices, NEW new \in Seq(Rec), Wrote(d, new), \A i \in 1..Len(new) : new[i].seq = i
      PROVE  Numbered'
  BY <1>1, WroteSees DEF Numbered
<1>2. ASSUME NEW d \in Devices, NEW m \in Members, Join(d, m) PROVE Numbered'
  <2> DEFINE new == JoinLog(m, keys + 1, now)
  <2>1. /\ Wrote(d, new) /\ new \in Seq(Rec) /\ Len(new) = 2
        /\ new[1].seq = 1 /\ new[2].seq = 2
    <3>1. /\ Wrote(d, new) /\ new \in Seq(Rec) /\ Len(new) = 2
          /\ new[1] = Rec6("add", m, "member", keys + 1, now, 1)
          /\ new[2] = Rec6("revoke", m, "invite", keys + 1, now, 2)
      BY <1>2, JoinWrites
    <3> QED BY <3>1 DEF Rec6
  <2> HIDE DEF new
  <2>2. \A i \in 1..Len(new) : new[i].seq = i
    BY <2>1
  <2> QED BY <1>1, <2>1, <2>2
<1>3. ASSUME NEW d \in Devices, NEW m \in Members, RevokeMember(d, m) PROVE Numbered'
  <2>1. PICK new \in Seq(Rec) : Wrote(d, new)
    BY <1>3, RevokeWrites
  <2>2. log(d)' = new
    BY <2>1, WroteSees
  <2>3. log(d) # <<>> /\ Begins(seen[d][d].copy, log(d)) /\ seen[d][d].copy = <<>>
    BY <1>3 DEF RevokeMember, Logs, OwnKey, SeenBegins, Numbered
  <2>4. PICK n \in Nat :
             /\ Len(log(d)') = Len(log(d)) + Len(seen[d][d].copy) + 1
             /\ log(d)'[Len(log(d)')] = Rec6("revoke", m, "member", config[d], now, n)
             /\ \A i \in 1..Len(log(d)) : log(d)'[i] = log(d)[i]
             /\ n = log(d)'[Len(log(d)') - 1].seq + 1
    BY <1>3, <2>3, RevokeLogIs
  <2>5. Len(log(d)) \in Nat /\ Len(log(d)) > 0
    <3>1. log(d) \in Seq(Rec)
      BY DEF Typed, Files, log
    <3> QED BY <2>3, <3>1, LenProperties, EmptySeq
  <2>6. Len(new) = Len(log(d)) + 1
    BY <2>2, <2>3, <2>4, <2>5
  <2>7. \A i \in 1..Len(log(d)) : new[i].seq = i
    BY <2>2, <2>4 DEF Numbered
  <2>8. new[Len(new)].seq = n /\ n = new[Len(log(d))].seq + 1
    <3>1. new[Len(new)] = Rec6("revoke", m, "member", config[d], now, n)
      BY <2>2, <2>4
    <3>2. n = new[Len(new) - 1].seq + 1 /\ Len(new) - 1 = Len(log(d))
      BY <2>2, <2>4, <2>5, <2>6
    <3> QED BY <3>1, <3>2 DEF Rec6
  <2>9. n = Len(new)
    BY <2>5, <2>6, <2>7, <2>8
  <2>10. \A i \in 1..Len(new) : new[i].seq = i
    BY <2>5, <2>6, <2>7, <2>8, <2>9
  <2> QED BY <1>1, <2>1, <2>10
<1>4. ASSUME NEW d \in Devices, NEW e \in Devices, Sync(d, e) \/ SyncKeepsCopy(d, e) PROVE Numbered'
  <2>1. PICK f \in Files : Brings(d, e, f)
    BY <1>4, SyncBrings
  <2>2. d # e
    BY <2>1 DEF Brings
  <2>3. \A a \in Devices : seen'[a][a] = seen[a][a]
    BY <2>1, <2>2 DEF Brings, Typed
  <2> QED BY <2>3 DEF Numbered, log
<1>5. ASSUME NEW d \in Devices, NEW m \in Members, Invite(d, m) PROVE Numbered'
  BY <1>5 DEF Invite, Numbered, log
<1>6. CASE UNCHANGED vars
  BY <1>6 DEF vars, Numbered, log
<1> QED BY <1>2, <1>3, <1>4, <1>5, <1>6 DEF Next

\* The signer and the number tell which record it is.
LEMMA OneOfANumber ==
    ASSUME Typed, Logs, Numbered, NEW r \in said, NEW q \in said, SameNumber(r, q)
    PROVE  r = q
<1>1. PICK d \in Devices : \E i \in 1..Len(log(d)) : r = log(d)[i]
  BY DEF Logs, SaidIsLogged
<1>2. PICK e \in Devices : \E i \in 1..Len(log(e)) : q = log(e)[i]
  BY DEF Logs, SaidIsLogged
<1>3. log(d) # <<>> /\ log(e) # <<>> /\ r.by = log(d)[1].by /\ q.by = log(e)[1].by
  BY <1>1, <1>2 DEF Logs, GoesOn
<1>4. d = e
  BY <1>3 DEF Logs, KeysApart, SameNumber
<1> QED BY <1>1, <1>2, <1>4 DEF Numbered, SameNumber

\* A set of natural numbers with a bound has a greatest, one without a bound still a least one.
LEMMA LeastNumber ==
    ASSUME NEW T, T \subseteq Nat, T # {}
    PROVE  \E x \in T : \A y \in T : x <= y
<1> DEFINE R == OpToRel(<, Nat)
<1>1. R = {ss \in Nat \X Nat : ss[1] < ss[2]}
  BY DEF OpToRel
<1>2. IsWellFoundedOn(R, Nat)
  BY NatLessThanWellFounded
<1> HIDE DEF R
<1>3. PICK x \in T : \A y \in T : ~ (<<y, x>> \in R)
  BY <1>2, WFMin
<1>4. \A y \in T : y \in Nat /\ x \in Nat /\ ~(y < x)
  BY <1>1, <1>3
<1>5. \A y \in T : x <= y
  BY <1>4
<1> QED BY <1>5

LEMMA GreatestNumber ==
    ASSUME NEW T, T \subseteq Nat, T # {}, NEW b \in Nat, \A x \in T : x <= b
    PROVE  \E x \in T : \A y \in T : y <= x
<1> DEFINE U == {b - x : x \in T}
<1>1. U \subseteq Nat /\ U # {}
  <2>1. \A x \in T : x \in Nat /\ x <= b
    OBVIOUS
  <2>2. \A x \in T : b - x \in Nat
    BY <2>1
  <2> QED BY <2>2
<1> HIDE DEF U
<1>2. PICK u \in U : \A y \in U : u <= y
  BY <1>1, LeastNumber
<1>3. PICK x \in T : u = b - x
  BY <1>2 DEF U
<1>4. \A y \in T : b - y \in U
  BY DEF U
<1> QED BY <1>2, <1>3, <1>4

\* What is merged holds every record that is seen.
LEMMA ViewHoldsAll ==
    ASSUME Typed, Logs, Numbered, NEW d \in Devices, NEW r, Sees(d, r)
    PROVE  r \in View(d)
<1>1. PICK e \in Devices : r \in ToSet(ReadLogCopies(seen[d][e]))
  BY DEF Sees
<1> DEFINE records == ReadLogCopies(seen[d][e])
<1>2. records \in Seq(Rec) /\ \A i \in 1..Len(records) : \E k \in 1..Len(log(e)) : records[i] = log(e)[k]
  BY SeenOf
<1>3. r \in ToSet(records)
  BY <1>1
<1> HIDE DEF records
<1>4. DOMAIN records = 1..Len(records) /\ Len(records) \in Nat /\ \A i \in 1..Len(records) : records[i] \in said
  BY <1>2, LenProperties DEF Logs, SaidIsLogged
<1> DEFINE T == {i \in 1..Len(records) : records[i] = r}
<1>5. T # {} /\ T \subseteq Nat
  BY <1>3, <1>4 DEF ToSet
<1>6. PICK i \in T : \A k \in T : i <= k
  <2> HIDE DEF T
  <2> QED BY <1>5, LeastNumber
<1>7. \A k \in 1..(i - 1) : ~SameNumber(records[k], records[i])
  <2> SUFFICES ASSUME NEW k \in 1..(i - 1), SameNumber(records[k], records[i]) PROVE FALSE
    OBVIOUS
  <2>1. k \in 1..Len(records) /\ k < i
    BY <1>4
  <2>2. records[k] = records[i]
    BY <1>4, <2>1, OneOfANumber
  <2>3. k \in T
    BY <2>1, <2>2
  <2> QED BY <1>6, <2>1, <2>3
<1>8. r \in Firsts(records)
  BY <1>4, <1>7 DEF Firsts
<1> QED BY <1>8 DEF View, records

\* The merged records have an order, and so every choice of them has a latest.
LEMMA LatestIs ==
    ASSUME Typed, Logs, Numbered, NEW A, A \subseteq said, A # {}
    PROVE  Latest(A) \in A /\ \A q \in A \ {Latest(A)} : Earlier(q, Latest(A))
<1>0. \A q \in A : q \in Rec /\ q.ts \in Nat /\ q.by \in Nat /\ q.seq \in Nat
  BY DEF Typed, Rec
<1>1. \A q \in A : \E d \in Devices : log(d) # <<>> /\ q.by = log(d)[1].by /\ q.ts <= now /\ q.by <= keys
  <2> SUFFICES ASSUME NEW q \in A
               PROVE  \E d \in Devices : log(d) # <<>> /\ q.by = log(d)[1].by /\ q.ts <= now /\ q.by <= keys
    OBVIOUS
  <2>1. PICK d \in Devices : \E i \in 1..Len(log(d)) : q = log(d)[i]
    BY DEF Logs, SaidIsLogged
  <2>2. log(d) # <<>> /\ q.by = log(d)[1].by /\ q.ts < now
    BY <2>1 DEF Logs, GoesOn
  <2> QED BY <1>0, <2>2 DEF Logs, Begun, Typed
<1>2. PICK t \in {q.ts : q \in A} : \A q \in A : q.ts <= t
  <2> DEFINE T == {q.ts : q \in A}
  <2>1. T \subseteq Nat /\ T # {} /\ now \in Nat /\ \A x \in T : x <= now
    BY <1>0, <1>1 DEF Typed
  <2>2. \A q \in A : q.ts \in T
    OBVIOUS
  <2> HIDE DEF T
  <2>3. \E x \in T : \A y \in T : y <= x
    BY <2>1, GreatestNumber
  <2> QED BY <2>2, <2>3 DEF T
<1>3. PICK k \in {q.by : q \in {q \in A : q.ts = t}} : \A q \in A : q.ts = t => q.by <= k
  <2> DEFINE T == {q.by : q \in {q \in A : q.ts = t}}
  <2>1. T \subseteq Nat /\ T # {} /\ keys \in Nat /\ \A x \in T : x <= keys
    BY <1>0, <1>1, <1>2 DEF Typed
  <2>2. \A q \in A : q.ts = t => q.by \in T
    OBVIOUS
  <2> HIDE DEF T
  <2>3. \E x \in T : \A y \in T : y <= x
    BY <2>1, GreatestNumber
  <2> QED BY <2>2, <2>3 DEF T
<1>4. PICK n \in {q.seq : q \in {q \in A : q.ts = t /\ q.by = k}} : \A q \in A : q.ts = t /\ q.by = k => q.seq <= n
  <2> DEFINE T == {q.seq : q \in {q \in A : q.ts = t /\ q.by = k}}
  <2>1. PICK d \in Devices : log(d) # <<>> /\ log(d)[1].by = k
    BY <1>1, <1>3
  <2>2. Len(log(d)) \in Nat
    <3>1. log(d) \in Seq(Rec)
      BY DEF Typed, Files, log
    <3> QED BY <3>1, LenProperties
  <2>3. ASSUME NEW q \in A, q.by = k PROVE q.seq <= Len(log(d))
    <3>1. PICK e \in Devices : \E i \in 1..Len(log(e)) : q = log(e)[i]
      BY DEF Logs, SaidIsLogged
    <3>2. log(e) # <<>> /\ log(e)[1].by = k
      BY <2>3, <3>1 DEF Logs, GoesOn
    <3>3. e = d
      BY <2>1, <3>2 DEF Logs, KeysApart
    <3> QED BY <2>2, <3>1, <3>3 DEF Numbered
  <2>4. T \subseteq Nat /\ T # {} /\ \A x \in T : x <= Len(log(d))
    BY <1>0, <1>3, <2>3
  <2>5. \A q \in A : q.ts = t /\ q.by = k => q.seq \in T
    OBVIOUS
  <2> HIDE DEF T
  <2>6. \E x \in T : \A y \in T : y <= x
    BY <2>2, <2>4, GreatestNumber
  <2> QED BY <2>5, <2>6 DEF T
<1>5. PICK r \in A : r.ts = t /\ r.by = k /\ r.seq = n
  BY <1>4
<1>6. \A q \in A \ {r} : Earlier(q, r)
  <2> SUFFICES ASSUME NEW q \in A, q # r PROVE Earlier(q, r)
    OBVIOUS
  <2>1. ~SameNumber(q, r)
    BY OneOfANumber
  <2>2. q.ts < r.ts \/ (q.ts = r.ts /\ (q.by < r.by \/ (q.by = r.by /\ q.seq < r.seq)))
    BY <1>0, <1>2, <1>3, <1>4, <1>5, <2>1 DEF SameNumber
  <2> QED BY <2>2 DEF Earlier, BySigner
<1> QED BY <1>5, <1>6 DEF Latest

LEMMA AlwaysNumbered == ASSUME ~Rejoins, ~OwnCopies PROVE Spec => [](Typed /\ Logs /\ Numbered)
<1>1. Typed /\ Logs /\ Numbered /\ [Next]_vars => Typed' /\ Logs' /\ Numbered'
  BY NextTyped, NextLogs, NextNumbered
<1> QED BY <1>1, InitTyped, InitLogs, PTL DEF Spec

\* Whoever sees the removal of a member, in whichever log or copy, has the member as removed,
\* unless the member has joined later: the records of all logs are put in the order of time,
\* and merging drops none that is not there a second time.
THEOREM RemovalsAreObeyed == ASSUME ~Rejoins, ~OwnCopies PROVE Spec => []RevocationHolds
<1>1. ASSUME Typed, Logs, Numbered, NEW d \in Devices, NEW m \in Members, NEW r \in Removals(m),
             Sees(d, r), \A a \in AddsOf(m) : a.ts < r.ts
      PROVE  Status(View(d), m) = "revoked"
  <2> DEFINE A == About(View(d), m)
             q == Latest(A)
  <2>1. A \subseteq said /\ \A x \in A : x \in Rec /\ x.scope = "member" /\ x.member = m
    BY <1>1, ViewIsSaid DEF About, Typed
  <2>2. r \in A
    BY <1>1, ViewHoldsAll DEF About, Removals
  <2> HIDE DEF A
  <2>3. q \in A /\ \A x \in A \ {q} : Earlier(x, q)
    BY <1>1, <2>1, <2>2, LatestIs
  <2> HIDE DEF q
  <2>4. q.op = "revoke"
    <3>1. CASE q = r
      BY <3>1 DEF Removals
    <3>2. CASE q # r
      <4>1. r.ts <= q.ts /\ r.ts \in Nat /\ q.ts \in Nat
        BY <2>1, <2>2, <2>3, <3>2 DEF Earlier, Rec
      <4>2. q \notin AddsOf(m)
        BY <1>1, <4>1
      <4> QED BY <2>1, <2>3, <4>2 DEF AddsOf, Rec
    <3> QED BY <3>1, <3>2
  <2> QED BY <2>2, <2>4 DEF Status, A, q
<1>2. Typed /\ Logs /\ Numbered => RevocationHolds
  BY <1>1 DEF RevocationHolds
<1> QED BY <1>2, AlwaysNumbered, PTL
===========================================================================
