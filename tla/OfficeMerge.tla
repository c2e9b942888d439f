---------------------------- MODULE OfficeMerge ----------------------------
(***************************************************************************)
(* The three-way merge of shared/office-merge.mjs: two people have changed *)
(* the same document or sheet.  What both kept is found by the names of    *)
(* the units (fingerprints of their content), what lies between is paired  *)
(* by position where the numbers agree, and each unit of the base is then  *)
(* decided by the two sides.  A merge without conflicts is written as a    *)
(* list of operations on what is on disk.                                  *)
(*                                                                         *)
(* A document is a sequence of blocks, a sheet a sequence of rows of equal *)
(* width.  The reader that names the units and the writer that carries out *)
(* the operations are not in the repository; both are marked external.     *)
(***************************************************************************)
EXTENDS Integers, Sequences, SequencesExt, FiniteSetsExt

CONSTANTS Docs,      \* the documents and sheets people may have before them:
          Sheets,    \* sequences of [text, format], and of rows of values
          null       \* the value of a cell that is not there

\* A version is a sequence of blocks, or of rows of equal width.
ASSUME VersionsAssumption ==
    /\ \A doc \in Docs : doc \in Seq(ToSet(doc))
    /\ \A sheet \in Sheets :
          /\ sheet \in Seq(ToSet(sheet))
          /\ \A row \in ToSet(sheet) : row \in Seq(ToSet(row)) /\ Len(row) = Len(sheet[1])

VARIABLES kind,                  \* "docx" or "xlsx"
          base, mine, theirs,    \* the three versions as they were read
          at,                    \* read, conflict, merged, written
          result,                \* what the merge returned: units and conflicts
          disk                   \* the document or sheet on disk once it is written
vars == <<kind, base, mine, theirs, at, result, disk>>

(***************************************************************************)
(* Reading (external): a unit is named by its content and by how often     *)
(* this content has occurred before it.                                    *)
(***************************************************************************)
Names(s) == [i \in DOMAIN s |-> <<s[i], Cardinality({j \in 1..i : s[j] = s[i]})>>]
Blocks(doc) ==
    LET names == Names([i \in DOMAIN doc |-> doc[i].text])
    IN  [i \in DOMAIN doc |-> [id |-> names[i], text |-> doc[i].text, format |-> doc[i].format]]
Columns(sheet) ==
    IF sheet = <<>> THEN <<>>
    ELSE [c \in DOMAIN sheet[1] |-> [i \in DOMAIN sheet |-> sheet[i][c]]]

\* sheetRowUnits: a row carries the names of all columns.
RowUnits(sheet) ==
    [i \in DOMAIN sheet |-> [id |-> Names(sheet)[i], values |-> sheet[i],
                             colIds |-> Names(Columns(sheet))]]

(***************************************************************************)
(* lcsPairs: a longest common subsequence, as pairs of places.             *)
(***************************************************************************)
LcsPairs(a, b) ==
    LET n == Len(a)
        m == Len(b)
        Past(p) == p[1] > n \/ p[2] > m
        Down(p) == <<p[1] + 1, p[2]>>
        Right(p) == <<p[1], p[2] + 1>>
        common[p \in (1..n + 1) \X (1..m + 1)] ==
            IF Past(p) THEN 0
            ELSE IF a[p[1]] = b[p[2]] THEN common[Down(Right(p))] + 1
            ELSE Max({common[Down(p)], common[Right(p)]})
        walk[p \in (1..n + 1) \X (1..m + 1)] ==
            IF Past(p) THEN {}
            ELSE IF a[p[1]] = b[p[2]] THEN {p} \union walk[Down(Right(p))]
            ELSE IF common[Down(p)] >= common[Right(p)] THEN walk[Down(p)]
            ELSE walk[Right(p)]
    IN  walk[<<1, 1>>]

(***************************************************************************)
(* alignToBase: the place in other of each unit of the base (0 for none),  *)
(* and what other has inserted behind each unit (0 is the head).           *)
(***************************************************************************)
Alignment(pairs, baseLen, otherLen) ==
    LET Before(i) == Max({0} \union {p[1] : p \in {p \in pairs : p[1] < i}})
        Partner(i) == IF i = 0 THEN 0 ELSE (CHOOSE p \in pairs : p[1] = i)[2]
        After(i) == CHOOSE p \in pairs \union {<<baseLen + 1, otherLen + 1>>} :
                        /\ p[1] > i
                        /\ \A q \in pairs : q[1] > i => q[1] >= p[1]
        Even(i) == After(i)[1] - i = After(i)[2] - Partner(i)
        anchors == {0} \union {p[1] : p \in pairs}
    IN  [counterpart |->
            [i \in 1..baseLen |->
                IF i \in anchors THEN Partner(i)
                ELSE IF Even(Before(i)) THEN Partner(Before(i)) + i - Before(i)
                ELSE 0],
         inserts |->
            [i \in 0..baseLen |->
                IF i \in anchors /\ ~Even(i) THEN [k \in 1..After(i)[2] - Partner(i) - 1 |-> Partner(i) + k]
                ELSE <<>>]]
AlignToBase(baseKeys, otherKeys) ==
    Alignment(LcsPairs(baseKeys, otherKeys), Len(baseKeys), Len(otherKeys))

(***************************************************************************)
(* threeWayMerge, with mergeUnit[<<b, m, t>>] for a unit both have changed. *)
(***************************************************************************)
Ids(units) == [i \in DOMAIN units |-> units[i].id]
Content(u) == [f \in DOMAIN u \ {"id"} |-> u[f]]
Fails == [ok |-> FALSE]

InsertedTwice(mm, tt) == mm \o tt    \* a fault
Inserted(mm, tt) ==
    IF mm # <<>> /\ Len(mm) = Len(tt) /\ \A i \in DOMAIN mm : Content(mm[i]) = Content(tt[i])
    THEN mm ELSE mm \o tt

Put(units) == [units |-> units, conflicts |-> <<>>]
Clash(bb, mm, tt) == [units |-> <<>>, conflicts |-> <<[base |-> bb, mine |-> mm, theirs |-> tt]>>]

Both(bb, mm, tt, merged) == IF merged.ok THEN Put(<<merged.unit>>) ELSE Clash(bb, mm, tt)

\* One unit of the base and what the sides have in its place, each <<>> or one
\* unit; merged is what MergeUnit makes of the three.
DeletionWins(bb, mm, tt, merged) ==    \* a fault
    IF mm = <<>> \/ tt = <<>> THEN Put(<<>>)
    ELSE IF tt = bb \/ tt = mm THEN Put(mm)
    ELSE IF mm = bb THEN Put(tt)
    ELSE Both(bb, mm, tt, merged)
Decide(bb, mm, tt, merged) ==
    IF mm = <<>> /\ tt = <<>> THEN Put(<<>>)
    ELSE IF mm = <<>> \/ tt = <<>> THEN IF mm \o tt = bb THEN Put(<<>>) ELSE Clash(bb, mm, tt)
    ELSE IF tt = bb \/ tt = mm THEN Put(mm)
    ELSE IF mm = bb THEN Put(tt)
    ELSE Both(bb, mm, tt, merged)

\* A and B: where mine and theirs have the units of the base.
Combined(b, m, t, A, B, mergeUnit) ==
    LET Side(units, al, i) == IF al.counterpart[i] = 0 THEN <<>> ELSE <<units[al.counterpart[i]]>>
        Three(bb, mm, tt) == Decide(bb, mm, tt, mergeUnit[<<bb[1], mm[1], tt[1]>>])
        decided == [i \in DOMAIN b |-> Three(<<b[i]>>, Side(m, A, i), Side(t, B, i))]
        Emit(i) == Inserted([k \in DOMAIN A.inserts[i] |-> m[A.inserts[i][k]]],
                            [k \in DOMAIN B.inserts[i] |-> t[B.inserts[i][k]]])
        conflicts == FlattenSeq([i \in DOMAIN b |-> decided[i].conflicts])
    IN  [ok |-> conflicts = <<>>, conflicts |-> conflicts,
         units |-> Emit(0) \o FlattenSeq([i \in DOMAIN b |-> decided[i].units \o Emit(i)])]
ThreeWayMerge(b, m, t, mergeUnit) ==
    Combined(b, m, t, AlignToBase(Ids(b), Ids(m)), AlignToBase(Ids(b), Ids(t)), mergeUnit)

\* mergeDocxBlocks, for blocks of text: the text must agree, the format is merged.
MineWins(b, m, t) ==    \* a fault
    IF m.text # t.text THEN Fails
    ELSE [ok |-> TRUE, unit |-> [b EXCEPT !.text = m.text, !.format = m.format]]
MergeText(b, m, t) ==
    IF m.text # t.text THEN Fails
    ELSE IF t.format \in {b.format, m.format} THEN [ok |-> TRUE, unit |-> [b EXCEPT !.text = m.text, !.format = m.format]]
    ELSE IF m.format = b.format THEN [ok |-> TRUE, unit |-> [b EXCEPT !.text = m.text, !.format = t.format]]
    ELSE Fails
MergeDocxBlocks(b, m, t) ==
    LET mergeUnit == [q \in ToSet(Blocks(b)) \X ToSet(Blocks(m)) \X ToSet(Blocks(t)) |-> MergeText(q[1], q[2], q[3])]
    IN  ThreeWayMerge(Blocks(b), Blocks(m), Blocks(t), mergeUnit)

\* mergeSheetRows: rows, and in a row that both have changed, cells.
Cells(row) == [c \in DOMAIN row.colIds |-> [id |-> row.colIds[c], value |-> row.values[c]]]
Joined(row, r) ==
    IF r.ok THEN [ok |-> TRUE, unit |-> [row EXCEPT !.values = [c \in DOMAIN r.units |-> r.units[c].value]]]
    ELSE Fails
MergeRowUnits(b, m, t) ==
    LET none == [q \in ToSet(Cells(b)) \X ToSet(Cells(m)) \X ToSet(Cells(t)) |-> Fails]
    IN  Joined(b, ThreeWayMerge(Cells(b), Cells(m), Cells(t), none))
MergeSheetRows(b, m, t) ==
    LET mergeUnit == [q \in ToSet(RowUnits(b)) \X ToSet(RowUnits(m)) \X ToSet(RowUnits(t)) |->
                         MergeRowUnits(q[1], q[2], q[3])]
    IN  ThreeWayMerge(RowUnits(b), RowUnits(m), RowUnits(t), mergeUnit)

(***************************************************************************)
(* From the merge to what is on disk: blocksToOps and sheetMergeToOps say  *)
(* how the units there now become those of the merge.  Every operation     *)
(* names a unit as it was when the file was read (Nowhere: the head).      *)
(***************************************************************************)
Nowhere == <<>>
AnchorBaseIndex(counterpart, pos) == Max({0} \union {i \in 1..pos : counterpart[i] # 0})
After(now, al, pos) ==
    LET i == AnchorBaseIndex(al.counterpart, pos) IN IF i = 0 THEN Nowhere ELSE now[i].id

\* The units inserted at one place are sent in reverse: each goes before the last.
InsertionsForward(now, al, places, units) ==    \* a fault
    LET At(pos) == [k \in DOMAIN al.inserts[pos] |->
                       [op |-> "insert", id |-> After(now, al, pos), unit |-> units[al.inserts[pos][k]]]]
    IN  FlattenSeq([k \in DOMAIN places |-> At(places[k])])
Insertions(now, al, places, units) ==
    LET At(pos) == [k \in DOMAIN al.inserts[pos] |->
                       [op |-> "insert", id |-> After(now, al, pos), unit |-> units[al.inserts[pos][k]]]]
    IN  FlattenSeq([k \in DOMAIN places |-> Reverse(At(places[k]))])
Deletions(now, al) ==
    LET gone == SelectSeq([i \in DOMAIN now |-> i], LAMBDA i : al.counterpart[i] = 0)
    IN  [k \in DOMAIN gone |-> [op |-> "delete", id |-> now[gone[k]].id]]
Places(al) ==
    SelectSeq([k \in 1..Len(al.counterpart) + 1 |-> k - 1], LAMBDA pos : al.inserts[pos] # <<>>)

BlocksToOps(now, merged) ==
    LET al == AlignToBase(Ids(now), Ids(merged))
        Update(i) ==
            LET j == al.counterpart[i]
            IN  IF j = 0 THEN <<>>
                ELSE IF now[i] = merged[j] THEN <<>>
                ELSE <<[op |-> "update", id |-> now[i].id, text |-> merged[j].text]>>
    IN  FlattenSeq([i \in DOMAIN now |-> Update(i)])
            \o Insertions(now, al, <<0>> \o Places(al), merged)
            \o Deletions(now, al)

\* A row of the merge has the name of the row now in its place.
SheetMergeToOps(now, merged) ==
    LET placed == [i \in DOMAIN merged |->
                      [id |-> IF i \in DOMAIN now THEN now[i].id ELSE <<"#", i>>, values |-> merged[i].values]]
        al == AlignToBase(Ids(now), Ids(placed))
        Value(row, c) == IF c \in DOMAIN row.values THEN row.values[c] ELSE null
        Update(i, c) ==
            LET j == al.counterpart[i]
            IN  IF j = 0 THEN <<>>
                ELSE IF Value(now[i], c) = Value(placed[j], c) THEN <<>>
                ELSE <<[op |-> "updateCell", id |-> now[i].id, col |-> c, value |-> Value(placed[j], c)]>>
    IN  FlattenSeq([i \in DOMAIN now |-> FlattenSeq([c \in DOMAIN now[i].colIds |-> Update(i, c)])])
            \o Insertions(now, al, Places(al), placed)
            \o Deletions(now, al)

(***************************************************************************)
(* The writer (external) reads the file once and carries out a batch.      *)
(***************************************************************************)
Apply(units, op) ==
    LET i == IF op.id = Nowhere THEN 0 ELSE CHOOSE i \in DOMAIN units : units[i].id = op.id
    IN  CASE op.op = "update"     -> [units EXCEPT ![i].text = op.text]
          [] op.op = "updateCell" -> [units EXCEPT ![i].values[op.col] = op.value]
          [] op.op = "insert"     -> InsertAt(units, i + 1, [op.unit EXCEPT !.id = Nowhere])
          [] op.op = "delete"     -> RemoveAt(units, i)

(***************************************************************************)
(* What the server asks of it: a merge, and the merge written on top of    *)
(* whichever version is on disk.                                           *)
(***************************************************************************)
Units(version) == IF kind = "docx" THEN Blocks(version) ELSE RowUnits(version)
Merged(m, t) == IF kind = "docx" THEN MergeDocxBlocks(base, m, t) ELSE MergeSheetRows(base, m, t)
Nothing == [ok |-> FALSE, conflicts |-> <<>>, units |-> <<>>]

Init ==
    /\ \/ kind = "docx" /\ base \in Docs /\ mine \in Docs /\ theirs \in Docs
       \/ kind = "xlsx" /\ base \in Sheets /\ mine \in Sheets /\ theirs \in Sheets
    /\ at = "read" /\ result = Nothing /\ disk = <<>>

Merge ==
    /\ at = "read"
    /\ result' = Merged(mine, theirs)
    /\ at' = IF result'.ok THEN "merged" ELSE "conflict"
    /\ UNCHANGED <<kind, base, mine, theirs, disk>>

Write(onto) ==
    /\ at = "merged"
    /\ LET now == Units(onto)
           ops == IF kind = "docx" THEN BlocksToOps(now, result.units) ELSE SheetMergeToOps(now, result.units)
       IN  disk' = FoldLeft(Apply, now, ops)
    /\ at' = "written"
    /\ UNCHANGED <<kind, base, mine, theirs, result>>

Next == Merge \/ \E onto \in {base, mine, theirs} : Write(onto)
Spec == Init /\ [][Next]_vars

(***************************************************************************)
(* Properties.                                                             *)
(***************************************************************************)
Merging == at \in {"conflict", "merged"}
Body(units) == [i \in DOMAIN units |->
    IF kind = "docx" THEN <<units[i].text, units[i].format>> ELSE units[i].values]
Said(units) == [i \in DOMAIN units |-> IF kind = "docx" THEN units[i].text ELSE units[i].values]
Words(units) ==    \* the texts of a document, the values of a sheet
    IF kind = "docx" THEN ToSet(Said(units)) ELSE UNION {ToSet(row) : row \in ToSet(Said(units))}
Bags(units) ==     \* units, and cells in them, without their order
    ToBag([i \in DOMAIN units |-> IF kind = "docx" THEN Body(units)[i] ELSE ToBag(units[i].values)])
Ordered(s, t) ==    \* t holds all of s, in its order
    LET Step(found, e) == IF found < Len(s) /\ s[found + 1] = e THEN found + 1 ELSE found
    IN  FoldLeft(Step, 0, t) = Len(s)
AsWide(rows, others) == \A r \in ToSet(rows), o \in ToSet(others) : Len(r.values) = Len(o.values)

(* What one person alone has changed, or both alike, is the merge, and no  *)
(* conflict is reported (threeWayMerge, the alignment with itself).        *)
OneSideStands ==
    Merging =>
        /\ theirs \in {base, mine} => result.ok /\ Body(result.units) = Body(Units(mine))
        /\ mine = base => result.ok /\ Body(result.units) = Body(Units(theirs))

(* Nothing is chosen in silence: a text or value that one side has brought *)
(* in is in the merge, or in a conflict that is reported.                  *)
NothingIsDropped ==
    Merging =>
        LET reported == UNION {Words(c.mine) \union Words(c.theirs) : c \in ToSet(result.conflicts)}
        IN  (Words(Units(mine)) \union Words(Units(theirs))) \ Words(Units(base))
                \subseteq Words(result.units) \union reported

(* Whose side is called mine makes no difference but to the order of what  *)
(* both insert at one place: same conflicts, same units.                   *)
SidesAreAlike ==
    Merging =>
        LET other == Merged(theirs, mine)
            Swapped(c) == [base |-> c.base, mine |-> c.theirs, theirs |-> c.mine]
        IN  /\ other.conflicts = [k \in DOMAIN result.conflicts |-> Swapped(result.conflicts[k])]
            /\ Bags(other.units) = Bags(result.units)

(* T5: edits of different paragraphs merge without a conflict and both     *)
(* stay.  It holds for documents in which no text occurs twice.            *)
EditsApartMerge ==
    Merging /\ kind = "docx" =>
        \A i, j \in DOMAIN base : \A u \in ToSet(mine), v \in ToSet(theirs) :
            /\ i # j /\ IsInjective(Said(base))
            /\ mine = [base EXCEPT ![i] = u] /\ (u = base[i] \/ u.text \notin ToSet(Said(base)))
            /\ theirs = [base EXCEPT ![j] = v] /\ (v = base[j] \/ v.text \notin ToSet(Said(base)))
            => result.ok /\ Said(result.units) = Said([base EXCEPT ![i] = u, ![j] = v])

(* T9: edits of different cells merge without a conflict and both stay.    *)
CellsApartMerge ==
    Merging /\ kind = "xlsx" =>
        \A i, k \in DOMAIN base : \A c \in DOMAIN base[i], d \in DOMAIN base[k] :
            \A u \in Words(Units(mine)), v \in Words(Units(theirs)) :
                /\ <<i, c>> # <<k, d>>
                /\ mine = [base EXCEPT ![i][c] = u]
                /\ theirs = [base EXCEPT ![k][d] = v]
                => result.ok /\ Said(result.units) = [base EXCEPT ![i][c] = u, ![k][d] = v]

(* Writing the merge on top of any of the versions brings all of it to     *)
(* disk, in its order, and leaves nothing there that is not of the merge.  *)
(* It holds for sheets in which nobody has inserted or deleted a column.   *)
WrittenHoldsMerge ==
    at = "written" /\ (kind = "xlsx" => AsWide(result.units, disk)) =>
        /\ Ordered(Said(result.units), Said(disk))
        /\ ToSet(Said(disk)) = ToSet(Said(result.units))

(* ... and no more than it: each insertion is written once, in its place.  *)
WrittenIsTheMerge == at = "written" => Said(disk) = Said(result.units)

=============================================================================
