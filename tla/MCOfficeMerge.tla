---------------------------- MODULE MCOfficeMerge ----------------------------
(* Documents and sheets for OfficeMerge. *)
EXTENDS OfficeMerge, TLC

CONSTANTS x, y, z, w, plain, bold

Plain(texts) == [text : texts, format : {plain}]
Styled == [text : {x}, format : {plain, bold}]
Row(n) == TupleOf({y, z}, n)

SomeDocs == BoundedSeq(Plain({x, y, z}), 3) \union BoundedSeq(Plain({w, x, y, z}), 2) \union BoundedSeq(Styled, 2)
SomeSheets == {<<>>} \union UNION {TupleOf(Row(2), n) : n \in 1..2} \union TupleOf(Row(1), 2)

Texts == Permutations({y, z})
=============================================================================
