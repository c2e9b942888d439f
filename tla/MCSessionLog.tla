---------------------------- MODULE MCSessionLog ----------------------------
(* SessionLog for TLC: the files the first process may find. *)
EXTENDS SessionLog

Lines(entries) == [exists |-> TRUE, lines |-> entries, end |-> "closed"]
Old(id, seq, type) == [Blank EXCEPT !.id = id - 10, !.seq = seq, !.type = type, !.turn = -9]

(* A log of an earlier version, with one of two results in its batch.      *)
PartialBatch == Lines(<<
    [Old(0, 0, "transcript") EXCEPT !.turn = 0],
    Old(1, 1, "user"),
    [Old(2, 2, "assistant") EXCEPT !.uses = {-8} \X {1, 2}],
    [Old(3, 3, "results") EXCEPT !.uses = {-8} \X {2}]>>)

(* A log of another tool: no transcript line, no numbers.                  *)
FromElsewhere == Lines(<<
    Old(1, 0, "user"),
    [Old(2, 0, "assistant") EXCEPT !.uses = {-8} \X {1}],
    [Old(3, 0, "results") EXCEPT !.uses = {-8} \X {1}]>>)

(* A session of its own that was left after one round. *)
OneRound == Lines(<<
    [Old(0, 0, "transcript") EXCEPT !.turn = 0],
    Old(1, 1, "user"),
    [Old(2, 2, "assistant") EXCEPT !.uses = {-8} \X {1}],
    [Old(3, 3, "results") EXCEPT !.uses = {-8} \X {1}]>>)

LongSession == {OneRound}
NewSession == {NoFile}
AnySession == {NoFile, PartialBatch, FromElsewhere}
=============================================================================
