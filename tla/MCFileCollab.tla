---------------------------- MODULE MCFileCollab ----------------------------
(* Values of the constants of FileCollab. *)
EXTENDS FileCollab

CONSTANTS a, b, v1, v2, v3

FirstOfA == {[version |-> v1, author |-> a]}
=============================================================================
