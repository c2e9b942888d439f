---------------------------- MODULE MCTeamMembers ----------------------------
(* Values of the constants of TeamMembers. *)
EXTENDS TeamMembers

CONSTANTS o, a, b, m0, m1, m2
=============================================================================
