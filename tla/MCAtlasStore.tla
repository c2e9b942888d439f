---------------------------- MODULE MCAtlasStore ----------------------------
(* Values of the constants of AtlasStore.                                  *)
EXTENDS AtlasStore, TLC

CONSTANTS p1, p2, a, b

ProcsAndFiles == Permutations(Procs) \union Permutations(Files)
=============================================================================
