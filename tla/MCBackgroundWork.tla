-------------------------- MODULE MCBackgroundWork --------------------------
(* BackgroundWork for TLC; its configurations name the tasks. *)
EXTENDS BackgroundWork
===========================================================================
