---------------------------- MODULE MCUpdateEvents ----------------------------
(* An instance of UpdateEvents for TLC. *)
EXTENDS UpdateEvents
=============================================================================
