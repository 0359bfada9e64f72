----------------------------- MODULE MCStayAwake -----------------------------
(***************************************************************************)
(* An instance of StayAwake for TLC: two programs that ask the shell       *)
(* themselves, and one request of the desktop portal.                      *)
(***************************************************************************)
EXTENDS StayAwake

CONSTANTS p1, p2, r1

MCProgram == {p1, p2}
MCHandle == {r1}
=============================================================================
