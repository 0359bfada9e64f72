---------------------------- MODULE RootAuthority ----------------------------
(***************************************************************************)
(* What one authorization of an update job gives to the root worker        *)
(* (crates/lxb-updates, authorization.rs): the root lock and the reviewed  *)
(* steps, each to be tried at most once and one after the other, until the *)
(* authority is given up for good, which never happens under a native tool *)
(* that is still writing.                                                  *)
(***************************************************************************)
CONSTANTS Granted, NoStep

VARIABLES
  held,     \* the worker has the grant and the root lock
  over,     \* the authorization was refused or has ended
  running,  \* the step whose native tool is alive, or NoStep
  tried     \* the steps that were tried

authority == <<held, over, running, tried>>

Init == held = FALSE /\ over = FALSE /\ running = NoStep /\ tried = {}

Take ==
  /\ ~held /\ ~over
  /\ held' = TRUE
  /\ UNCHANGED <<over, running, tried>>

\* The tool of a step starts, or fails to.
Try(s) ==
  /\ held
  /\ running = NoStep
  /\ s \in Granted \ tried
  /\ tried' = tried \union {s}
  /\ running' \in {s, NoStep}
  /\ UNCHANGED <<held, over>>

ToolExits ==
  /\ running # NoStep
  /\ running' = NoStep
  /\ UNCHANGED <<held, over, tried>>

End ==
  /\ running = NoStep
  /\ held' = FALSE
  /\ over' = TRUE
  /\ UNCHANGED <<running, tried>>

Next == Take \/ (\E s \in Granted : Try(s)) \/ ToolExits \/ End

Spec == Init /\ [][Next]_authority
=============================================================================
