------------------------------ MODULE UpdateJob ------------------------------
(***************************************************************************)
(* What the update coordinator promises about a job to the desktop that    *)
(* asks it (enum Phase and the Snapshot of crates/lxb-updates/lib.rs):     *)
(* jobs come one after the other, a job is checked, reviewed and at most   *)
(* once installed, native tools are asked for by the running job only and  *)
(* each step of them once, an outcome that was told is not taken back, and *)
(* work that was cut short is told as interrupted, never as anything else. *)
(*                                                                         *)
(* What it does not promise is that an end that was told is the end of the *)
(* writing: an order given to the root worker cannot be taken back, so one *)
(* tool, and no more, may start after the job it is of was told ended.     *)
(***************************************************************************)
EXTENDS Naturals

VARIABLES
  job,    \* the job the desktop is told about
  phase,  \* its phase
  asked,  \* the native tools that were asked for, each naming its job
  due,    \* the one of them that the root worker has still to start, if any
  ran     \* those of them that were started

tool == <<asked, due, ran>>
told == <<job, phase, tool>>

UnderWay == {"Checking", "Running", "Restarting"}
Ended    == {"Completed", "Partial", "Failed"}

Init == job = 0 /\ phase = "Idle" /\ asked = {} /\ due = {} /\ ran = {}

\* A new check replaces whatever is not under way.
Check ==
  /\ phase \notin UnderWay
  /\ job' > job
  /\ phase' = "Checking"
  /\ UNCHANGED tool

CheckEnds ==
  /\ phase = "Checking"
  /\ phase' \in {"Reviewing", "Cancelled", "Failed"}
  /\ UNCHANGED <<job, tool>>

Install ==
  /\ phase = "Reviewing"
  /\ phase' = "Running"
  /\ UNCHANGED <<job, tool>>

\* One native tool, for the running job, never a second time: started at once,
\* or by the root worker, which has one order at a time.
AskTool ==
  /\ phase = "Running"
  /\ \E t \in asked' :
       /\ t.job = job /\ t \notin asked /\ asked' = asked \union {t}
       /\ \/ ran' = ran \union {t} /\ UNCHANGED due
          \/ due = {} /\ due' = {t} /\ UNCHANGED ran
  /\ UNCHANGED <<job, phase>>

\* The worker starts what it was asked for, whatever was told in between.
StartDue ==
  /\ due # {}
  /\ ran' = ran \union due
  /\ due' = {}
  /\ UNCHANGED <<job, phase, asked>>

DropDue ==
  /\ due' = {}
  /\ UNCHANGED <<job, phase, asked, ran>>

InstallEnds ==
  /\ phase = "Running"
  /\ phase' \in Ended
  /\ UNCHANGED <<job, tool>>

Restart ==
  /\ phase \notin UnderWay
  /\ phase' = "Restarting"
  /\ UNCHANGED <<job, tool>>

RestartFails ==
  /\ phase = "Restarting"
  /\ phase' = "Partial"
  /\ UNCHANGED <<job, tool>>

\* The coordinator is gone, and the root worker with it if the machine is.  A
\* check's conclusion is told a moment before it is saved, so it too can be
\* cut short.
Interrupt ==
  /\ phase \in UnderWay \union {"Reviewing", "Cancelled"}
  /\ phase' = "Interrupted"
  /\ due' \in {due, {}}
  /\ UNCHANGED <<job, asked, ran>>

\* A review does not outlive the program that made it.
DropReview ==
  /\ phase = "Reviewing"
  /\ phase' = "Idle"
  /\ UNCHANGED <<job, tool>>

\* The machine restarted while an update was staged.
MachineRestarted ==
  /\ phase' = "AwaitingVerification"
  /\ due' \in {due, {}}
  /\ UNCHANGED <<job, asked, ran>>

Next ==
  \/ Check \/ CheckEnds \/ Install \/ AskTool \/ StartDue \/ DropDue
  \/ InstallEnds \/ Restart \/ RestartFails \/ Interrupt \/ DropReview
  \/ MachineRestarted

Spec == Init /\ [][Next]_told
=============================================================================
