-------------------------- MODULE ApplicationSleep --------------------------
(***************************************************************************)
(* Stopping an application nobody can see: lxb-compositor/src/sleep.rs,    *)
(* with Close from shell_control.rs and the process tree of teardown.rs.   *)
(*                                                                         *)
(* The compositor handles one event at a time, so every handler is one     *)
(* step; what interleaves with the handlers is the rest of the machine:    *)
(* processes fork and exit, windows come, move and go, the shell says what *)
(* plays and what is hidden, and graces run out.                           *)
(***************************************************************************)
EXTENDS Teardown

CONSTANTS
  Guarded,        \* names of processes the compositor may not signal (EPERM)
  Windowed,       \* the names of processes that open windows (bound)
  Spoken,         \* the names the shell ever speaks of (bound)
  Launched,       \* the names of processes that are started (bound)
  MaxGraces,      \* how many graces run at one time (bound)
  InitialTables   \* what may be running when the model starts

ASSUME SleepAssumption ==
  /\ Windowed \subseteq Name /\ Spoken \subseteq Name /\ Launched \subseteq Name
  /\ MaxGraces \in Nat
  /\ \A start \in InitialTables :
       /\ start.proc \in [AnyPid -> Process \cup {Gone}]
       /\ start.foreign \subseteq Pid
       /\ start.clock \in 1..(MaxStart + 1)

\* The processes of this session that it may end: the others are those of
\* another login, the shell and the compositor.
Ours(t, others) == Alive(t) \ (others \cup Session)

\* What the kernel's table is like: the parent of a process runs or is init,
\* another login's processes and the session itself descend from no process
\* of ours, and a group that one of ours leads has only ours in it.
TableOf(t, others) ==
  /\ Session \cup others \subseteq Alive(t)
  /\ \A p \in Alive(t) : t[p].parent \in Alive(t) \cup {1}
  /\ \A p \in others : t[p].parent \in others \cup {1}
  /\ \A p \in Session : t[p].parent \in others \cup Session \cup {1}
  /\ \A p \in Ours(t, others), q \in Alive(t) :
       t[p].group = p /\ t[q].group = p => q \in Ours(t, others)

\* The order in which processes were started: a process comes after its
\* parent, and a member of a group after the one that leads it.
Ordered(t, order) ==
  \A p, q \in Alive(t) :
     (t[p].parent = q \/ (t[p].group = q /\ t[q].group = q /\ p # q))
        => order[q] < order[p]

ASSUME TableAssumption ==
  \A start \in InitialTables :
     /\ TableOf(start.proc, start.foreign)
     /\ \E order \in [AnyPid -> 0..Cardinality(AnyPid)] :
          Ordered(start.proc, order)
     /\ \A p \in Alive(start.proc) : start.proc[p].started < start.clock

VARIABLES
  proc,       \* the process table
  foreign,    \* the processes another login started
  win,        \* the window of a process: none, nowhere, covered, screen
  unseen,     \* names the shell keeps out of sight
  playing,    \* names the shell says are playing something
  stopped,    \* the processes the kernel holds stopped
  asleep,     \* Sleepers::asleep: what was stopped for the window of a process
  refused,    \* Sleepers::refused
  lastShown,  \* Sleepers::last_shown
  ending,     \* Sleepers::ending
  graces,     \* the SIGKILLs kill_survivors_after_grace still owes
  clock,      \* start time of the next process
  settled,    \* the pass over the windows has run since the last event
  over        \* the session has ended

vars == <<proc, foreign, win, unseen, playing, stopped, asleep, refused,
          lastShown, ending, graces, clock, settled, over>>
sleepers == <<asleep, refused, lastShown, ending>>

Placement == {"none", "nowhere", "covered", "screen"}

TypeOK ==
  /\ proc \in [AnyPid -> Process \cup {Gone}]
  /\ foreign \subseteq Pid
  /\ win \in [Pid -> Placement]
  /\ unseen \subseteq Name /\ playing \subseteq Name
  /\ stopped \subseteq AnyPid
  /\ asleep \in [Pid -> SUBSET Identity]
  /\ refused \subseteq Pid /\ lastShown \subseteq Pid /\ ending \subseteq Pid
  /\ graces \subseteq SUBSET Identity
  /\ clock \in 1..(MaxStart + 1)
  /\ settled \in BOOLEAN /\ over \in BOOLEAN

Init ==
  /\ \E start \in InitialTables :
       proc = start.proc /\ foreign = start.foreign /\ clock = start.clock
  /\ win = [p \in Pid |-> "none"]
  /\ unseen = {} /\ playing = {} /\ stopped = {}
  /\ asleep = [p \in Pid |-> {}]
  /\ refused = {} /\ lastShown = {} /\ ending = {} /\ graces = {}
  /\ settled = TRUE /\ over = FALSE

-----------------------------------------------------------------------------
(* What is on screen, and what is hidden.  The name of a window is that of *)
(* its process; a process that has gone has none. *)

Shown == {p \in Pid : win[p] = "screen" /\ proc[p].name \notin unseen}

\* On a display, not driven out of sight, not playing, and not on screen.
Hidden(music) ==
  {p \in Pid : /\ win[p] \in {"covered", "screen"}
               /\ proc[p].name \notin unseen \cup music} \ Shown

May(p) == proc[p].name \notin Guarded
Signalled(doomed) == {p \in Reached(proc, doomed) : May(p)}

\* Mutant: an application that was asked to end is stopped again.
FreshAgain(music) ==
  {p \in Hidden(music) : asleep[p] = {}}
    \ (IF lastShown = Shown THEN refused ELSE {})

Fresh(music) ==
  {p \in Hidden(music) : asleep[p] = {}}
    \ (ending \cup (IF lastShown = Shown THEN refused ELSE {}))

Stoppable(p) ==
  /\ Sleeping(proc, p) # {}
  /\ {d.pid : d \in Sleeping(proc, p)} \cap Shown = {}
  /\ Signalled(Sleeping(proc, p)) # {}

Woken(keys) == UNION {Signalled(asleep[p]) : p \in keys}

(***************************************************************************)
(* refresh_application_sleep, with what the shell says is playing: wake    *)
(* what is no longer hidden, forget refusals that rest on another screen,  *)
(* and stop what is hidden, is not stopped yet and reaches nothing seen.   *)
(***************************************************************************)
RefreshApplicationSleep(music) ==
  LET hidden == Hidden(music)
      put    == {p \in Fresh(music) : Stoppable(p)}
  IN  /\ stopped' = (stopped \ Woken(Pid \ hidden))
                      \cup UNION {Signalled(Sleeping(proc, p)) : p \in put}
      /\ asleep' = [p \in Pid |-> IF p \in put THEN Sleeping(proc, p)
                                  ELSE IF p \in hidden THEN asleep[p]
                                  ELSE {}]
      /\ refused' = (IF lastShown = Shown THEN refused ELSE {})
                       \cup (Fresh(music) \ put)
      /\ lastShown' = Shown
      /\ UNCHANGED ending

\* One turn of the compositor's loop ends with the pass.
Pass ==
  /\ ~over
  /\ RefreshApplicationSleep(playing)
  /\ settled' = TRUE
  /\ UNCHANGED <<proc, foreign, win, unseen, playing, graces, clock, over>>

\* keep_application_awake: nothing when nothing changed, else the whole rule.
KeepApplicationAwake(name, awake) ==
  /\ ~over
  /\ playing' = IF awake THEN playing \cup {name} ELSE playing \ {name}
  /\ playing' # playing
  /\ RefreshApplicationSleep(playing')
  /\ settled' = TRUE
  /\ UNCHANGED <<proc, foreign, win, unseen, graces, clock, over>>

\* keep_out_of_sight only changes the set: the next pass looks at it.
KeepOutOfSight(name, hidden) ==
  /\ ~over
  /\ unseen' = IF hidden THEN unseen \cup {name} ELSE unseen \ {name}
  /\ unseen' # unseen
  /\ settled' = FALSE
  /\ UNCHANGED <<proc, foreign, win, playing, stopped, sleepers, graces,
                 clock, over>>

\* The shell disconnects: what it exempted is looked at again, under what it
\* hid; then what it hid may be seen again.
ShellGone ==
  /\ ~over
  /\ playing' = {} /\ unseen' = {}
  /\ playing # {} \/ unseen # {}
  /\ IF playing = {} THEN UNCHANGED <<stopped, sleepers>>
                     ELSE RefreshApplicationSleep({})
  /\ settled' = FALSE
  /\ UNCHANGED <<proc, foreign, win, graces, clock, over>>

-----------------------------------------------------------------------------
(* Close, and the end of the session *)

\* Mutant: the application is taken off the list and not continued.
ForgottenAsleep(p) ==
  /\ ending' = ending \cup {p}
  /\ asleep' = [asleep EXCEPT ![p] = {}]
  /\ UNCHANGED <<stopped, refused, lastShown>>

\* wake_this_application: continue it, and never stop it again.
WakeThisApplication(p) ==
  /\ ending' = ending \cup {p}
  /\ asleep' = [asleep EXCEPT ![p] = {}]
  /\ stopped' = stopped \ Signalled(asleep[p])
  /\ UNCHANGED <<refused, lastShown>>

\* kill_window: wake it, then SIGTERM now and SIGKILL when the grace is up;
\* an application that only asking reaches is asked (request_window_close).
KillWindow(p) ==
  /\ ~over /\ win[p] # "none"
  /\ Cardinality(graces) < MaxGraces
  /\ WakeThisApplication(p)
  /\ graces' = graces \cup ({Ending(proc, p)} \ {{}})
  /\ UNCHANGED <<proc, foreign, win, unseen, playing, clock, settled, over>>

\* request_window_close: wake it and ask.
RequestWindowClose(p) ==
  /\ ~over /\ win[p] # "none"
  /\ WakeThisApplication(p)
  /\ UNCHANGED <<proc, foreign, win, unseen, playing, graces, clock, settled,
                 over>>

\* The processes in S exit; what they started belongs to init now.
Exits(S) ==
  /\ proc' = [p \in AnyPid |->
                IF p \in S THEN Gone
                ELSE IF proc[p].parent \in S THEN [proc[p] EXCEPT !.parent = 1]
                ELSE proc[p]]
  /\ stopped' = stopped \ S
  /\ foreign' = foreign \ S

GraceOver(doomed) ==
  /\ ~over /\ doomed \in graces
  /\ graces' = graces \ {doomed}
  /\ Exits(Signalled(doomed))
  /\ settled' = FALSE
  /\ UNCHANGED <<win, unseen, playing, sleepers, clock, over>>

\* Mutant: the end of the session continues what was on screen last.
EndsWithTheScreen ==
  /\ ~over
  /\ over' = TRUE
  /\ stopped' = stopped \ Woken(lastShown)
  /\ asleep' = [p \in Pid |-> {}]
  /\ UNCHANGED <<proc, foreign, win, unseen, playing, refused, lastShown,
                 ending, graces, clock, settled>>

\* wake_every_sleeping_application, when the loop has ended.
SessionEnds ==
  /\ ~over
  /\ over' = TRUE
  /\ stopped' = stopped \ Woken(Pid)
  /\ asleep' = [p \in Pid |-> {}]
  /\ UNCHANGED <<proc, foreign, win, unseen, playing, refused, lastShown,
                 ending, graces, clock, settled>>

-----------------------------------------------------------------------------
(* The rest of the machine *)

\* A running process starts another, in its group or in one of its own.
\* A number is not given out again while a window still goes by it.
Fork(p, q, name, leads) ==
  /\ ~over /\ clock <= MaxStart
  /\ p \in Alive(proc) \ stopped
  /\ proc[q] = Gone /\ win[q] = "none"
  /\ \A r \in AnyPid : proc[r].group # q
  /\ proc' = [proc EXCEPT ![q] =
                [parent |-> p, name |-> name, started |-> clock,
                 group |-> IF leads THEN q ELSE proc[p].group]]
  /\ foreign' = IF p \in foreign THEN foreign \cup {q} ELSE foreign
  /\ clock' = clock + 1
  /\ UNCHANGED <<win, unseen, playing, stopped, sleepers, graces, settled,
                 over>>

Exit(p) ==
  /\ ~over /\ p \in Alive(proc)
  /\ Exits({p})
  /\ UNCHANGED <<win, unseen, playing, sleepers, graces, clock, settled, over>>

\* A process that runs maps a window, and windows are raised, covered, parked
\* off every display and unmapped; a process that has gone loses its window.
MoveWindow(p, place) ==
  /\ ~over /\ place # win[p]
  /\ \/ p \in Alive(proc) \ stopped /\ proc[p].name \in Windowed
     \/ p \in Alive(proc) /\ win[p] # "none" /\ place # "none"
     \/ proc[p] = Gone /\ place = "none"
  /\ win' = [win EXCEPT ![p] = place]
  /\ settled' = FALSE
  /\ UNCHANGED <<proc, foreign, unseen, playing, stopped, sleepers, graces,
                 clock, over>>

Next ==
  \/ Pass \/ ShellGone \/ SessionEnds
  \/ \E name \in Spoken, on \in BOOLEAN :
       KeepApplicationAwake(name, on) \/ KeepOutOfSight(name, on)
  \/ \E p \in Pid : KillWindow(p) \/ RequestWindowClose(p) \/ Exit(p)
  \/ \E doomed \in graces : GraceOver(doomed)
  \/ \E p \in AnyPid, q \in Pid, name \in Launched, leads \in BOOLEAN :
       Fork(p, q, name, leads)
  \/ \E p \in Pid, place \in Placement : MoveWindow(p, place)

Spec == Init /\ [][Next]_vars

-----------------------------------------------------------------------------
(* What must hold *)

\* Whatever is stopped is on the list of some application that is asleep, as
\* the very process that was stopped: nothing is left stopped that no later
\* SIGCONT will reach (sleep.rs:74, "so a tree read while the application
\* was whole is the tree that gets continued").
StoppedIsRemembered ==
  \A p \in stopped : \E k \in Pid : IdentityOf(proc, p) \in asleep[k]

\* Once the session has ended nothing it stopped is still stopped
\* (sleep.rs:58-61, main.rs:363-368).
NothingStaysStopped == over => stopped = {}

\* No signal stops or kills the shell, the compositor or a process of another
\* login, whichever window, process group or recycled process number leads to
\* it (teardown.rs:173-194, the measured stop of a whole desktop).
OnlyOurOwn ==
  [][/\ stopped' \cap (foreign' \cup Session) = {}
     /\ graces' # graces /\ proc' # proc
          => foreign' = foreign /\ \A p \in Session : proc'[p] # Gone]_vars

\* A signal goes to a process only if it is still the one that was read: one
\* that was started since with the same number is left alone, though a key of
\* asleep or a grace still names the number (teardown.rs:394-399).
RecycledIsLeftAlone ==
  [][\A d \in graces \ graces' : \A p \in Pid :
        proc'[p] = Gone /\ proc[p] # Gone => IdentityOf(proc, p) \in d]_vars

\* Closing or stopping what a supervisor started never takes the supervisor
\* with it: no supervisor above the process of a window is in its tree
\* (teardown.rs:212-219, :228-232).
SupervisorOutlivesItsApplications ==
  \A p \in Alive(proc) \cap Pid : proc[p].name \notin InterfaceName =>
    \A d \in Sleeping(proc, p) \cup Ending(proc, p) :
       proc[d.pid].name \in SupervisorName =>
         \A n \in 1..Cardinality(AnyPid) : Above(proc, p)[n] # d.pid

\* What a step stops is the tree of a window that is hidden, was never closed
\* and is spared by nothing the shell said, and nothing of that tree is on
\* screen (sleep.rs:35-56, :89-95).
StoppedForAHiddenWindow ==
  [][\A p \in stopped' \ stopped : \E k \in Hidden(playing') \ ending :
       /\ IdentityOf(proc, p) \in asleep'[k]
       /\ {d.pid : d \in asleep'[k]} \cap Shown = {}]_vars

\* "A tree that reaches one somebody is looking at is not a tree to stop"
\* (sleep.rs:46-48): after a pass no window on screen belongs to a stopped
\* process.
NothingSeenIsStopped == settled => stopped \cap Shown = {}
=============================================================================
