-------------------------- MODULE UpdateCoordinator --------------------------
(***************************************************************************)
(* The update coordinator of LineXinBar (crates/lxb-updates, service.rs):  *)
(* the unprivileged process that checks for updates, runs one reviewed     *)
(* installation at a time, writes every step down before it is taken, and  *)
(* is replaced, stopped or killed at any moment.                           *)
(*                                                                         *)
(* Its main thread answers requests one at a time (Check, CancelCheck,     *)
(* Install, Restart, and the two voluntary exits).  Every accepted job     *)
(* runs on a thread of its own (`thr'), which takes the state's mutex for  *)
(* each single change; one action here is one critical section, together   *)
(* with the write of status.json that section makes.  Next to it stand the *)
(* native package tools it starts, the root worker that runs the           *)
(* privileged ones and holds /run/linexinbar/updates.lock, the shell that  *)
(* takes a power permit, and the machine that can restart.                 *)
(***************************************************************************)
EXTENDS Naturals, FiniteSets, Sequences

CONSTANTS
  Source,       \* the sources a review can select, numbered in review order
  System,       \* the one of them that updates the system itself
  Privileged,   \* those whose steps only the authorized root worker may run
  StagedAs,     \* how a staged system update is activated on this host
  Worker,       \* slots for the threads of jobs that are alive at once
  HistoryKept,  \* ended attempts kept in history.json (3 in the code)
  MaxJobs, MaxSteps, MaxBoots, MaxFaults, MaxCrashes   \* bounds of the model

ASSUME SourceAssumption ==
  /\ Source \subseteq Nat \ {0}
  /\ System \in Source
  /\ Privileged \subseteq Source
ASSUME StagedAssumption == StagedAs \in {"Normal", "Dnf5Offline"}
ASSUME BoundAssumption ==
  /\ HistoryKept \in Nat \ {0}
  /\ MaxJobs \in Nat \ {0}
  /\ MaxSteps \in Nat \ {0}
  /\ MaxBoots \in Nat \ {0}
  /\ MaxFaults \in Nat
  /\ MaxCrashes \in Nat

VARIABLES
  \* --- the state directory ---
  status,      \* status.json: the last snapshot that was saved
  history,     \* history.json: the ended attempts, oldest first
  logs,        \* the jobs with a <job>.log file
  \* --- the coordinator process (State in service.rs) ---
  up,          \* a coordinator holds coordinator.lock and answers
  snap,        \* State::snapshot
  cancelCheck, \* State::cancel_check
  perr,        \* State::persistence_error is set
  activity,    \* State::activity: the shared lock on activity.lock is held
  transcript,  \* State::transcript: the job whose log is open, or 0
  thr,         \* the threads of State::workers
  \* --- the machine around it ---
  tools,       \* native tools that are alive
  grant,       \* the job whose root worker is alive and holds the root lock, or 0
  linked,      \* the channel between that worker and the coordinator is intact
  rootFile,    \* /run/linexinbar/updates.lock exists in this boot
  sent,        \* the tool whose Start that worker has still to serve, or NoTool
  permit,      \* who holds the exclusive side of activity.lock
  permitRoot,  \* that permit holds the root lock as well
  boot,        \* boot_id
  \* --- bounds and history ---
  gone,        \* how the last coordinator ended
  asked,       \* every native tool ever asked for
  started,     \* those of them that were started
  cancelled,   \* every check whose cancellation was accepted
  faults,      \* failed writes and failed spawns so far
  crashes      \* coordinators killed and channels lost so far

disk    == <<status, history, logs>>
process == <<up, snap, cancelCheck, perr, activity, transcript, thr>>
power   == <<permit, permitRoot>>
root    == <<grant, linked, rootFile, sent>>
past  == <<gone, asked, started, cancelled, crashes>>
vars    == <<disk, process, tools, root, power, boot, past, faults>>
-----------------------------------------------------------------------------
(* Data *)

JobId == 0 .. MaxJobs
Phase == {"Idle", "Checking", "Reviewing", "Running", "Restarting",
          "Completed", "Partial", "Failed", "Cancelled", "Interrupted",
          "AwaitingVerification"}
Restarts == {"None", "Normal", "Dnf5Offline"}

\* A native tool: one step of one source of one job.  Source 0 is the
\* `dnf5 offline reboot' of a Restart request.
Tool   == [job : JobId, source : Source \union {0}, step : 0 .. MaxSteps]
NoTool == [job |-> 0, source |-> 0, step |-> 0]

\* Snapshot, as far as control depends on it.  `results' keeps only whether
\* some source succeeded (TRUE) and some source did not (FALSE).
Snapshot == [job : JobId, phase : Phase, selected : SUBSET Source,
             results : SUBSET BOOLEAN, restart : Restarts,
             child : Tool \union {NoTool}, boot : 0 .. MaxBoots]
Default  == [job |-> 0, phase |-> "Idle", selected |-> {}, results |-> {},
             restart |-> "None", child |-> NoTool, boot |-> 0]

\* Mutant: a running installation is not counted as busy.
BusyWithoutRunning(s) == s.phase \in {"Checking", "Restarting"}
Busy(s) == s.phase \in {"Checking", "Running", "Restarting"}

First(S) == CHOOSE n \in S : \A m \in S : n <= m

PCs == {"none", "launchCheck", "query", "publish", "notices",
        "launchInstall", "prepare", "begin", "sources", "checkpoint", "spawn",
        "child", "run", "stage", "result", "final", "release", "refused",
        "notice", "archive", "giveUp", "recover", "unfiled", "recount",
        "reboot", "restartFailed"}
Thread == [pc : PCs, job : JobId, todo : SUBSET Source, step : 0 .. MaxSteps,
           good : BOOLEAN]
Free   == [pc |-> "none", job |-> 0, todo |-> {}, step |-> 0, good |-> FALSE]

\* A restart's thread has no sources to go through.
Offline(w) == thr[w].todo = {}
Current(w) == IF Offline(w) THEN 0 ELSE First(thr[w].todo)
ToolOf(w)  == [job |-> thr[w].job, source |-> Current(w), step |-> thr[w].step]
RootTools  == {t \in tools : t.source \in Privileged}
\* What the root worker has in hand, started or still to start.
RootWork   == RootTools \union ({sent} \ {NoTool})

\* Mutant: the step that just succeeded is named once more.
SameStep(w) == thr[w].step
NextStep(w) == thr[w].step + 1
MoreSteps(w) == thr[w].step < MaxSteps

\* The step needs the root worker, and the channel to it is lost.
Broken(w) == Current(w) \in Privileged /\ ~(linked /\ grant = thr[w].job)

JobsOf(h) == {h[i].job : i \in DOMAIN h}

\* The main thread is not inside a request or its start-up.
MainFree == \A w \in Worker :
              /\ thr[w].pc \notin {"launchCheck", "launchInstall", "recover"}
              /\ ~(thr[w].pc = "unfiled" /\ thr[w].job = 0)
Serving  == up /\ MainFree

Goto(w, pc) == thr' = [thr EXCEPT ![w].pc = pc]
End(w)      == thr' = [thr EXCEPT ![w] = Free]
-----------------------------------------------------------------------------
(* Writing down *)

\* One atomic(): saved, or failed with the old content, or failed after the
\* rename with the new content already in place.
Write(file, value, ok) ==
  \/ /\ ok
     /\ file' = value
     /\ UNCHANGED faults
  \/ /\ ~ok
     /\ faults < MaxFaults
     /\ faults' = faults + 1
     /\ file' \in {file, value}

\* change(): the snapshot moves whether or not it can be saved.
Change(s) ==
  \E ok \in BOOLEAN :
    /\ Write(status, s, ok)
    /\ snap' = s
    /\ perr' = (perr \/ ~ok)

\* What a thread leaves alone besides the snapshot and its own program counter.
ThreadOnly == UNCHANGED <<up, cancelCheck, history, logs, boot, past>>
-----------------------------------------------------------------------------
(* The process: starting, leaving, dying *)

\* serve_with(), from status.json to the main loop.  `loaded' covers a
\* journal written under an older protocol, whose review is dropped.
Loaded(s) == {s} \union
  (IF s.phase = "Reviewing" THEN {[s EXCEPT !.phase = "Idle"]} ELSE {})

\* Mutant: work that was cut short is offered for review again.
RecoveredAsReview(s) ==
  IF s.boot # 0 /\ s.boot # boot /\ s.restart # "None"
  THEN [s EXCEPT !.phase = "AwaitingVerification", !.child = NoTool,
                 !.restart = "None"]
  ELSE IF Busy(s) THEN [s EXCEPT !.phase = "Reviewing"]
  ELSE s

Recovered(s) ==
  IF s.boot # 0 /\ s.boot # boot /\ s.restart # "None"
  THEN [s EXCEPT !.phase = "AwaitingVerification", !.child = NoTool,
                 !.restart = "None"]
  ELSE IF Busy(s) THEN [s EXCEPT !.phase = "Interrupted"]
  ELSE s

Start ==
  /\ ~up
  /\ up' = TRUE
  /\ \E s \in Loaded(status) : Change(Recovered(s))
  /\ IF status.phase = "Running"
     THEN \E w \in Worker :
            thr' = [thr EXCEPT ![w] = [Free EXCEPT !.pc = "recover"]]
     ELSE UNCHANGED thr
  /\ UNCHANGED <<history, logs, cancelCheck, activity, transcript, tools,
                 root, power, boot, past>>

\* The end of the process, however it comes: its threads, its memory and its
\* locks are gone; native tools and the root worker are not its to take along.
Stopped(why) ==
  /\ up' = FALSE
  /\ gone' = why
  /\ thr' = [w \in Worker |-> Free]
  /\ snap' = Default
  /\ cancelCheck' = FALSE
  /\ perr' = FALSE
  /\ activity' = FALSE
  /\ transcript' = 0

Dropped ==
  /\ linked' = FALSE
  /\ permit' = IF permit = "restart" THEN "none" ELSE permit
  /\ permitRoot' = (permitRoot /\ permit # "restart")

Crash ==
  /\ up
  /\ crashes < MaxCrashes
  /\ Stopped("crash")
  /\ Dropped
  /\ crashes' = crashes + 1
  /\ UNCHANGED <<disk, tools, grant, rootFile, sent, boot, asked, started,
                 cancelled, faults>>

\* Mutant: the phase alone is asked, not the threads.
BetweenJobsByPhase == ~activity /\ ~Busy(snap)

\* Between jobs: no thread unfinished, no lock held, nothing under way.
BetweenJobs ==
  /\ \A w \in Worker : thr[w].pc = "none"
  /\ ~activity
  /\ ~Busy(snap)

\* The program file was replaced under the coordinator: it steps aside.
ReplacedExit ==
  /\ Serving
  /\ BetweenJobs
  /\ Stopped("replaced")
  /\ Dropped
  /\ UNCHANGED <<disk, tools, grant, rootFile, sent, boot, asked, started,
                 cancelled, faults, crashes>>

\* Fifteen minutes without a request.
IdleExit ==
  /\ Serving
  /\ ~Busy(snap)
  /\ snap.restart = "None"
  /\ Stopped("idle")
  /\ Dropped
  /\ UNCHANGED <<disk, tools, grant, rootFile, sent, boot, asked, started,
                 cancelled, faults, crashes>>
-----------------------------------------------------------------------------
(* Requests, answered by the main thread (receive) *)

\* The snapshot of a new check: a staged restart is carried over.
\* Mutant: it is not.
FreshWithoutRestart(selected) ==
  [Default EXCEPT !.job = snap.job + 1, !.phase = "Checking",
                  !.selected = selected, !.boot = boot]
Fresh(selected) ==
  [Default EXCEPT !.job = snap.job + 1, !.phase = "Checking",
                  !.selected = selected, !.restart = snap.restart, !.boot = boot]

\* The tool the snapshot names is over.
ChildGone == snap.child \notin tools

\* Request::Check.  The job is saved before its thread exists; a save that
\* fails leaves the previous snapshot in memory.
Check(w, selected) ==
  LET s == Fresh(selected) IN
  /\ Serving
  /\ thr[w].pc = "none"
  /\ snap.job < MaxJobs
  /\ ~Busy(snap)
  /\ ChildGone
  /\ cancelCheck' = FALSE
  /\ \/ /\ Write(status, s, TRUE)
        /\ snap' = s
        /\ perr' = FALSE
        /\ thr' = [thr EXCEPT ![w] = [Free EXCEPT !.pc = "launchCheck",
                                        !.job = s.job, !.todo = selected]]
     \/ /\ Write(status, s, FALSE)
        /\ UNCHANGED <<snap, perr, thr>>
  /\ UNCHANGED <<up, history, logs, activity, transcript, tools, root, power,
                 boot, past>>

\* Request::CancelCheck: a promise kept in memory only.
CancelCheck ==
  /\ Serving
  /\ snap.phase = "Checking"
  /\ cancelCheck' = TRUE
  /\ cancelled' = cancelled \union {snap.job}
  /\ UNCHANGED <<disk, up, snap, perr, activity, transcript, thr, tools, root,
                 power, boot, gone, asked, started, faults, crashes>>

\* Request::Install, once the job named is the one reviewed.
Install(w) ==
  LET s == [snap EXCEPT !.phase = "Running"] IN
  /\ Serving
  /\ thr[w].pc = "none"
  /\ snap.phase = "Reviewing"
  /\ ~perr
  /\ ~(snap.restart # "None" /\ System \in snap.selected)
  /\ permit = "none"                \* LOCK_SH on activity.lock
  /\ snap.job \notin logs           \* create_new on the transcript
  /\ \/ /\ Write(status, s, TRUE)
        /\ snap' = s
        /\ activity' = TRUE
        /\ transcript' = snap.job
        /\ logs' = logs \union {snap.job}
        /\ thr' = [thr EXCEPT ![w] = [Free EXCEPT !.pc = "launchInstall",
                                        !.job = snap.job, !.todo = snap.selected]]
     \/ /\ Write(status, s, FALSE)
        /\ activity' = FALSE
        /\ transcript' = 0
        /\ UNCHANGED <<snap, logs, thr>>
  /\ UNCHANGED <<up, history, cancelCheck, perr, tools, root, power, boot, past>>

\* The root lock is free, or nobody in this boot ever made its file.
RootLockFree == rootFile => grant = 0

\* Request::Restart, with the power permit taken first and handed to the
\* thread that restarts.  A save that fails gives the permit back.
Restart(w) ==
  LET s == [snap EXCEPT !.phase = "Restarting"] IN
  /\ Serving
  /\ thr[w].pc = "none"
  /\ permit = "none"
  /\ ~activity
  /\ RootLockFree
  /\ ~Busy(snap)
  /\ ~perr
  /\ snap.restart # "None"
  /\ \/ /\ Write(status, s, TRUE)
        /\ snap' = s
        /\ permit' = "restart"
        /\ permitRoot' = rootFile
        /\ thr' = [thr EXCEPT ![w] =
                     [Free EXCEPT !.job = snap.job, !.step = 1,
                        !.pc = IF snap.restart = "Normal" THEN "reboot"
                               ELSE "checkpoint"]]
     \/ /\ Write(status, s, FALSE)
        /\ UNCHANGED <<snap, power, thr>>
  /\ UNCHANGED <<up, history, logs, cancelCheck, perr, activity, transcript,
                 tools, root, boot, past>>

\* launch(): the thread runs, or cannot be spawned.
Launch(w) ==
  /\ thr[w].pc \in {"launchCheck", "launchInstall"}
  /\ Goto(w, IF thr[w].pc = "launchCheck" THEN "query" ELSE "prepare")
  /\ UNCHANGED <<disk, up, snap, cancelCheck, perr, activity, transcript,
                 tools, root, power, boot, past, faults>>

LaunchFails(w) ==
  /\ thr[w].pc \in {"launchCheck", "launchInstall"}
  /\ faults < MaxFaults
  /\ faults' = faults + 1
  /\ snap' = [snap EXCEPT !.phase = "Failed"]
  /\ status' = snap'
  /\ activity' = FALSE
  /\ End(w)
  /\ UNCHANGED <<perr, transcript, tools, root, power>>
  /\ ThreadOnly
-----------------------------------------------------------------------------
(* The thread of a check (check_job) *)

\* One source: not cancelled, so say which, ask its provider, keep the answer.
Query(w) ==
  /\ thr[w].pc = "query"
  /\ thr[w].todo # {}
  /\ ~cancelCheck
  /\ Change(snap)
  /\ thr' = [thr EXCEPT ![w].todo = @ \ {First(@)}]
  /\ ThreadOnly
  /\ UNCHANGED <<activity, transcript, tools, root, power>>

StopQuery(w) ==
  /\ thr[w].pc = "query"
  /\ thr[w].todo # {}
  /\ cancelCheck
  /\ Change([snap EXCEPT !.phase = "Cancelled"])
  /\ End(w)
  /\ ThreadOnly
  /\ UNCHANGED <<activity, transcript, tools, root, power>>

\* Mutant: a cancellation during the last query comes too late.
VerdictTooLate == "Reviewing"
Verdict == IF cancelCheck THEN "Cancelled" ELSE "Reviewing"

\* The final transition and CancelCheck are serialized by the mutex; the
\* phase is saved by the next critical section, not by this one.
Conclude(w) ==
  /\ thr[w].pc = "query"
  /\ thr[w].todo = {}
  /\ snap' = [snap EXCEPT !.phase = Verdict]
  /\ Goto(w, "publish")
  /\ ThreadOnly
  /\ UNCHANGED <<status, perr, activity, transcript, tools, root, power, faults>>

\* change(|_| {}), then the notices of the preflight.
Publish(w) ==
  /\ thr[w].pc \in {"publish", "notices"}
  /\ Change(snap)
  /\ IF thr[w].pc = "publish" THEN Goto(w, "notices") ELSE End(w)
  /\ ThreadOnly
  /\ UNCHANGED <<activity, transcript, tools, root, power>>
-----------------------------------------------------------------------------
(* The thread of an installation (install_job) *)

\* A job that ends before its first source.
Refused(w) ==
  /\ Change([snap EXCEPT !.phase = "Failed"])
  /\ Goto(w, "refused")
  /\ ThreadOnly
  /\ UNCHANGED <<activity, transcript, tools, root, power>>

\* Supervisor notice and preflight.
Prepare(w) ==
  /\ thr[w].pc = "prepare"
  /\ \/ Refused(w)
     \/ /\ Change(snap)
        /\ Goto(w, "begin")
        /\ ThreadOnly
        /\ UNCHANGED <<activity, transcript, tools, root, power>>

\* Runtime::begin.  Privileged sources need a root worker, which takes the
\* root lock; the others need one only where this process cannot inhibit.
Begin(w) ==
  /\ thr[w].pc = "begin"
  /\ \/ Refused(w)
     \/ /\ \/ /\ thr[w].todo \intersect Privileged = {}
              /\ UNCHANGED root
           \/ /\ grant = 0
              /\ ~permitRoot
              /\ grant' = thr[w].job
              /\ linked' = TRUE
              /\ rootFile' = TRUE
              /\ UNCHANGED sent
        /\ Change(snap)
        /\ Goto(w, "sources")
        /\ ThreadOnly
        /\ UNCHANGED <<activity, transcript, tools, power>>

\* The next selected source: held back, nothing to do, or its first step.
NextSource(w) ==
  /\ thr[w].pc = "sources"
  /\ thr[w].todo # {}
  /\ Change(snap)
  /\ \/ \E good \in BOOLEAN :
          thr' = [thr EXCEPT ![w].pc = "result", ![w].good = good]
     \/ thr' = [thr EXCEPT ![w].pc = "checkpoint", ![w].step = 1]
  /\ ThreadOnly
  /\ UNCHANGED <<activity, transcript, tools, root, power>>

\* What a failing step leads to.
Fails(w) == thr' = [thr EXCEPT ![w].good = FALSE,
                      ![w].pc = IF Offline(w) THEN "restartFailed" ELSE "result"]

\* checkpoint(): nothing is started after a save or a record that failed.
Checkpoint(w) ==
  /\ thr[w].pc = "checkpoint"
  /\ \/ /\ perr
        /\ Fails(w)
        /\ UNCHANGED <<status, perr, faults>>
     \/ /\ ~perr
        /\ Write(status, snap, TRUE)
        /\ Goto(w, "spawn")
        /\ UNCHANGED perr
     \/ /\ ~perr
        /\ Write(status, snap, FALSE)
        /\ perr' = TRUE
        /\ Fails(w)
  /\ ThreadOnly
  /\ UNCHANGED <<snap, activity, transcript, tools, root, power>>

\* process::start, of a tool that needs no root worker.
Spawn(w) ==
  /\ thr[w].pc = "spawn"
  /\ Current(w) \notin Privileged
  /\ tools' = tools \union {ToolOf(w)}
  /\ started' = started \union {ToolOf(w)}
  /\ asked' = asked \union {ToolOf(w)}
  /\ Goto(w, "child")
  /\ UNCHANGED <<disk, up, snap, cancelCheck, perr, activity, transcript, root,
                 power, boot, gone, cancelled, faults, crashes>>

\* Session::run: Start is written to the channel, and is the root worker's to
\* serve from then on, whatever becomes of this coordinator.
Ask(w) ==
  /\ thr[w].pc = "spawn"
  /\ Current(w) \in Privileged
  /\ ~Broken(w)
  /\ sent' = ToolOf(w)
  /\ asked' = asked \union {ToolOf(w)}
  /\ Goto(w, "child")
  /\ UNCHANGED <<disk, up, snap, cancelCheck, perr, activity, transcript, tools,
                 grant, linked, rootFile, power, boot, gone, started, cancelled,
                 faults, crashes>>

SpawnFails(w) ==
  /\ thr[w].pc = "spawn"
  /\ Fails(w)
  /\ UNCHANGED <<disk, up, snap, cancelCheck, perr, activity, transcript, tools,
                 root, power, boot, past, faults>>

\* The tool's identity is written down after it was started.
Child(w) ==
  /\ thr[w].pc = "child"
  /\ ToolOf(w) \in started \ {sent}
  /\ Change([snap EXCEPT !.child = ToolOf(w)])
  /\ Goto(w, "run")
  /\ ThreadOnly
  /\ UNCHANGED <<activity, transcript, tools, root, power>>

\* The root worker answers that it will not run the step.
Denied(w) ==
  /\ thr[w].pc = "child"
  /\ ToolOf(w) \notin started \union {sent}
  /\ ~Broken(w)
  /\ Change([snap EXCEPT !.child = NoTool])
  /\ Fails(w)
  /\ ThreadOnly
  /\ UNCHANGED <<activity, transcript, tools, root, power>>

\* record(): output that cannot be kept ends the job after this tool.
Recording == {"prepare", "begin", "sources", "child", "run", "result",
              "notice", "archive", "giveUp"}
OutputLost(w) ==
  /\ thr[w].pc \in Recording
  /\ transcript # 0
  /\ faults < MaxFaults
  /\ faults' = faults + 1
  /\ perr' = TRUE
  /\ UNCHANGED <<disk, up, snap, cancelCheck, activity, transcript, thr, tools,
                 root, power, boot, past>>

\* The tool is over, or its root worker can no longer be heard.
Reap(w) ==
  /\ \/ thr[w].pc = "run" /\ ToolOf(w) \notin tools
     \/ thr[w].pc \in {"child", "run"} /\ Broken(w)
  /\ Change([snap EXCEPT !.child = NoTool])
  /\ \/ Fails(w)
     \/ /\ ~Broken(w)
        /\ \/ /\ Offline(w)
              /\ End(w)
           \/ /\ ~Offline(w)
              /\ MoreSteps(w)
              /\ thr' = [thr EXCEPT ![w].pc = "checkpoint",
                                    ![w].step = NextStep(w)]
           \/ /\ ~Offline(w)
              /\ thr' = [thr EXCEPT ![w].pc = "result", ![w].good = TRUE]
           \/ /\ Current(w) = System
              /\ Goto(w, "stage")
  /\ IF thr'[w].pc = "none"
     THEN permit' = "none" /\ permitRoot' = FALSE
     ELSE UNCHANGED power
  /\ ThreadOnly
  /\ UNCHANGED <<activity, transcript, tools, root>>

\* A custom provider may ask for a restart and for attention at once.
Stage(w) ==
  /\ thr[w].pc = "stage"
  /\ Change([snap EXCEPT !.restart = StagedAs])
  /\ \E good \in IF StagedAs = "Normal" THEN BOOLEAN ELSE {TRUE} :
       thr' = [thr EXCEPT ![w].pc = "result", ![w].good = good]
  /\ ThreadOnly
  /\ UNCHANGED <<activity, transcript, tools, root, power>>

Result(w) ==
  /\ thr[w].pc = "result"
  /\ Change([snap EXCEPT !.results = @ \union {thr[w].good}])
  /\ thr' = [thr EXCEPT ![w].pc = "sources", ![w].todo = @ \ {First(@)}]
  /\ ThreadOnly
  /\ UNCHANGED <<activity, transcript, tools, root, power>>

\* JobContext::close: the worker lets the grant and the root lock go before
\* it answers.  Without an answer the session is dropped all the same.
Close(w) ==
  /\ thr[w].pc = "sources"
  /\ thr[w].todo = {}
  /\ linked' = FALSE
  /\ grant' \in IF linked /\ grant = thr[w].job THEN {0, grant} ELSE {grant}
  /\ Goto(w, "final")
  /\ UNCHANGED <<disk, up, snap, cancelCheck, perr, activity, transcript, tools,
                 rootFile, sent, power, boot, past, faults>>

Outcome(results) ==
  IF FALSE \notin results THEN "Completed"
  ELSE IF TRUE \in results THEN "Partial" ELSE "Failed"

Finish(w) ==
  /\ thr[w].pc = "final"
  /\ Change([snap EXCEPT !.phase = Outcome(snap.results), !.child = NoTool])
  /\ Goto(w, "release")
  /\ ThreadOnly
  /\ UNCHANGED <<activity, transcript, tools, root, power>>

\* Mutant: a job refused before its first source keeps the lock.
ReleaseWhenRun(w) ==
  /\ thr[w].pc \in {"release", "refused"}
  /\ activity' = (thr[w].pc = "refused" /\ activity)
  /\ Goto(w, IF thr[w].pc = "release" THEN "notice" ELSE "giveUp")
  /\ UNCHANGED <<disk, up, snap, cancelCheck, perr, transcript, tools, root,
                 power, boot, past, faults>>

\* activity = None
Release(w) ==
  /\ thr[w].pc \in {"release", "refused"}
  /\ activity' = FALSE
  /\ Goto(w, IF thr[w].pc = "release" THEN "notice" ELSE "giveUp")
  /\ UNCHANGED <<disk, up, snap, cancelCheck, perr, transcript, tools, root,
                 power, boot, past, faults>>

\* A failed clean-up or a failed recording becomes a notice, and with it one
\* more save.
Notice(w) ==
  /\ thr[w].pc = "notice"
  /\ \/ Change(snap)
     \/ ~perr /\ UNCHANGED <<status, snap, perr, faults>>
  /\ Goto(w, "archive")
  /\ ThreadOnly
  /\ UNCHANGED <<activity, transcript, tools, root, power>>

\* The entries of the history that are of other jobs, in their order.
OtherJobs(job) ==
  LET S == {i \in DOMAIN history : history[i].job # job}
  IN [n \in 1 .. Cardinality(S) |->
        history[CHOOSE i \in S : Cardinality({k \in S : k <= i}) = n]]

\* Mutant: one attempt too many is kept.
FiledOneMore(s) ==
  LET others == OtherJobs(s.job)
      all    == Append(others, [job |-> s.job, phase |-> s.phase])
      drop   == IF Len(all) > HistoryKept + 1 THEN 1 ELSE 0
  IN SubSeq(all, drop + 1, Len(all))

\* archive(): the snapshot the coordinator holds now goes into the history,
\* in the place of an older entry of the same job, and the logs of the jobs
\* that fell out of it are removed.
Filed(s) ==
  LET others == OtherJobs(s.job)
      all    == Append(others, [job |-> s.job, phase |-> s.phase])
      drop   == IF Len(all) > HistoryKept THEN Len(all) - HistoryKept ELSE 0
  IN SubSeq(all, drop + 1, Len(all))

Archive(w) ==
  /\ thr[w].pc \in {"archive", "giveUp", "recover"}
  /\ transcript' = 0
  /\ \/ /\ Write(history, Filed(snap), TRUE)
        /\ logs' = logs \intersect JobsOf(history')
        /\ IF thr[w].pc = "archive" THEN Goto(w, "recount") ELSE End(w)
     \/ /\ Write(history, Filed(snap), FALSE)
        /\ UNCHANGED logs
        /\ thr' = [thr EXCEPT ![w].pc = "unfiled",
                              ![w].good = thr[w].pc = "archive"]
  /\ UNCHANGED <<status, up, snap, cancelCheck, perr, activity, tools, root,
                 power, boot, past>>

\* An attempt that could not be filed is told so, with one more save.
Unfiled(w) ==
  /\ thr[w].pc = "unfiled"
  /\ Change(snap)
  /\ IF thr[w].good THEN Goto(w, "recount") ELSE End(w)
  /\ ThreadOnly
  /\ UNCHANGED <<activity, transcript, tools, root, power>>

\* recount(): the sources are asked again and the answers saved, as long as
\* the coordinator still holds this job.
Recount(w) ==
  /\ thr[w].pc = "recount"
  /\ IF snap.job = thr[w].job THEN Change(snap)
     ELSE UNCHANGED <<status, snap, perr, faults>>
  /\ End(w)
  /\ ThreadOnly
  /\ UNCHANGED <<activity, transcript, tools, root, power>>
-----------------------------------------------------------------------------
(* The thread of a restart *)

\* logind accepted the Reboot call: the machine is about to go.
Reboots(w) ==
  /\ thr[w].pc = "reboot"
  /\ End(w)
  /\ permit' = "none"
  /\ permitRoot' = FALSE
  /\ UNCHANGED <<disk, up, snap, cancelCheck, perr, activity, transcript, tools,
                 root, boot, past, faults>>

RestartFails(w) ==
  /\ thr[w].pc \in {"reboot", "restartFailed"}
  /\ Change([snap EXCEPT !.phase = "Partial"])
  /\ End(w)
  /\ permit' = "none"
  /\ permitRoot' = FALSE
  /\ ThreadOnly
  /\ UNCHANGED <<activity, transcript, tools, root>>
-----------------------------------------------------------------------------
(* The machine around the coordinator *)

\* A native tool ends by itself; nothing ever kills it.
ToolExits(t) ==
  /\ t \in tools
  /\ tools' = tools \ {t}
  /\ UNCHANGED <<disk, process, root, power, boot, past, faults>>

\* The channel breaks: a send timed out, a malformed message, a dead peer.
ChannelLost ==
  /\ linked
  /\ crashes < MaxCrashes
  /\ crashes' = crashes + 1
  /\ linked' = FALSE
  /\ UNCHANGED <<disk, process, tools, grant, rootFile, sent, power, boot, gone,
                 asked, started, cancelled, faults>>

\* The root worker starts the tool it was asked for, which it also does when
\* the channel was lost after the frame was written.  Checking the step again
\* can take it minutes.
Serve ==
  /\ sent # NoTool
  /\ tools' = tools \union {sent}
  /\ started' = started \union {sent}
  /\ sent' = NoTool
  /\ UNCHANGED <<disk, process, grant, linked, rootFile, power, boot, gone,
                 asked, cancelled, faults, crashes>>

\* Or it will not run the step, or is killed before it could.
Deny ==
  /\ sent # NoTool
  /\ sent' = NoTool
  /\ UNCHANGED <<disk, process, tools, grant, linked, rootFile, power, boot,
                 past, faults>>

\* Mutant: it leaves with the channel, whatever it has in hand.
LeavesAtOnce == TRUE
WorkerIdle == RootWork = {}

\* The root worker sees the end of its channel once its tool is over, and
\* leaves with its grant and its lock.
WorkerEnds ==
  /\ grant # 0
  /\ ~linked
  /\ WorkerIdle
  /\ grant' = 0
  /\ UNCHANGED <<disk, process, tools, linked, rootFile, sent, power, boot, past,
                 faults>>

\* power_permit(), taken by the shell for a shutdown, suspend or logout.
TakePermit ==
  /\ permit = "none"
  /\ ~activity
  /\ RootLockFree
  /\ permit' = "shell"
  /\ permitRoot' = rootFile
  /\ UNCHANGED <<disk, process, tools, root, boot, past, faults>>

DropPermit ==
  /\ permit = "shell"
  /\ permit' = "none"
  /\ permitRoot' = FALSE
  /\ UNCHANGED <<disk, process, tools, root, boot, past, faults>>

\* The machine restarts, whoever asked for it: only the disk is left.
Reboot ==
  /\ boot < MaxBoots
  /\ boot' = boot + 1
  /\ Stopped("reboot")
  /\ tools' = {}
  /\ grant' = 0
  /\ linked' = FALSE
  /\ rootFile' = FALSE
  /\ sent' = NoTool
  /\ permit' = "none"
  /\ permitRoot' = FALSE
  /\ UNCHANGED <<disk, asked, started, cancelled, faults, crashes>>
-----------------------------------------------------------------------------
(* The specification *)

Init ==
  /\ status = Default
  /\ history = <<>>
  /\ logs = {}
  /\ up = FALSE
  /\ snap = Default
  /\ cancelCheck = FALSE
  /\ perr = FALSE
  /\ activity = FALSE
  /\ transcript = 0
  /\ thr = [w \in Worker |-> Free]
  /\ tools = {}
  /\ grant = 0
  /\ linked = FALSE
  /\ rootFile = FALSE
  /\ sent = NoTool
  /\ permit = "none"
  /\ permitRoot = FALSE
  /\ boot = 1
  /\ gone = "never"
  /\ asked = {}
  /\ started = {}
  /\ cancelled = {}
  /\ faults = 0
  /\ crashes = 0

Lifecycle == Start \/ Crash \/ ReplacedExit \/ IdleExit

Requests(w) ==
  \/ \E selected \in (SUBSET Source) \ {{}} : Check(w, selected)
  \/ Install(w)
  \/ Restart(w)

CheckThread(w) == Query(w) \/ StopQuery(w) \/ Conclude(w) \/ Publish(w)

InstallThread(w) ==
  \/ Prepare(w) \/ Begin(w) \/ NextSource(w) \/ Stage(w) \/ Result(w)
  \/ Close(w) \/ Finish(w) \/ Release(w) \/ Notice(w) \/ Archive(w)
  \/ Unfiled(w) \/ Recount(w)

ToolThread(w) ==
  \/ Checkpoint(w) \/ Spawn(w) \/ Ask(w) \/ SpawnFails(w)
  \/ Child(w) \/ Denied(w) \/ Reap(w)

RestartThread(w) == Reboots(w) \/ RestartFails(w)

\* What a thread of this process does by itself, once it may run.
Runs(w) == \/ Launch(w) \/ CheckThread(w) \/ InstallThread(w)
           \/ ToolThread(w) \/ RestartThread(w)

Machine ==
  \/ \E t \in tools : ToolExits(t)
  \/ ChannelLost \/ Serve \/ Deny \/ WorkerEnds \/ TakePermit \/ DropPermit \/ Reboot

Next ==
  \/ Lifecycle
  \/ CancelCheck
  \/ \E w \in Worker : Requests(w) \/ Runs(w) \/ LaunchFails(w) \/ OutputLost(w)
  \/ Machine

Spec == Init /\ [][Next]_vars

\* Threads are scheduled, native tools end once they are answered, and the
\* root worker serves what it was asked and notices a closed channel.
Fairness ==
  /\ \A w \in Worker : WF_vars(Runs(w))
  /\ \A t \in Tool : WF_vars(ToolExits(t))
  /\ WF_vars(Serve \/ Deny)
  /\ WF_vars(WorkerEnds)

FairSpec == Spec /\ Fairness
-----------------------------------------------------------------------------
(* Invariants *)

\* The types of the saved files, the process and the machine: a thread's stage,
\* step and sources stay within its job, and the process forgets what it had.
TypeOK ==
  /\ status \in Snapshot /\ snap \in Snapshot
  /\ logs \subseteq JobId
  /\ up \in BOOLEAN /\ cancelCheck \in BOOLEAN /\ perr \in BOOLEAN
  /\ activity \in BOOLEAN /\ transcript \in JobId
  /\ thr \in [Worker -> Thread]
  /\ tools \subseteq started /\ started \subseteq asked /\ asked \subseteq Tool
  /\ grant \in JobId /\ linked \in BOOLEAN /\ rootFile \in BOOLEAN
  /\ sent \in asked \union {NoTool}
  /\ permit \in {"none", "shell", "restart"} /\ permitRoot \in BOOLEAN
  /\ boot \in 1 .. MaxBoots
  /\ gone \in {"never", "crash", "replaced", "idle", "reboot"}
  /\ cancelled \subseteq JobId
  /\ faults \in 0 .. MaxFaults /\ crashes \in 0 .. MaxCrashes

\* The tool a thread of this coordinator is attending to.
Attended(t) == \E w \in Worker :
                 thr[w].pc \in {"child", "run"} /\ ToolOf(w) = t /\ ~Broken(w)

\* Whatever happens to the coordinator while a tool of its is writing to the
\* machine, the journal on disk says that this job was under way.
EvidenceOnDisk ==
  \A t \in tools : Attended(t) =>
    /\ status.job = t.job
    /\ status.phase = IF t.source = 0 THEN "Restarting" ELSE "Running"

\* A power permit that holds the root lock excludes root tools, even those of
\* a coordinator that has crashed or lost its worker's channel.
RootToolBlocksPower ==
  permitRoot => RootTools = {}

\* Two root tools are never alive together, whichever jobs they are of.
OneRootTool == Cardinality(RootTools) <= 1

\* What keeps root tools apart, as an inductive invariant.  A thread at one of
\* the `Own' points is in the middle of the job its coordinator holds, and
\* alone there.
Own == {"launchCheck", "query", "launchInstall", "prepare", "begin", "sources",
        "checkpoint", "spawn", "child", "run", "stage", "result", "final",
        "reboot", "restartFailed"}
Owns(w) == thr[w].pc \in Own

OwnerHoldsJob ==
  \A w \in Worker : Owns(w) => up /\ Busy(snap) /\ thr[w].job = snap.job
OneOwner ==
  \A v, w \in Worker : Owns(v) /\ Owns(w) => v = w
JobNamed(s) == s.job = 0 => s.phase = "Idle" /\ s.restart = "None"
LinkHasWorker ==
  (linked => grant # 0) /\ (RootWork # {} => grant # 0)
SentIsPrivileged ==
  sent # NoTool => sent.source \in Privileged
WorkerHoldsLock ==
  permitRoot => grant = 0
\* While the channel holds, a root tool is the one its job's thread waits for,
\* and so is the one that the worker has still to start.
RootToolAwaited ==
  \A t \in RootWork : linked =>
    \E w \in Worker : /\ thr[w].pc \in {"child", "run"}
                      /\ thr[w].pc = "run" => t # sent
                      /\ ToolOf(w) = t
                      /\ thr[w].job = grant
OneRootToolAlive ==
  \A s, t \in RootWork : s = t

RootExclusion ==
  /\ JobNamed(snap) /\ JobNamed(status)
  /\ OwnerHoldsJob
  /\ OneOwner
  /\ LinkHasWorker
  /\ SentIsPrivileged
  /\ WorkerHoldsLock
  /\ RootToolAwaited
  /\ OneRootToolAlive

\* A check whose cancellation was accepted never becomes a review, and what
\* was cancelled is never installed.
CancelHonoured ==
  \A j \in cancelled :
    /\ snap.job = j => snap.phase \notin {"Reviewing", "Running"}
    /\ \A t \in asked : t.job # j \/ t.source = 0

\* The history is bounded, in job order and names no job twice; the log that
\* is being written exists.
HistoryWellFormed ==
  /\ history \in Seq([job : JobId, phase : Phase])
  /\ Len(history) <= HistoryKept
  /\ \A i, j \in DOMAIN history : i < j => history[i].job < history[j].job
  /\ transcript # 0 => transcript \in logs

(* Action properties *)

\* No step of a source is ever started twice, across crashes and restarts.
StartedOnce ==
  [][\A t \in tools' \ tools : t.source # 0 => t \notin started]_vars

\* A staged restart on disk is forgotten only after the machine restarted.
RestartRemembered ==
  [][status.restart # "None" /\ status'.restart = "None" => boot # status.boot]_vars

\* A coordinator that steps aside for a newer program leaves nothing behind:
\* no job is under way in the journal the next one will read, and no attempt
\* is still waiting to be filed.
StepsAsideClean ==
  [][up /\ ~up' /\ gone' = "replaced" /\ faults = 0
       => ~Busy(status') /\ transcript = 0]_vars

\* No power permit is given out while a tool of a running job writes to the
\* machine.  Not so for a tool that needs no root worker: the lock that should
\* keep the permit may have been dropped by the thread of an earlier job.
ToolBlocksPower ==
  [][permit = "none" /\ permit' # "none"
       => \A t \in tools : Attended(t) => t.source = 0]_vars

\* The root worker starts nothing once its channel is lost, as the guide says.
\* Not so: a Start that was already written is served all the same.
NoStartAfterLoss ==
  [][\A t \in tools' \ tools : t.source \in Privileged => linked]_vars
-----------------------------------------------------------------------------
(* Refinement *)

\* What the desktop is told, by this coordinator or by the next.
Told == IF up THEN snap ELSE Recovered(status)

Job == INSTANCE UpdateJob
  WITH job   <- Told.job,
       phase <- Told.phase,
       asked <- {t \in asked : t.source # 0},
       due   <- {sent} \ {NoTool},
       ran   <- {t \in started : t.source # 0}

\* Across kills and starts, what the desktop is told is the life of a job:
\* nothing that did not happen, no outcome taken back, no tool asked for but
\* the running job's, and after its end none started but the one that the root
\* worker had been asked for.
ImplementsJob == Job!Spec
-----------------------------------------------------------------------------
(* Liveness *)

\* A running job always ends, and with it the lock against power actions.
JobEnds == activity ~> ~activity

=============================================================================
