---------------------- MODULE UpdateCoordinator_proofs ----------------------
(***************************************************************************)
(* Proofs about the update coordinator, for any sources, workers and       *)
(* bounds, through crashes of the coordinator, lost channels and restarts  *)
(* of the machine: type correctness, that two root tools are never alive   *)
(* together, and that none is while a power permit holds the root lock.    *)
(*                                                                         *)
(* The argument is the invariant RootExclusion.  A job has one thread in   *)
(* the middle of it (OwnerHoldsJob, OneOwner), because a new job is        *)
(* accepted only when the phase is not busy.  As long as the channel to    *)
(* the root worker holds, a root tool is the one that thread waits for     *)
(* (RootToolAwaited), so the next is not started and the grant is not      *)
(* closed over it; once the channel is lost, no root tool is started       *)
(* before a new worker has the lock, which the old one keeps until its     *)
(* tool is over (LinkHasWorker).                                           *)
(***************************************************************************)
EXTENDS UpdateCoordinator, WellFoundedInduction, FiniteSetTheorems, TLAPS

\* A set of numbers that is not empty has a first one: the next source that
\* install_job and check_job turn to is one of those left.
LEMMA FirstIn ==
  ASSUME NEW S \in SUBSET Nat, S # {}
  PROVE  First(S) \in S
<1>1. PICK x \in S : \A y \in S : ~ (<<y, x>> \in OpToRel(<, Nat))
  BY WFMin, NatLessThanWellFounded
<1>2. \A y \in S : ~ (y < x)
  BY <1>1, Zenon DEF OpToRel
<1>3. \A y \in S : x <= y
  BY <1>2
<1> QED BY <1>1, <1>3 DEF First

-----------------------------------------------------------------------------
(* Type correctness *)

\* A thread that moves to another stage keeps the thread types.
LEMMA GotoType ==
  ASSUME TypeOK, NEW w \in Worker, NEW pc \in PCs, Goto(w, pc)
  PROVE  thr' \in [Worker -> Thread]
BY DEF TypeOK, Goto, Thread

\* So does one that ends,
LEMMA EndType ==
  ASSUME TypeOK, NEW w \in Worker, End(w)
  PROVE  thr' \in [Worker -> Thread]
BY BoundAssumption DEF TypeOK, End, Thread, Free, JobId, PCs

\* and one whose step failed.
LEMMA FailsType ==
  ASSUME TypeOK, NEW w \in Worker, Fails(w)
  PROVE  thr' \in [Worker -> Thread]
<1>1. PICK pc \in PCs : thr' = [thr EXCEPT ![w].good = FALSE, ![w].pc = pc]
  <2>1. "restartFailed" \in PCs /\ "result" \in PCs
    BY DEF PCs
  <2> QED BY <2>1, Zenon DEF Fails
<1> QED BY <1>1 DEF TypeOK, Thread

\* The step a thread is at names a tool.
LEMMA ToolType ==
  ASSUME TypeOK, NEW w \in Worker
  PROVE  ToolOf(w) \in Tool
<1>1. thr[w].todo \subseteq Source /\ thr[w].job \in JobId
      /\ thr[w].step \in 0 .. MaxSteps
  BY DEF TypeOK, Thread
<1>2. Current(w) \in Source \union {0}
  BY <1>1, FirstIn, SourceAssumption DEF Current, Offline
<1> QED BY <1>1, <1>2 DEF ToolOf, Tool

\* The tools a thread can name, and what the process forgets when it ends.
LEMMA DefaultType == Default \in Snapshot
BY BoundAssumption
   DEF Default, Snapshot, JobId, Phase, Restarts, NoTool, Tool

\* A thread without a job is a thread.
LEMMA FreeType == Free \in Thread
BY BoundAssumption DEF Thread, Free, PCs, JobId

\* The process forgets everything in memory when it ends.
LEMMA StoppedType ==
  ASSUME TypeOK,
         NEW why \in {"crash", "replaced", "idle", "reboot"}, Stopped(why)
  PROVE  /\ up' \in BOOLEAN /\ thr' \in [Worker -> Thread]
         /\ snap' \in Snapshot /\ cancelCheck' \in BOOLEAN
         /\ perr' \in BOOLEAN /\ activity' \in BOOLEAN
         /\ transcript' \in JobId
         /\ gone' \in {"never", "crash", "replaced", "idle", "reboot"}
<1>2. 0 \in JobId
  BY BoundAssumption DEF JobId
<1> QED BY <1>2, FreeType, DefaultType DEF Stopped

\* What a start makes of the saved snapshot is a snapshot.
LEMMA RecoveredType ==
  ASSUME TypeOK, NEW s \in Loaded(status)
  PROVE  Recovered(s) \in Snapshot
<1>1. s \in Snapshot
  <2>1. "Idle" \in Phase
    BY DEF Phase
  <2>2. status \in Snapshot
    BY DEF TypeOK
  <2>3. [status EXCEPT !.phase = "Idle"] \in Snapshot
    BY <2>1, <2>2 DEF Snapshot
  <2> QED BY <2>2, <2>3 DEF Loaded
<1>2. "AwaitingVerification" \in Phase /\ "Interrupted" \in Phase
      /\ "None" \in Restarts
  BY DEF Phase, Restarts
<1>3. [s EXCEPT !.phase = "AwaitingVerification", !.child = NoTool,
                !.restart = "None"] \in Snapshot
  BY <1>1, <1>2 DEF Snapshot
<1>4. [s EXCEPT !.phase = "Interrupted"] \in Snapshot
  BY <1>1, <1>2 DEF Snapshot
<1> QED BY <1>1, <1>3, <1>4 DEF Recovered

\* Every state of the coordinator, of its files and of the machine around it
\* is of its type.
THEOREM TypeCorrect == Spec => []TypeOK
<1>1. Init => TypeOK
  <2> SUFFICES ASSUME Init PROVE TypeOK
    OBVIOUS
  <2>1. 0 \in JobId /\ 1 \in 1 .. MaxBoots
        /\ 0 \in 0 .. MaxFaults /\ 0 \in 0 .. MaxCrashes
    BY BoundAssumption DEF JobId
  <2> QED BY <2>1, DefaultType, FreeType DEF Init, TypeOK
<1>2. TypeOK /\ [Next]_vars => TypeOK'
  <2> SUFFICES ASSUME TypeOK, [Next]_vars PROVE TypeOK'
    OBVIOUS
  <2> USE DEF disk, process, power, root, past
  <2>1. CASE Start
    <3>1. PICK s \in Loaded(status) : Change(Recovered(s))
      BY <2>1, Zenon DEF Start
    <3>2. thr' \in [Worker -> Thread]
      <4>1. "recover" \in PCs
        BY DEF PCs
      <4>2. [Free EXCEPT !.pc = "recover"] \in Thread
        BY <4>1, FreeType DEF Thread
      <4>3. \/ thr' = thr
            \/ \E w \in Worker :
                 thr' = [thr EXCEPT ![w] = [Free EXCEPT !.pc = "recover"]]
        BY <2>1, Zenon DEF Start
      <4> QED BY <4>2, <4>3 DEF TypeOK
    <3>3. Recovered(s) \in Snapshot
      BY <3>1, RecoveredType
    <3>4. /\ status' \in Snapshot /\ snap' \in Snapshot
          /\ perr' \in BOOLEAN /\ faults' \in 0 .. MaxFaults
      BY <3>1, <3>3, BoundAssumption DEF Change, Write, TypeOK
    <3>5. /\ up' = TRUE
          /\ UNCHANGED <<history, logs, cancelCheck, activity, transcript,
                         tools, root, power, boot, past>>
      BY <2>1, Zenon DEF Start
    <3> QED BY <3>2, <3>4, <3>5 DEF TypeOK
  <2>2. CASE Crash
    <3>1. crashes' \in 0 .. MaxCrashes
      BY <2>2, BoundAssumption DEF Crash, TypeOK
    <3> QED BY <2>2, <3>1, StoppedType DEF Crash, Dropped, TypeOK
  <2>3. CASE ReplacedExit
    BY <2>3, StoppedType DEF ReplacedExit, Dropped, TypeOK
  <2>4. CASE IdleExit
    BY <2>4, StoppedType DEF IdleExit, Dropped, TypeOK
  <2>5. CASE CancelCheck
    BY <2>5 DEF CancelCheck, TypeOK, Snapshot
  <2>6. ASSUME NEW w \in Worker, NEW selected \in (SUBSET Source) \ {{}},
               Check(w, selected)
        PROVE  TypeOK'
    <3>1. Fresh(selected) \in Snapshot
      <4>1. snap.job + 1 \in JobId /\ "Checking" \in Phase
            /\ boot \in 0 .. MaxBoots /\ snap.restart \in Restarts
        BY <2>6, BoundAssumption
           DEF Check, TypeOK, Snapshot, JobId, Phase
      <4> QED BY <4>1, DefaultType DEF Fresh, Snapshot
    <3>2. [Free EXCEPT !.pc = "launchCheck", !.job = Fresh(selected).job,
                       !.todo = selected] \in Thread
      <4>1. "launchCheck" \in PCs
        BY DEF PCs
      <4> QED BY <4>1, <3>1, FreeType DEF Thread, Snapshot
    <3>3. status' \in Snapshot /\ faults' \in 0 .. MaxFaults
      BY <2>6, <3>1, BoundAssumption DEF Check, Write, TypeOK
    <3> QED BY <2>6, <3>1, <3>2, <3>3 DEF Check, TypeOK
  <2>7. ASSUME NEW w \in Worker, Install(w) PROVE TypeOK'
    <3>1. [snap EXCEPT !.phase = "Running"] \in Snapshot
      <4>1. "Running" \in Phase
        BY DEF Phase
      <4> QED BY <4>1 DEF TypeOK, Snapshot
    <3>2. [Free EXCEPT !.pc = "launchInstall", !.job = snap.job,
                       !.todo = snap.selected] \in Thread
      <4>1. "launchInstall" \in PCs
        BY DEF PCs
      <4> QED BY <4>1, FreeType DEF TypeOK, Thread, Snapshot
    <3>3. status' \in Snapshot /\ faults' \in 0 .. MaxFaults
      BY <2>7, <3>1, BoundAssumption DEF Install, Write, TypeOK
    <3>4. snap.job \in JobId /\ 0 \in JobId
      BY BoundAssumption DEF TypeOK, Snapshot, JobId
    <3> QED BY <2>7, <3>1, <3>2, <3>3, <3>4 DEF Install, TypeOK
  <2>8. ASSUME NEW w \in Worker, Restart(w) PROVE TypeOK'
    <3>1. [snap EXCEPT !.phase = "Restarting"] \in Snapshot
      <4>1. "Restarting" \in Phase
        BY DEF Phase
      <4> QED BY <4>1 DEF TypeOK, Snapshot
    <3>2. [Free EXCEPT !.job = snap.job, !.step = 1,
             !.pc = IF snap.restart = "Normal" THEN "reboot"
                    ELSE "checkpoint"] \in Thread
      <4>1. "reboot" \in PCs /\ "checkpoint" \in PCs
        BY DEF PCs
      <4>2. 1 \in 0 .. MaxSteps /\ snap.job \in JobId
        BY BoundAssumption DEF TypeOK, Snapshot
      <4> QED BY <4>1, <4>2, FreeType DEF Thread
    <3>3. status' \in Snapshot /\ faults' \in 0 .. MaxFaults
      BY <2>8, <3>1, BoundAssumption DEF Restart, Write, TypeOK
    <3> QED BY <2>8, <3>1, <3>2, <3>3 DEF Restart, TypeOK
  <2>9. ASSUME NEW w \in Worker, Runs(w) PROVE TypeOK'
    <3>1. CASE Launch(w)
      <4>1. "query" \in PCs /\ "prepare" \in PCs
        BY DEF PCs
      <4>2. thr' \in [Worker -> Thread]
        BY <3>1, <4>1, GotoType DEF Launch
      <4> QED BY <3>1, <4>2 DEF Launch, TypeOK
    <3>2. CASE CheckThread(w)
      <4>1. CASE Query(w)
        <5>1. snap \in Snapshot
          BY DEF TypeOK
        <5>2. /\ status' \in Snapshot /\ snap' \in Snapshot
              /\ perr' \in BOOLEAN /\ faults' \in 0 .. MaxFaults
          BY <4>1, <5>1, BoundAssumption DEF Query, Change, Write, TypeOK
        <5>3. thr' \in [Worker -> Thread]
          BY <4>1 DEF Query, TypeOK, Thread
        <5> QED BY <4>1, <5>2, <5>3 DEF Query, ThreadOnly, TypeOK
      <4>2. CASE StopQuery(w)
        <5>1. [snap EXCEPT !.phase = "Cancelled"] \in Snapshot
          BY DEF TypeOK, Snapshot, Phase
        <5>2. /\ status' \in Snapshot /\ snap' \in Snapshot
              /\ perr' \in BOOLEAN /\ faults' \in 0 .. MaxFaults
          BY <4>2, <5>1, BoundAssumption DEF StopQuery, Change, Write, TypeOK
        <5>3. thr' \in [Worker -> Thread]
          BY <4>2, EndType DEF StopQuery
        <5> QED BY <4>2, <5>2, <5>3 DEF StopQuery, ThreadOnly, TypeOK
      <4>3. CASE Conclude(w)
        <5>1. snap' \in Snapshot
          BY <4>3 DEF Conclude, Verdict, TypeOK, Snapshot, Phase
        <5>2. thr' \in [Worker -> Thread]
          <6>1. "publish" \in PCs
            BY DEF PCs
          <6> QED BY <4>3, <6>1, GotoType DEF Conclude
        <5> QED BY <4>3, <5>1, <5>2 DEF Conclude, ThreadOnly, TypeOK
      <4>4. CASE Publish(w)
        <5>1. snap \in Snapshot
          BY DEF TypeOK
        <5>2. /\ status' \in Snapshot /\ snap' \in Snapshot
              /\ perr' \in BOOLEAN /\ faults' \in 0 .. MaxFaults
          BY <4>4, <5>1, BoundAssumption DEF Publish, Change, Write, TypeOK
        <5>3. thr' \in [Worker -> Thread]
          <6>1. "notices" \in PCs
            BY DEF PCs
          <6> QED BY <4>4, <6>1, GotoType, EndType DEF Publish
        <5> QED BY <4>4, <5>2, <5>3 DEF Publish, ThreadOnly, TypeOK
      <4> QED BY <3>2, <4>1, <4>2, <4>3, <4>4 DEF CheckThread
    <3>3. CASE InstallThread(w)
      <4>1. CASE Prepare(w)
        <5>1. snap \in Snapshot /\ [snap EXCEPT !.phase = "Failed"] \in Snapshot
          BY DEF TypeOK, Snapshot, Phase
        <5>2. thr' \in [Worker -> Thread]
          <6>1. "refused" \in PCs /\ "begin" \in PCs
            BY DEF PCs
          <6> QED BY <4>1, <6>1, GotoType DEF Prepare, Refused
        <5>3. CASE Refused(w)
          <6>1. /\ status' \in Snapshot /\ snap' \in Snapshot
                /\ perr' \in BOOLEAN /\ faults' \in 0 .. MaxFaults
            BY <5>1, <5>3, BoundAssumption DEF Refused, Change, Write, TypeOK
          <6> QED BY <5>2, <5>3, <6>1 DEF Refused, ThreadOnly, TypeOK
        <5>4. CASE ~Refused(w)
          <6>1. /\ status' \in Snapshot /\ snap' \in Snapshot
                /\ perr' \in BOOLEAN /\ faults' \in 0 .. MaxFaults
            <7>1. Change(snap)
              BY <4>1, <5>4, Zenon DEF Prepare
            <7> QED BY <5>1, <7>1, BoundAssumption DEF Change, Write, TypeOK
          <6> QED BY <4>1, <5>2, <5>4, <6>1 DEF Prepare, ThreadOnly, TypeOK
        <5> QED BY <5>3, <5>4
      <4>2. CASE Begin(w)
        <5>1. snap \in Snapshot /\ [snap EXCEPT !.phase = "Failed"] \in Snapshot
          BY DEF TypeOK, Snapshot, Phase
        <5>2. thr' \in [Worker -> Thread]
          <6>1. "refused" \in PCs /\ "sources" \in PCs
            BY DEF PCs
          <6> QED BY <4>2, <6>1, GotoType DEF Begin, Refused
        <5>3. CASE Refused(w)
          <6>1. /\ status' \in Snapshot /\ snap' \in Snapshot
                /\ perr' \in BOOLEAN /\ faults' \in 0 .. MaxFaults
            BY <5>1, <5>3, BoundAssumption DEF Refused, Change, Write, TypeOK
          <6> QED BY <5>2, <5>3, <6>1 DEF Refused, ThreadOnly, TypeOK
        <5>4. CASE ~Refused(w)
          <6>1. /\ status' \in Snapshot /\ snap' \in Snapshot
                /\ perr' \in BOOLEAN /\ faults' \in 0 .. MaxFaults
            <7>1. Change(snap)
              BY <4>2, <5>4, Zenon DEF Begin
            <7> QED BY <5>1, <7>1, BoundAssumption DEF Change, Write, TypeOK
          <6>2. thr[w].job \in JobId
            BY DEF TypeOK, Thread
          <6>3. grant' \in JobId /\ linked' \in BOOLEAN /\ rootFile' \in BOOLEAN
            BY <4>2, <5>4, <6>2 DEF Begin, TypeOK
          <6> QED BY <4>2, <5>2, <5>4, <6>1, <6>3 DEF Begin, ThreadOnly, TypeOK
        <5> QED BY <5>3, <5>4
      <4>3. CASE NextSource(w)
        <5>1. snap \in Snapshot
          BY DEF TypeOK
        <5>2. /\ status' \in Snapshot /\ snap' \in Snapshot
              /\ perr' \in BOOLEAN /\ faults' \in 0 .. MaxFaults
          BY <4>3, <5>1, BoundAssumption DEF NextSource, Change, Write, TypeOK
        <5>3. thr' \in [Worker -> Thread]
          <6>1. "result" \in PCs /\ "checkpoint" \in PCs /\ 1 \in 0 .. MaxSteps
            BY BoundAssumption DEF PCs
          <6>2. \/ \E good \in BOOLEAN :
                   thr' = [thr EXCEPT ![w].pc = "result", ![w].good = good]
               \/ thr' = [thr EXCEPT ![w].pc = "checkpoint", ![w].step = 1]
            BY <4>3, Zenon DEF NextSource
          <6> QED BY <6>1, <6>2 DEF TypeOK, Thread
        <5> QED BY <4>3, <5>2, <5>3 DEF NextSource, ThreadOnly, TypeOK
      <4>4. CASE Stage(w)
        <5>1. [snap EXCEPT !.restart = StagedAs] \in Snapshot
          BY StagedAssumption DEF TypeOK, Snapshot, Restarts
        <5>2. /\ status' \in Snapshot /\ snap' \in Snapshot
              /\ perr' \in BOOLEAN /\ faults' \in 0 .. MaxFaults
          BY <4>4, <5>1, BoundAssumption DEF Stage, Change, Write, TypeOK
        <5>3. thr' \in [Worker -> Thread]
          <6>1. "result" \in PCs
            BY DEF PCs
          <6>2. \E good \in BOOLEAN :
                 thr' = [thr EXCEPT ![w].pc = "result", ![w].good = good]
            <7>1. \E good \in IF StagedAs = "Normal" THEN BOOLEAN ELSE {TRUE} :
                    thr' = [thr EXCEPT ![w].pc = "result", ![w].good = good]
              BY <4>4, Zenon DEF Stage
            <7>2. CASE StagedAs = "Normal"
              BY <7>1, <7>2, Zenon
            <7>3. CASE StagedAs # "Normal"
              <8>1. thr' = [thr EXCEPT ![w].pc = "result", ![w].good = TRUE]
                BY <7>1, <7>3, Zenon
              <8> WITNESS TRUE \in BOOLEAN
              <8> QED BY <8>1
            <7> QED BY <7>2, <7>3
          <6>3. ASSUME NEW good \in BOOLEAN,
                       thr' = [thr EXCEPT ![w].pc = "result", ![w].good = good]
                PROVE  thr' \in [Worker -> Thread]
            BY <6>1, <6>3 DEF TypeOK, Thread
          <6> QED BY <6>2, <6>3
        <5> QED BY <4>4, <5>2, <5>3 DEF Stage, ThreadOnly, TypeOK
      <4>5. CASE Result(w)
        <5>1. [snap EXCEPT !.results = @ \union {thr[w].good}] \in Snapshot
          BY DEF TypeOK, Snapshot, Thread
        <5>2. /\ status' \in Snapshot /\ snap' \in Snapshot
              /\ perr' \in BOOLEAN /\ faults' \in 0 .. MaxFaults
          <6>1. Change([snap EXCEPT !.results = @ \union {thr[w].good}])
            BY <4>5, Zenon DEF Result
          <6> QED BY <5>1, <6>1, BoundAssumption DEF Change, Write, TypeOK
        <5>3. thr' \in [Worker -> Thread]
          <6>1. "sources" \in PCs
            BY DEF PCs
          <6> QED BY <4>5, <6>1 DEF Result, TypeOK, Thread
        <5> QED BY <4>5, <5>2, <5>3 DEF Result, ThreadOnly, TypeOK
      <4>6. CASE Close(w)
        <5>1. thr' \in [Worker -> Thread]
          <6>1. "final" \in PCs
            BY DEF PCs
          <6> QED BY <4>6, <6>1, GotoType DEF Close
        <5>2. grant' \in JobId
          BY <4>6, BoundAssumption DEF Close, TypeOK, JobId
        <5> QED BY <4>6, <5>1, <5>2 DEF Close, TypeOK
      <4>7. CASE Finish(w)
        <5>1. [snap EXCEPT !.phase = Outcome(snap.results), !.child = NoTool] \in Snapshot
          BY DEF TypeOK, Snapshot, Phase, Outcome
        <5>2. /\ status' \in Snapshot /\ snap' \in Snapshot
              /\ perr' \in BOOLEAN /\ faults' \in 0 .. MaxFaults
          BY <4>7, <5>1, BoundAssumption DEF Finish, Change, Write, TypeOK
        <5>3. thr' \in [Worker -> Thread]
          <6>1. "release" \in PCs
            BY DEF PCs
          <6> QED BY <4>7, <6>1, GotoType DEF Finish
        <5> QED BY <4>7, <5>2, <5>3 DEF Finish, ThreadOnly, TypeOK
      <4>8. CASE Release(w)
        <5>1. thr' \in [Worker -> Thread]
          <6>1. "notice" \in PCs /\ "giveUp" \in PCs
            BY DEF PCs
          <6> QED BY <4>8, <6>1, GotoType DEF Release
        <5> QED BY <4>8, <5>1 DEF Release, ThreadOnly, TypeOK
      <4>9. CASE Notice(w)
        <5>1. snap \in Snapshot
          BY DEF TypeOK
        <5>2. /\ status' \in Snapshot /\ snap' \in Snapshot
              /\ perr' \in BOOLEAN /\ faults' \in 0 .. MaxFaults
          <6>1. Change(snap) \/ UNCHANGED <<status, snap, perr, faults>>
            BY <4>9, Zenon DEF Notice
          <6>2. CASE Change(snap)
            BY <5>1, <6>2, BoundAssumption DEF Change, Write, TypeOK
          <6>3. CASE UNCHANGED <<status, snap, perr, faults>>
            BY <6>3 DEF TypeOK
          <6> QED BY <6>1, <6>2, <6>3
        <5>3. thr' \in [Worker -> Thread]
          <6>1. "archive" \in PCs
            BY DEF PCs
          <6> QED BY <4>9, <6>1, GotoType DEF Notice
        <5> QED BY <4>9, <5>2, <5>3 DEF Notice, ThreadOnly, TypeOK
      <4>10. CASE Archive(w)
        <5>1. thr' \in [Worker -> Thread]
          <6>1. "recount" \in PCs /\ "unfiled" \in PCs
            BY DEF PCs
          <6>2. \/ Goto(w, "recount") \/ End(w)
                \/ \E good \in BOOLEAN :
                     thr' = [thr EXCEPT ![w].pc = "unfiled", ![w].good = good]
            BY <4>10 DEF Archive
          <6>3. ASSUME NEW good \in BOOLEAN,
                       thr' = [thr EXCEPT ![w].pc = "unfiled", ![w].good = good]
                PROVE  thr' \in [Worker -> Thread]
            BY <6>1, <6>3 DEF TypeOK, Thread
          <6> QED BY <6>1, <6>2, <6>3, GotoType, EndType
        <5>2. logs' \subseteq logs /\ faults' \in 0 .. MaxFaults
          BY <4>10, BoundAssumption DEF Archive, Write, TypeOK
        <5>3. 0 \in JobId
          BY BoundAssumption DEF JobId
        <5> QED BY <4>10, <5>1, <5>2, <5>3 DEF Archive, TypeOK
      <4>11. CASE Unfiled(w)
        <5>1. snap \in Snapshot
          BY DEF TypeOK
        <5>2. /\ status' \in Snapshot /\ snap' \in Snapshot
              /\ perr' \in BOOLEAN /\ faults' \in 0 .. MaxFaults
          BY <4>11, <5>1, BoundAssumption DEF Unfiled, Change, Write, TypeOK
        <5>3. thr' \in [Worker -> Thread]
          <6>1. "recount" \in PCs
            BY DEF PCs
          <6> QED BY <4>11, <6>1, GotoType, EndType DEF Unfiled
        <5> QED BY <4>11, <5>2, <5>3 DEF Unfiled, ThreadOnly, TypeOK
      <4>12. CASE Recount(w)
        <5>1. snap \in Snapshot
          BY DEF TypeOK
        <5>2. /\ status' \in Snapshot /\ snap' \in Snapshot
              /\ perr' \in BOOLEAN /\ faults' \in 0 .. MaxFaults
          <6>1. Change(snap) \/ UNCHANGED <<status, snap, perr, faults>>
            BY <4>12, Zenon DEF Recount
          <6>2. CASE Change(snap)
            BY <5>1, <6>2, BoundAssumption DEF Change, Write, TypeOK
          <6>3. CASE UNCHANGED <<status, snap, perr, faults>>
            BY <6>3 DEF TypeOK
          <6> QED BY <6>1, <6>2, <6>3
        <5>3. thr' \in [Worker -> Thread]
          BY <4>12, EndType DEF Recount
        <5> QED BY <4>12, <5>2, <5>3 DEF Recount, ThreadOnly, TypeOK
      <4> QED BY <3>3, <4>1, <4>2, <4>3, <4>4, <4>5, <4>6, <4>7, <4>8, <4>9, <4>10, <4>11, <4>12 DEF InstallThread
    <3>4. CASE ToolThread(w)
      <4>1. CASE Checkpoint(w)
        <5>1. thr' \in [Worker -> Thread]
          <6>1. "spawn" \in PCs
            BY DEF PCs
          <6>2. Fails(w) \/ Goto(w, "spawn")
            BY <4>1 DEF Checkpoint
          <6> QED BY <6>1, <6>2, FailsType, GotoType
        <5>2. /\ status' \in Snapshot /\ perr' \in BOOLEAN
              /\ faults' \in 0 .. MaxFaults
          <6>1. /\ status' \in {status, snap}
                /\ perr' = perr \/ perr' = TRUE
                /\ \/ faults' = faults
                   \/ faults < MaxFaults /\ faults' = faults + 1
            BY <4>1 DEF Checkpoint, Write
          <6>2. faults' \in 0 .. MaxFaults
            BY <6>1, BoundAssumption DEF TypeOK
          <6> QED BY <6>1, <6>2 DEF TypeOK
        <5>3. UNCHANGED <<snap, activity, transcript, tools, root, power>>
              /\ ThreadOnly
          BY <4>1, Zenon DEF Checkpoint
        <5> QED BY <5>1, <5>2, <5>3 DEF ThreadOnly, TypeOK
      <4>2. CASE Spawn(w) \/ Ask(w)
        <5>1. thr' \in [Worker -> Thread]
          <6>1. "child" \in PCs
            BY DEF PCs
          <6> QED BY <4>2, <6>1, GotoType DEF Spawn, Ask
        <5>2. CASE Spawn(w)
          <6>1. /\ tools' \subseteq started' /\ started' \subseteq asked'
                /\ asked' \subseteq Tool /\ sent' = sent /\ asked \subseteq asked'
            BY <5>2, ToolType DEF Spawn, TypeOK
          <6> QED BY <5>1, <5>2, <6>1 DEF Spawn, TypeOK
        <5>3. CASE Ask(w)
          <6>1. /\ started' \subseteq asked' /\ asked' \subseteq Tool
                /\ sent' \in asked'
            BY <5>3, ToolType DEF Ask, TypeOK
          <6> QED BY <5>1, <5>3, <6>1 DEF Ask, TypeOK
        <5> QED BY <4>2, <5>2, <5>3
      <4>3. CASE SpawnFails(w)
        BY <4>3, FailsType DEF SpawnFails, TypeOK
      <4>4. CASE Child(w)
        <5>1. [snap EXCEPT !.child = ToolOf(w)] \in Snapshot
          BY ToolType DEF TypeOK, Snapshot
        <5>2. /\ status' \in Snapshot /\ snap' \in Snapshot
              /\ perr' \in BOOLEAN /\ faults' \in 0 .. MaxFaults
          BY <4>4, <5>1, BoundAssumption DEF Child, Change, Write, TypeOK
        <5>3. thr' \in [Worker -> Thread]
          <6>1. "run" \in PCs
            BY DEF PCs
          <6> QED BY <4>4, <6>1, GotoType DEF Child
        <5> QED BY <4>4, <5>2, <5>3 DEF Child, ThreadOnly, TypeOK
      <4>5. CASE Reap(w)
        <5>1. [snap EXCEPT !.child = NoTool] \in Snapshot
          BY DEF TypeOK, Snapshot
        <5>2. /\ status' \in Snapshot /\ snap' \in Snapshot
              /\ perr' \in BOOLEAN /\ faults' \in 0 .. MaxFaults
          BY <4>5, <5>1, BoundAssumption DEF Reap, Change, Write, TypeOK
        <5>3. thr' \in [Worker -> Thread]
          <6>1. "checkpoint" \in PCs /\ "result" \in PCs /\ "stage" \in PCs
            BY DEF PCs
          <6>2. \/ Fails(w) \/ End(w) \/ Goto(w, "stage")
                \/ /\ MoreSteps(w)
                   /\ thr' = [thr EXCEPT ![w].pc = "checkpoint",
                                         ![w].step = NextStep(w)]
                \/ thr' = [thr EXCEPT ![w].pc = "result", ![w].good = TRUE]
            BY <4>5, Zenon DEF Reap
          <6>3. ASSUME MoreSteps(w),
                       thr' = [thr EXCEPT ![w].pc = "checkpoint",
                                          ![w].step = NextStep(w)]
                PROVE  thr' \in [Worker -> Thread]
            <7>1. NextStep(w) \in 0 .. MaxSteps
              BY <6>3, BoundAssumption DEF MoreSteps, NextStep, TypeOK, Thread
            <7> QED BY <6>1, <6>3, <7>1 DEF TypeOK, Thread
          <6>4. ASSUME thr' = [thr EXCEPT ![w].pc = "result", ![w].good = TRUE]
                PROVE  thr' \in [Worker -> Thread]
            BY <6>1, <6>4 DEF TypeOK, Thread
          <6> QED BY <6>1, <6>2, <6>3, <6>4, FailsType, EndType, GotoType
        <5>4. permit' \in {"none", "shell", "restart"} /\ permitRoot' \in BOOLEAN
          BY <4>5 DEF Reap, TypeOK
        <5>5. UNCHANGED <<activity, transcript, tools, root>> /\ ThreadOnly
          BY <4>5, Zenon DEF Reap
        <5> QED BY <5>2, <5>3, <5>4, <5>5 DEF ThreadOnly, TypeOK
      <4>6. CASE Denied(w)
        <5>1. [snap EXCEPT !.child = NoTool] \in Snapshot
          BY DEF TypeOK, Snapshot
        <5>2. /\ status' \in Snapshot /\ snap' \in Snapshot
              /\ perr' \in BOOLEAN /\ faults' \in 0 .. MaxFaults
          BY <4>6, <5>1, BoundAssumption DEF Denied, Change, Write, TypeOK
        <5>3. thr' \in [Worker -> Thread]
          BY <4>6, FailsType DEF Denied
        <5> QED BY <4>6, <5>2, <5>3 DEF Denied, ThreadOnly, TypeOK
      <4> QED BY <3>4, <4>1, <4>2, <4>3, <4>4, <4>5, <4>6 DEF ToolThread
    <3>5. CASE RestartThread(w)
      <4>1. CASE Reboots(w)
        BY <4>1, EndType DEF Reboots, TypeOK
      <4>2. CASE RestartFails(w)
        <5>1. [snap EXCEPT !.phase = "Partial"] \in Snapshot
          BY DEF TypeOK, Snapshot, Phase
        <5>2. /\ status' \in Snapshot /\ snap' \in Snapshot
              /\ perr' \in BOOLEAN /\ faults' \in 0 .. MaxFaults
          BY <4>2, <5>1, BoundAssumption DEF RestartFails, Change, Write, TypeOK
        <5>3. thr' \in [Worker -> Thread]
          BY <4>2, EndType DEF RestartFails
        <5> QED BY <4>2, <5>2, <5>3 DEF RestartFails, ThreadOnly, TypeOK
      <4> QED BY <3>5, <4>1, <4>2 DEF RestartThread
    <3> QED BY <2>9, <3>1, <3>2, <3>3, <3>4, <3>5 DEF Runs
  <2>10. ASSUME NEW w \in Worker, LaunchFails(w) PROVE TypeOK'
    <3>1. snap' \in Snapshot
      BY <2>10 DEF LaunchFails, TypeOK, Snapshot, Phase
    <3>2. faults' \in 0 .. MaxFaults
      BY <2>10, BoundAssumption DEF LaunchFails, TypeOK
    <3>3. thr' \in [Worker -> Thread]
      BY <2>10, EndType DEF LaunchFails
    <3>4. status' = snap' /\ activity' = FALSE
          /\ UNCHANGED <<perr, transcript, tools, root, power>> /\ ThreadOnly
      BY <2>10, Zenon DEF LaunchFails
    <3> QED BY <3>1, <3>2, <3>3, <3>4 DEF ThreadOnly, TypeOK
  <2>11. ASSUME NEW w \in Worker, OutputLost(w) PROVE TypeOK'
    BY <2>11, BoundAssumption DEF OutputLost, TypeOK
  <2>12. CASE Machine
    <3>1. ASSUME NEW t \in tools, ToolExits(t) PROVE TypeOK'
      <4>1. tools' \subseteq tools
        BY <3>1 DEF ToolExits
      <4> QED BY <3>1, <4>1 DEF ToolExits, TypeOK
    <3>2. CASE ChannelLost
      <4>1. crashes' \in 0 .. MaxCrashes
        BY <3>2, BoundAssumption DEF ChannelLost, TypeOK
      <4> QED BY <3>2, <4>1 DEF ChannelLost, TypeOK
    <3>3. CASE WorkerEnds
      BY <3>3, BoundAssumption DEF WorkerEnds, TypeOK, JobId
    <3>4. CASE TakePermit
      BY <3>4 DEF TakePermit, TypeOK
    <3>5. CASE DropPermit
      BY <3>5 DEF DropPermit, TypeOK
    <3>6. CASE Reboot
      <4>1. boot' \in 1 .. MaxBoots /\ 0 \in JobId
        BY <3>6, BoundAssumption DEF Reboot, TypeOK, JobId
      <4> QED BY <3>6, <4>1, StoppedType DEF Reboot, TypeOK
    <3>7. CASE Serve
      <4>1. tools' \subseteq started' /\ started' \subseteq asked'
        BY <3>7 DEF Serve, TypeOK
      <4> QED BY <3>7, <4>1 DEF Serve, TypeOK
    <3>8. CASE Deny
      BY <3>8 DEF Deny, TypeOK
    <3> QED BY <2>12, <3>1, <3>2, <3>3, <3>4, <3>5, <3>6, <3>7, <3>8 DEF Machine
  <2>13. CASE UNCHANGED vars
    BY <2>13 DEF vars, TypeOK
  <2> QED BY <2>1, <2>2, <2>3, <2>4, <2>5, <2>6, <2>7, <2>8, <2>9, <2>10,
             <2>11, <2>12, <2>13 DEF Next, Lifecycle, Requests
<1> QED BY <1>1, <1>2, PTL DEF Spec


-----------------------------------------------------------------------------
(* Root tools and power *)


\* An owner's coordinator is busy with a job that has a number.
LEMMA OwnerBusy ==
  ASSUME RootExclusion, NEW w \in Worker, Owns(w)
  PROVE  Busy(snap) /\ up /\ thr[w].job = snap.job /\ snap.job # 0
BY DEF RootExclusion, OwnerHoldsJob, JobNamed, Busy

\* An owner that waits for no tool has none running, unless the channel to
\* the root worker is lost.
LEMMA NoneAwaited ==
  ASSUME RootExclusion, NEW w \in Worker, Owns(w),
         thr[w].pc \notin {"child", "run"}, linked
  PROVE  RootWork = {}
BY DEF RootExclusion, OneOwner, RootToolAwaited, Owns, Own

\* Between jobs nobody owns the coordinator's job.
LEMMA NoOwner ==
  ASSUME RootExclusion, ~Busy(snap) \/ ~up
  PROVE  /\ \A v \in Worker : ~Owns(v)
         /\ linked => RootWork = {}
<1>1. \A v \in Worker : ~Owns(v)
  BY DEF RootExclusion, OwnerHoldsJob
<1> QED BY <1>1 DEF RootExclusion, RootToolAwaited, Owns, Own

\* A step of one thread that starts no tool: the thread does not become an
\* owner by it, only an owner moves the phase or the restart, and the root
\* worker comes and goes without a root tool.
LEMMA ThreadStep ==
  ASSUME TypeOK, RootExclusion, NEW w \in Worker,
         thr[w].pc \notin {"child", "run"} \/ ~linked \/ RootWork = {},
         \A v \in Worker : v # w => thr'[v] = thr[v],
         Owns(w)' => Owns(w) /\ thr'[w].job = thr[w].job /\ Busy(snap)',
         Owns(w) \/ (snap'.phase = snap.phase /\ snap'.restart = snap.restart),
         snap'.job = snap.job, up' = up, status' \in {status, snap'},
         tools' = tools, sent' = sent, permitRoot' => permitRoot,
         \/ grant' = grant /\ (linked' => linked)
         \/ RootWork = {} /\ (linked' => grant' # 0) /\ (permitRoot' => grant' = 0)
  PROVE  RootExclusion'
<1>1. JobNamed(snap)' /\ JobNamed(status)'
  <2>1. JobNamed(snap)'
    BY OwnerBusy DEF RootExclusion, JobNamed
  <2> QED BY <2>1 DEF RootExclusion, JobNamed
<1>2. \A v \in Worker : Owns(v)' => Owns(v) /\ thr'[v].job = thr[v].job
  BY DEF Owns
<1>3. OneOwner'
  BY <1>2 DEF RootExclusion, OneOwner
<1>4. OwnerHoldsJob'
  <2> SUFFICES ASSUME NEW v \in Worker, Owns(v)'
               PROVE  up' /\ Busy(snap)' /\ thr'[v].job = snap'.job
    BY DEF OwnerHoldsJob
  <2>1. Owns(v) /\ thr'[v].job = thr[v].job /\ up /\ Busy(snap)
        /\ thr[v].job = snap.job
    BY <1>2, OwnerBusy
  <2>2. CASE v = w
    BY <2>1, <2>2
  <2>3. CASE v # w
    <3>1. ~Owns(w)
      BY <2>1, <2>3 DEF RootExclusion, OneOwner
    <3> QED BY <2>1, <3>1 DEF Busy
  <2> QED BY <2>2, <2>3
<1>5. RootWork' = RootWork
  BY DEF RootWork, RootTools
<1>6. RootToolAwaited'
  <2> SUFFICES ASSUME NEW t \in RootWork, linked'
               PROVE  \E v \in Worker : /\ thr'[v].pc \in {"child", "run"}
                                        /\ thr'[v].pc = "run" => t # sent'
                                        /\ ToolOf(v)' = t
                                        /\ thr'[v].job = grant'
    BY <1>5 DEF RootToolAwaited
  <2>0. linked /\ grant' = grant
    OBVIOUS
  <2>1. PICK v \in Worker : /\ thr[v].pc \in {"child", "run"}
                            /\ thr[v].pc = "run" => t # sent
                            /\ ToolOf(v) = t /\ thr[v].job = grant
    BY <2>0 DEF RootExclusion, RootToolAwaited
  <2>2. thr'[v] = thr[v]
    BY <2>0, <2>1
  <2>3. ToolOf(v)' = ToolOf(v)
    BY <2>2 DEF ToolOf, Current, Offline
  <2> QED BY <2>0, <2>1, <2>2, <2>3
<1>7. LinkHasWorker' /\ SentIsPrivileged' /\ WorkerHoldsLock' /\ OneRootToolAlive'
  BY <1>5 DEF RootExclusion, LinkHasWorker, SentIsPrivileged, WorkerHoldsLock, OneRootToolAlive
<1> QED BY <1>1, <1>3, <1>4, <1>6, <1>7 DEF RootExclusion

\* A request that starts a job: its thread is the owner now.
LEMMA OwnerStarts ==
  ASSUME TypeOK, RootExclusion, NEW w \in Worker,
         ~Busy(snap), Busy(snap)', up, up' = up,
         \A v \in Worker : v # w => thr'[v] = thr[v],
         thr'[w].job = snap'.job,
         JobNamed(snap)', status' \in {status, snap'},
         UNCHANGED <<tools, sent, grant, linked>>,
         permitRoot' => permitRoot \/ grant = 0
  PROVE  RootExclusion'
<1>1. /\ \A v \in Worker : ~Owns(v)
      /\ linked => RootWork = {}
  BY NoOwner
<1>2. \A v \in Worker : Owns(v)' => v = w
  BY <1>1 DEF Owns
<1>3. RootWork' = RootWork
  BY DEF RootWork, RootTools
<1>4. OwnerHoldsJob' /\ OneOwner'
  BY <1>2 DEF OwnerHoldsJob, OneOwner
<1>5. JobNamed(status)'
  BY DEF RootExclusion, JobNamed
<1>6. LinkHasWorker' /\ SentIsPrivileged' /\ WorkerHoldsLock' /\ RootToolAwaited' /\ OneRootToolAlive'
  BY <1>1, <1>3 DEF RootExclusion, LinkHasWorker, SentIsPrivileged, WorkerHoldsLock,
                    RootToolAwaited, OneRootToolAlive
<1> QED BY <1>4, <1>5, <1>6 DEF RootExclusion

\* The machine around the coordinator: tools end, the channel breaks, the
\* worker leaves once no root tool is left, permits come and go.
LEMMA MachineStep ==
  ASSUME TypeOK, RootExclusion, UNCHANGED <<thr, up>>,
         snap'.job = snap.job, snap'.phase = snap.phase,
         snap'.restart = snap.restart, status' = status,
         tools' \subseteq tools, sent' \in {sent, NoTool}, linked' => linked,
         \/ grant' = grant
         \/ grant' = 0 /\ RootWork' = {} /\ ~linked',
         permitRoot' => permitRoot \/ grant = 0
  PROVE  RootExclusion'
<1>1. RootWork' \subseteq RootWork
  BY DEF RootWork, RootTools
<1>2. JobNamed(snap)' /\ JobNamed(status)' /\ OwnerHoldsJob' /\ OneOwner'
  BY DEF RootExclusion, JobNamed, OwnerHoldsJob, OneOwner, Owns, Busy
<1>3. LinkHasWorker' /\ SentIsPrivileged' /\ WorkerHoldsLock' /\ OneRootToolAlive'
  BY <1>1 DEF RootExclusion, LinkHasWorker, SentIsPrivileged, WorkerHoldsLock, OneRootToolAlive
<1>4. RootToolAwaited'
  <2>1. \A v \in Worker : ToolOf(v)' = ToolOf(v)
    BY DEF ToolOf, Current, Offline
  <2>2. NoTool \notin RootWork
    BY SourceAssumption DEF RootWork, RootTools, NoTool
  <2> QED BY <1>1, <2>1, <2>2 DEF RootExclusion, RootToolAwaited
<1> QED BY <1>2, <1>3, <1>4 DEF RootExclusion

\* The coordinator ends, and its end of the channel with it.
LEMMA EndStep ==
  ASSUME TypeOK, RootExclusion, NEW why, Stopped(why), status' = status,
         ~linked', tools' \subseteq tools, sent' \in {sent, NoTool},
         grant' = grant \/ (grant' = 0 /\ tools' = {} /\ sent' = NoTool),
         permitRoot' => permitRoot
  PROVE  RootExclusion'
<1>1. RootWork' \subseteq RootWork /\ (tools' = {} /\ sent' = NoTool => RootWork' = {})
  BY DEF RootWork, RootTools
<1>2. \A w \in Worker : ~Owns(w)'
  BY DEF Stopped, Owns, Own, Free
<1>3. OwnerHoldsJob' /\ OneOwner'
  BY <1>2 DEF OwnerHoldsJob, OneOwner
<1>4. JobNamed(snap)' /\ JobNamed(status)'
  BY DEF Stopped, Default, RootExclusion, JobNamed
<1>5. LinkHasWorker' /\ SentIsPrivileged' /\ WorkerHoldsLock' /\ OneRootToolAlive' /\ RootToolAwaited'
  BY <1>1 DEF RootExclusion, LinkHasWorker, SentIsPrivileged, WorkerHoldsLock,
              OneRootToolAlive, RootToolAwaited
<1> QED BY <1>3, <1>4, <1>5 DEF RootExclusion

\* A request that is refused at its save.
LEMMA StillExcluded ==
  ASSUME TypeOK, RootExclusion, ~Busy(snap), UNCHANGED <<snap, thr, up>>,
         JobNamed(snap)', JobNamed(status)',
         UNCHANGED <<tools, sent, grant, linked>>,
         permitRoot' => permitRoot \/ grant = 0
  PROVE  RootExclusion'
<1>1. RootWork' = RootWork /\ (linked => RootWork = {})
  BY NoOwner DEF RootWork, RootTools
<1>2. OwnerHoldsJob' /\ OneOwner'
  BY DEF RootExclusion, OwnerHoldsJob, OneOwner, Owns, Busy
<1>3. LinkHasWorker' /\ SentIsPrivileged' /\ WorkerHoldsLock' /\ OneRootToolAlive' /\ RootToolAwaited'
  BY <1>1 DEF RootExclusion, LinkHasWorker, SentIsPrivileged, WorkerHoldsLock,
              OneRootToolAlive, RootToolAwaited
<1> QED BY <1>2, <1>3 DEF RootExclusion

\* The exclusion of root tools, preserved by every step.
LEMMA ExclusionStep ==
  ASSUME TypeOK, RootExclusion, [Next]_vars
  PROVE  RootExclusion'
<1> USE DEF disk, process, power, root, past
<1>1. CASE Start
  <2>1. /\ ~up /\ \E s \in Loaded(status) : Change(Recovered(s))
        /\ UNCHANGED <<tools, root, power>>
    BY <1>1, Zenon DEF Start
  <2>2. PICK s \in Loaded(status) : Change(Recovered(s))
    BY <2>1
  <2>3. snap' = Recovered(s) /\ status' \in {status, Recovered(s)}
    BY <2>2 DEF Change, Write
  <2>4. JobNamed(status)
    BY DEF RootExclusion
  <2>5. JobNamed(s)
    <3>1. \/ s = status
          \/ status.phase = "Reviewing" /\ s = [status EXCEPT !.phase = "Idle"]
      BY DEF Loaded
    <3> QED BY <2>4, <3>1 DEF JobNamed, TypeOK, Snapshot
  <2>6. s \in Snapshot
    <3>1. "Idle" \in Phase
      BY DEF Phase
    <3> QED BY <3>1 DEF Loaded, TypeOK, Snapshot
  <2>7. JobNamed(Recovered(s))
    BY <2>5, <2>6 DEF JobNamed, Recovered, Busy, Snapshot
  <2>8. JobNamed(snap)' /\ JobNamed(status)'
    BY <2>3, <2>4, <2>7 DEF JobNamed
  <2>9. /\ \A v \in Worker : ~Owns(v)
        /\ linked => RootWork = {}
    BY <2>1, NoOwner
  <2>10. \A v \in Worker : ~Owns(v)'
    <3>1. \/ thr' = thr
          \/ \E w \in Worker :
               thr' = [thr EXCEPT ![w] = [Free EXCEPT !.pc = "recover"]]
      BY <1>1, Zenon DEF Start
    <3>2. CASE thr' = thr
      BY <2>9, <3>2 DEF Owns
    <3>3. ASSUME NEW w \in Worker,
                 thr' = [thr EXCEPT ![w] = [Free EXCEPT !.pc = "recover"]]
          PROVE  \A v \in Worker : ~Owns(v)'
      BY <2>9, <3>3 DEF Owns, Own, TypeOK, Free
    <3> QED BY <3>1, <3>2, <3>3
  <2>11. OwnerHoldsJob' /\ OneOwner'
    BY <2>10 DEF OwnerHoldsJob, OneOwner
  <2>12. RootWork' = RootWork
    BY <2>1 DEF RootWork, RootTools
  <2>13. LinkHasWorker' /\ SentIsPrivileged' /\ WorkerHoldsLock' /\ OneRootToolAlive' /\ RootToolAwaited'
    BY <2>1, <2>9, <2>12 DEF RootExclusion, LinkHasWorker, SentIsPrivileged, WorkerHoldsLock,
                             OneRootToolAlive, RootToolAwaited
  <2> QED BY <2>8, <2>11, <2>13 DEF RootExclusion
<1>2. CASE Crash
  BY <1>2, EndStep DEF Crash, Dropped
<1>3. CASE ReplacedExit
  BY <1>3, EndStep DEF ReplacedExit, Dropped
<1>4. CASE IdleExit
  BY <1>4, EndStep DEF IdleExit, Dropped
<1>5. CASE CancelCheck
  BY <1>5, MachineStep DEF CancelCheck
<1>6. ASSUME NEW w \in Worker, NEW selected \in (SUBSET Source) \ {{}},
             Check(w, selected)
      PROVE  RootExclusion'
  <2>1. up /\ up' = up /\ ~Busy(snap)
        /\ UNCHANGED <<tools, root, power>>
    BY <1>6 DEF Check, Serving
  <2>2. CASE UNCHANGED <<snap, thr>>
    <3>1. status' \in {status, Fresh(selected)}
      BY <1>6 DEF Check, Write
    <3>2. Fresh(selected).job # 0
      BY DEF Fresh, Default, TypeOK, Snapshot, JobId
    <3>3. JobNamed(snap)' /\ JobNamed(status)'
      BY <2>2, <3>1, <3>2 DEF RootExclusion, JobNamed
    <3> QED BY <2>1, <2>2, <3>3, StillExcluded
  <2>3. CASE ~UNCHANGED <<snap, thr>>
    <3>1. /\ status' = Fresh(selected) /\ snap' = Fresh(selected)
          /\ thr' = [thr EXCEPT ![w] = [Free EXCEPT !.pc = "launchCheck",
                         !.job = Fresh(selected).job, !.todo = selected]]
      BY <1>6, <2>3 DEF Check, Write
    <3>2. /\ \A v \in Worker : v # w => thr'[v] = thr[v]
          /\ thr'[w].job = snap'.job
      BY <3>1 DEF TypeOK, Free
    <3>3. Busy(snap)' /\ JobNamed(snap)'
      BY <3>1 DEF Fresh, Default, Busy, JobNamed, TypeOK, Snapshot, JobId
    <3> QED BY <2>1, <3>1, <3>2, <3>3, OwnerStarts
  <2> QED BY <2>2, <2>3
<1>7. ASSUME NEW w \in Worker, Install(w) PROVE RootExclusion'
  <2>1. /\ up /\ up' = up /\ snap.phase = "Reviewing" /\ ~Busy(snap)
        /\ UNCHANGED <<tools, root, power>>
    BY <1>7 DEF Install, Serving, Busy
  <2>2. [snap EXCEPT !.phase = "Running"].job = snap.job
        /\ JobNamed([snap EXCEPT !.phase = "Running"])
        /\ Busy([snap EXCEPT !.phase = "Running"])
    BY <2>1 DEF RootExclusion, JobNamed, Busy, TypeOK, Snapshot
  <2>3. CASE UNCHANGED <<snap, thr>>
    <3>1. status' \in {status, [snap EXCEPT !.phase = "Running"]}
      BY <1>7 DEF Install, Write
    <3>2. JobNamed(snap)' /\ JobNamed(status)'
      BY <2>2, <2>3, <3>1 DEF RootExclusion, JobNamed
    <3> QED BY <2>1, <2>3, <3>2, StillExcluded
  <2>4. CASE ~UNCHANGED <<snap, thr>>
    <3>1. /\ status' = [snap EXCEPT !.phase = "Running"]
          /\ snap' = [snap EXCEPT !.phase = "Running"]
          /\ thr' = [thr EXCEPT ![w] = [Free EXCEPT !.pc = "launchInstall",
                         !.job = snap.job, !.todo = snap.selected]]
      BY <1>7, <2>4 DEF Install, Write
    <3>2. /\ \A v \in Worker : v # w => thr'[v] = thr[v]
          /\ thr'[w].job = snap'.job
      BY <2>2, <3>1 DEF TypeOK, Free
    <3>3. Busy(snap)' /\ JobNamed(snap)'
      BY <2>2, <3>1 DEF Busy, JobNamed
    <3> QED BY <2>1, <3>1, <3>2, <3>3, OwnerStarts
  <2> QED BY <2>3, <2>4
<1>8. ASSUME NEW w \in Worker, Restart(w) PROVE RootExclusion'
  <2>1. /\ up /\ up' = up /\ ~Busy(snap) /\ snap.restart # "None"
        /\ UNCHANGED <<tools, root>>
        /\ rootFile => grant = 0
        /\ permitRoot' = permitRoot \/ permitRoot' = rootFile
    BY <1>8, Zenon DEF Restart, Serving, RootLockFree
  <2>2. [snap EXCEPT !.phase = "Restarting"].job = snap.job
        /\ JobNamed([snap EXCEPT !.phase = "Restarting"])
        /\ Busy([snap EXCEPT !.phase = "Restarting"])
    BY <2>1 DEF RootExclusion, JobNamed, Busy, TypeOK, Snapshot
  <2>3. CASE UNCHANGED <<snap, thr>>
    <3>1. status' \in {status, [snap EXCEPT !.phase = "Restarting"]}
      BY <1>8 DEF Restart, Write
    <3>2. JobNamed(snap)' /\ JobNamed(status)'
      BY <2>2, <2>3, <3>1 DEF RootExclusion, JobNamed
    <3> QED BY <2>1, <2>3, <3>2, StillExcluded
  <2>4. CASE ~UNCHANGED <<snap, thr>>
    <3>1. /\ status' = [snap EXCEPT !.phase = "Restarting"]
          /\ snap' = [snap EXCEPT !.phase = "Restarting"]
      BY <1>8, <2>4 DEF Restart, Write
    <3>2. thr' = [thr EXCEPT ![w] = [Free EXCEPT !.job = snap.job, !.step = 1,
                     !.pc = IF snap.restart = "Normal" THEN "reboot"
                            ELSE "checkpoint"]]
      BY <1>8, <2>4 DEF Restart
    <3>3. /\ \A v \in Worker : v # w => thr'[v] = thr[v]
          /\ thr'[w].job = snap'.job
      BY <2>2, <3>1, <3>2 DEF TypeOK, Free
    <3>4. Busy(snap)' /\ JobNamed(snap)'
      BY <2>2, <3>1 DEF Busy, JobNamed
    <3> QED BY <2>1, <3>1, <3>3, <3>4, OwnerStarts
  <2> QED BY <2>3, <2>4
<1>9. ASSUME NEW w \in Worker, Runs(w) PROVE RootExclusion'
  <2>1. CASE Launch(w)
    <3>1. /\ thr[w].pc \notin {"child", "run"}
          /\ \A v \in Worker : v # w => thr'[v] = thr[v]
          /\ Owns(w)' => Owns(w) /\ thr'[w].job = thr[w].job
      BY <2>1 DEF Launch, Goto, End, Free, Owns, Own, TypeOK, Thread
    <3> QED BY <2>1, <3>1, ThreadStep, OwnerBusy
            DEF Launch, ThreadOnly, Owns, Own, Busy, TypeOK, Snapshot
  <2>2. CASE Query(w)
    <3>1. /\ thr[w].pc \notin {"child", "run"}
          /\ \A v \in Worker : v # w => thr'[v] = thr[v]
          /\ Owns(w)' => Owns(w) /\ thr'[w].job = thr[w].job
      BY <2>2 DEF Query, Goto, End, Free, Owns, Own, TypeOK, Thread
    <3> QED BY <2>2, <3>1, ThreadStep, OwnerBusy
            DEF Query, Change, Write, ThreadOnly, Owns, Own, Busy, TypeOK, Snapshot
  <2>3. CASE StopQuery(w)
    <3>1. /\ thr[w].pc \notin {"child", "run"}
          /\ \A v \in Worker : v # w => thr'[v] = thr[v]
          /\ Owns(w)' => Owns(w) /\ thr'[w].job = thr[w].job
      BY <2>3 DEF StopQuery, Goto, End, Free, Owns, Own, TypeOK, Thread
    <3>2. Owns(w) /\ ~Owns(w)'
      BY <2>3 DEF StopQuery, Goto, End, Free, Owns, Own, TypeOK, Thread
    <3>3. /\ snap' = [snap EXCEPT !.phase = "Cancelled"]
          /\ status' \in {status, snap'}
      BY <2>3 DEF StopQuery, Change, Write
    <3>4. snap'.job = snap.job
      BY <3>3 DEF TypeOK, Snapshot
    <3>5. up' = up /\ UNCHANGED <<tools, root>> /\ (permitRoot' => permitRoot)
      BY <2>3 DEF StopQuery, ThreadOnly
    <3> QED BY <3>1, <3>2, <3>3, <3>4, <3>5, ThreadStep
  <2>4. CASE Conclude(w)
    <3>1. /\ thr[w].pc \notin {"child", "run"}
          /\ \A v \in Worker : v # w => thr'[v] = thr[v]
          /\ Owns(w)' => Owns(w) /\ thr'[w].job = thr[w].job
      BY <2>4 DEF Conclude, Goto, End, Free, Owns, Own, TypeOK, Thread
    <3>2. Owns(w) /\ ~Owns(w)'
      BY <2>4 DEF Conclude, Goto, Owns, Own, TypeOK, Thread
    <3>3. snap'.job = snap.job /\ status' = status
      BY <2>4 DEF Conclude, TypeOK, Snapshot
    <3>4. up' = up /\ UNCHANGED <<tools, root, power>>
      BY <2>4 DEF Conclude, ThreadOnly
    <3> QED BY <3>1, <3>2, <3>3, <3>4, ThreadStep
  <2>5. CASE Publish(w)
    <3>1. /\ thr[w].pc \notin {"child", "run"}
          /\ \A v \in Worker : v # w => thr'[v] = thr[v]
          /\ Owns(w)' => Owns(w) /\ thr'[w].job = thr[w].job
      BY <2>5 DEF Publish, Goto, End, Free, Owns, Own, TypeOK, Thread
    <3> QED BY <2>5, <3>1, ThreadStep, OwnerBusy
            DEF Publish, Change, Write, ThreadOnly, Owns, Own, Busy, TypeOK, Snapshot
  <2>6. CASE NextSource(w)
    <3>1. /\ thr[w].pc \notin {"child", "run"}
          /\ \A v \in Worker : v # w => thr'[v] = thr[v]
          /\ Owns(w)' => Owns(w) /\ thr'[w].job = thr[w].job
      BY <2>6 DEF NextSource, Goto, End, Free, Owns, Own, TypeOK, Thread
    <3> QED BY <2>6, <3>1, ThreadStep, OwnerBusy
            DEF NextSource, Change, Write, ThreadOnly, Owns, Own, Busy, TypeOK, Snapshot
  <2>7. CASE Stage(w)
    <3>1. /\ thr[w].pc \notin {"child", "run"}
          /\ \A v \in Worker : v # w => thr'[v] = thr[v]
          /\ Owns(w)' => Owns(w) /\ thr'[w].job = thr[w].job
      BY <2>7 DEF Stage, Goto, End, Free, Owns, Own, TypeOK, Thread
    <3> QED BY <2>7, <3>1, ThreadStep, OwnerBusy
            DEF Stage, Change, Write, ThreadOnly, Owns, Own, Busy, TypeOK, Snapshot
  <2>8. CASE Result(w)
    <3>1. /\ thr[w].pc \notin {"child", "run"}
          /\ \A v \in Worker : v # w => thr'[v] = thr[v]
          /\ Owns(w)' => Owns(w) /\ thr'[w].job = thr[w].job
      BY <2>8 DEF Result, Goto, End, Free, Owns, Own, TypeOK, Thread
    <3> QED BY <2>8, <3>1, ThreadStep, OwnerBusy
            DEF Result, Change, Write, ThreadOnly, Owns, Own, Busy, TypeOK, Snapshot
  <2>9. CASE Close(w)
    <3>1. /\ thr[w].pc \notin {"child", "run"}
          /\ \A v \in Worker : v # w => thr'[v] = thr[v]
          /\ Owns(w)' => Owns(w) /\ thr'[w].job = thr[w].job
      BY <2>9 DEF Close, Goto, End, Free, Owns, Own, TypeOK, Thread
    <3>2. /\ thr[w].pc = "sources" /\ thr'[w].pc = "final"
          /\ Owns(w) /\ thr[w].job = snap.job /\ snap.job # 0 /\ Busy(snap)
      BY <2>9, OwnerBusy DEF Close, Goto, Owns, Own, TypeOK, Thread
    <3>3. UNCHANGED <<up, snap, status, tools, sent, power>> /\ linked' = FALSE
      BY <2>9 DEF Close
    <3>4. \/ grant' = grant
          \/ grant' = 0 /\ RootWork = {}
      BY <2>9, <3>2, NoneAwaited DEF Close
    <3> QED BY <3>1, <3>2, <3>3, <3>4, ThreadStep DEF Busy
  <2>10. CASE Finish(w)
    <3>1. /\ thr[w].pc \notin {"child", "run"}
          /\ \A v \in Worker : v # w => thr'[v] = thr[v]
          /\ Owns(w)' => Owns(w) /\ thr'[w].job = thr[w].job
      BY <2>10 DEF Finish, Goto, End, Free, Owns, Own, TypeOK, Thread
    <3>2. Owns(w) /\ ~Owns(w)'
      BY <2>10 DEF Finish, Goto, End, Free, Owns, Own, TypeOK, Thread
    <3>3. /\ snap' = [snap EXCEPT !.phase = Outcome(snap.results), !.child = NoTool]
          /\ status' \in {status, snap'}
      BY <2>10 DEF Finish, Change, Write
    <3>4. snap'.job = snap.job
      BY <3>3 DEF TypeOK, Snapshot
    <3>5. up' = up /\ UNCHANGED <<tools, root>> /\ (permitRoot' => permitRoot)
      BY <2>10 DEF Finish, ThreadOnly
    <3> QED BY <3>1, <3>2, <3>3, <3>4, <3>5, ThreadStep
  <2>11. CASE Release(w)
    <3>1. /\ thr[w].pc \notin {"child", "run"}
          /\ \A v \in Worker : v # w => thr'[v] = thr[v]
          /\ Owns(w)' => Owns(w) /\ thr'[w].job = thr[w].job
      BY <2>11 DEF Release, Goto, End, Free, Owns, Own, TypeOK, Thread
    <3> QED BY <2>11, <3>1, ThreadStep, OwnerBusy
            DEF Release, ThreadOnly, Owns, Own, Busy, TypeOK, Snapshot
  <2>12. CASE Notice(w)
    <3>1. /\ thr[w].pc \notin {"child", "run"}
          /\ \A v \in Worker : v # w => thr'[v] = thr[v]
          /\ Owns(w)' => Owns(w) /\ thr'[w].job = thr[w].job
      BY <2>12 DEF Notice, Goto, End, Free, Owns, Own, TypeOK, Thread
    <3> QED BY <2>12, <3>1, ThreadStep, OwnerBusy
            DEF Notice, Change, Write, ThreadOnly, Owns, Own, Busy, TypeOK, Snapshot
  <2>13. CASE Archive(w)
    <3>1. /\ thr[w].pc \notin {"child", "run"}
          /\ \A v \in Worker : v # w => thr'[v] = thr[v]
          /\ Owns(w)' => Owns(w) /\ thr'[w].job = thr[w].job
      <4>1. /\ thr[w].pc \in {"archive", "giveUp", "recover"}
            /\ \/ Goto(w, "recount") \/ End(w)
               \/ \E good \in BOOLEAN :
                    thr' = [thr EXCEPT ![w].pc = "unfiled", ![w].good = good]
        BY <2>13 DEF Archive
      <4>2. CASE Goto(w, "recount") \/ End(w)
        BY <4>1, <4>2 DEF Goto, End, Free, Owns, Own, TypeOK, Thread
      <4>3. ASSUME NEW good \in BOOLEAN,
                   thr' = [thr EXCEPT ![w].pc = "unfiled", ![w].good = good]
            PROVE  /\ thr[w].pc \notin {"child", "run"}
                   /\ \A v \in Worker : v # w => thr'[v] = thr[v]
                   /\ Owns(w)' => Owns(w) /\ thr'[w].job = thr[w].job
        <5>1. \A v \in Worker : v # w => thr'[v] = thr[v]
          BY <4>3 DEF TypeOK
        <5>2. thr'[w].pc = "unfiled"
          BY <4>3 DEF TypeOK, Thread
        <5> QED BY <4>1, <5>1, <5>2 DEF Owns, Own
      <4> QED BY <4>1, <4>2, <4>3
    <3> QED BY <2>13, <3>1, ThreadStep, OwnerBusy
            DEF Archive, ThreadOnly, Owns, Own, Busy, TypeOK, Snapshot
  <2>14. CASE Unfiled(w)
    <3>1. /\ thr[w].pc \notin {"child", "run"}
          /\ \A v \in Worker : v # w => thr'[v] = thr[v]
          /\ Owns(w)' => Owns(w) /\ thr'[w].job = thr[w].job
      BY <2>14 DEF Unfiled, Goto, End, Free, Owns, Own, TypeOK, Thread
    <3> QED BY <2>14, <3>1, ThreadStep, OwnerBusy
            DEF Unfiled, Change, Write, ThreadOnly, Owns, Own, Busy, TypeOK, Snapshot
  <2>15. CASE Recount(w)
    <3>1. /\ thr[w].pc \notin {"child", "run"}
          /\ \A v \in Worker : v # w => thr'[v] = thr[v]
          /\ Owns(w)' => Owns(w) /\ thr'[w].job = thr[w].job
      BY <2>15 DEF Recount, Goto, End, Free, Owns, Own, TypeOK, Thread
    <3> QED BY <2>15, <3>1, ThreadStep, OwnerBusy
            DEF Recount, Change, Write, ThreadOnly, Owns, Own, Busy, TypeOK, Snapshot
  <2>16. CASE Checkpoint(w)
    <3>1. /\ thr[w].pc \notin {"child", "run"}
          /\ \A v \in Worker : v # w => thr'[v] = thr[v]
          /\ Owns(w)' => Owns(w) /\ thr'[w].job = thr[w].job
      BY <2>16 DEF Checkpoint, Goto, End, Free, Fails, Offline, Owns, Own, TypeOK, Thread
    <3> QED BY <2>16, <3>1, ThreadStep, OwnerBusy
            DEF Checkpoint, Write, Fails, ThreadOnly, Owns, Own, Busy, TypeOK, Snapshot
  <2>17. CASE SpawnFails(w)
    <3>1. /\ thr[w].pc \notin {"child", "run"}
          /\ \A v \in Worker : v # w => thr'[v] = thr[v]
          /\ Owns(w)' => Owns(w) /\ thr'[w].job = thr[w].job
      BY <2>17 DEF SpawnFails, Goto, End, Free, Fails, Offline, Owns, Own, TypeOK, Thread
    <3> QED BY <2>17, <3>1, ThreadStep, OwnerBusy
            DEF SpawnFails, Fails, ThreadOnly, Owns, Own, Busy, TypeOK, Snapshot
  <2>18. CASE Reboots(w)
    <3>1. /\ thr[w].pc \notin {"child", "run"}
          /\ \A v \in Worker : v # w => thr'[v] = thr[v]
          /\ Owns(w)' => Owns(w) /\ thr'[w].job = thr[w].job
      BY <2>18 DEF Reboots, Goto, End, Free, Owns, Own, TypeOK, Thread
    <3> QED BY <2>18, <3>1, ThreadStep, OwnerBusy
            DEF Reboots, ThreadOnly, Owns, Own, Busy, TypeOK, Snapshot
  <2>19. CASE RestartFails(w)
    <3>1. /\ thr[w].pc \notin {"child", "run"}
          /\ \A v \in Worker : v # w => thr'[v] = thr[v]
          /\ Owns(w)' => Owns(w) /\ thr'[w].job = thr[w].job
      BY <2>19 DEF RestartFails, Goto, End, Free, Owns, Own, TypeOK, Thread
    <3>2. Owns(w) /\ ~Owns(w)'
      BY <2>19 DEF RestartFails, Goto, End, Free, Owns, Own, TypeOK, Thread
    <3>3. /\ snap' = [snap EXCEPT !.phase = "Partial"]
          /\ status' \in {status, snap'}
      BY <2>19 DEF RestartFails, Change, Write
    <3>4. snap'.job = snap.job
      BY <3>3 DEF TypeOK, Snapshot
    <3>5. up' = up /\ UNCHANGED <<tools, root>> /\ (permitRoot' => permitRoot)
      BY <2>19 DEF RestartFails, ThreadOnly
    <3> QED BY <3>1, <3>2, <3>3, <3>4, <3>5, ThreadStep
  <2>20. CASE Prepare(w)
    <3>1. /\ thr[w].pc \notin {"child", "run"}
          /\ \A v \in Worker : v # w => thr'[v] = thr[v]
          /\ Owns(w)
          /\ thr'[w].job = thr[w].job
          /\ thr'[w].pc \in {"refused", "begin"}
      BY <2>20 DEF Prepare, Refused, Goto, Owns, Own, TypeOK, Thread
    <3>2. /\ snap' \in {snap, [snap EXCEPT !.phase = "Failed"]}
          /\ status' \in {status, snap'}
          /\ thr'[w].pc = "begin" => snap' = snap
      BY <2>20 DEF Prepare, Refused, Change, Write, Goto, TypeOK, Thread
    <3>3. snap'.job = snap.job
      BY <3>2 DEF TypeOK, Snapshot
    <3>4. Owns(w)' => thr'[w].pc = "begin"
      BY <3>1 DEF Owns, Own
    <3>5. up' = up /\ UNCHANGED <<tools, root, power>>
      BY <2>20 DEF Prepare, Refused, ThreadOnly
    <3> QED BY <3>1, <3>2, <3>3, <3>4, <3>5, ThreadStep, OwnerBusy DEF Busy
  <2>21. CASE Begin(w)
    <3>1. /\ thr[w].pc \notin {"child", "run"}
          /\ \A v \in Worker : v # w => thr'[v] = thr[v]
          /\ Owns(w)
          /\ thr'[w].job = thr[w].job
          /\ thr'[w].pc \in {"refused", "sources"}
      BY <2>21 DEF Begin, Refused, Goto, Owns, Own, TypeOK, Thread
    <3>2. /\ snap' \in {snap, [snap EXCEPT !.phase = "Failed"]}
          /\ status' \in {status, snap'}
          /\ thr'[w].pc = "sources" => snap' = snap
      BY <2>21 DEF Begin, Refused, Change, Write, Goto, TypeOK, Thread
    <3>3. snap'.job = snap.job
      BY <3>2 DEF TypeOK, Snapshot
    <3>4. Owns(w)' => thr'[w].pc = "sources"
      BY <3>1 DEF Owns, Own
    <3>5. up' = up /\ UNCHANGED <<tools, sent, power>>
      BY <2>21 DEF Begin, Refused, ThreadOnly
    <3>6. \/ UNCHANGED root
          \/ grant = 0 /\ ~permitRoot /\ grant' = thr[w].job
      BY <2>21, Zenon DEF Begin, Refused
    <3>7. thr[w].job # 0
      BY <3>1, OwnerBusy
    <3>8. grant = 0 => RootWork = {}
      BY DEF RootExclusion, LinkHasWorker
    <3> QED BY <3>1, <3>2, <3>3, <3>4, <3>5, <3>6, <3>7, <3>8,
               ThreadStep, OwnerBusy DEF Busy
  <2>22. CASE Spawn(w) \/ Ask(w)
    <3>1. /\ thr[w].pc = "spawn" /\ thr'[w].pc = "child" /\ Owns(w)
          /\ thr'[w].job = thr[w].job /\ thr'[w].todo = thr[w].todo
          /\ thr'[w].step = thr[w].step
          /\ \A v \in Worker : v # w => thr'[v] = thr[v]
      BY <2>22 DEF Spawn, Ask, Goto, Owns, Own, TypeOK, Thread
    <3>2. UNCHANGED <<up, snap, status, grant, linked, power>>
      BY <2>22 DEF Spawn, Ask
    <3>3. linked => RootWork = {}
      BY <3>1, NoneAwaited
    <3>4. OwnerHoldsJob' /\ OneOwner'
      <4>1. \A v \in Worker : Owns(v)' => Owns(v) /\ thr'[v].job = thr[v].job
        BY <3>1 DEF Owns
      <4> QED BY <3>2, <4>1 DEF RootExclusion, OwnerHoldsJob, OneOwner, Busy
    <3>5. JobNamed(snap)' /\ JobNamed(status)'
      BY <3>2 DEF RootExclusion, JobNamed
    <3>6. ToolOf(w)' = ToolOf(w)
      BY <3>1 DEF ToolOf, Current, Offline
    <3>7. CASE Ask(w)
      <4>1. Current(w) \in Privileged /\ sent' = ToolOf(w) /\ tools' = tools
        BY <3>7 DEF Ask
      <4>2. linked /\ grant = thr[w].job /\ grant # 0
        BY <3>1, <3>7, OwnerBusy DEF Ask, Broken
      <4>3. RootWork' \subseteq {ToolOf(w)}
        BY <3>3, <4>1, <4>2 DEF RootWork, RootTools
      <4>4. SentIsPrivileged'
        BY <4>1 DEF SentIsPrivileged, ToolOf
      <4> QED BY <3>1, <3>2, <3>4, <3>5, <3>6, <4>2, <4>3, <4>4
              DEF RootExclusion, LinkHasWorker, WorkerHoldsLock,
                  RootToolAwaited, OneRootToolAlive
    <3>8. CASE Spawn(w)
      <4>1. sent' = sent /\ RootWork' = RootWork
        BY <3>8 DEF Spawn, RootWork, RootTools, ToolOf
      <4> QED BY <3>2, <3>3, <3>4, <3>5, <4>1
              DEF RootExclusion, LinkHasWorker, SentIsPrivileged,
                  WorkerHoldsLock, RootToolAwaited, OneRootToolAlive
    <3> QED BY <2>22, <3>7, <3>8
  <2>23. CASE Child(w)
    <3>1. /\ thr[w].pc = "child" /\ thr'[w].pc = "run" /\ Owns(w)
          /\ thr'[w].job = thr[w].job /\ thr'[w].todo = thr[w].todo
          /\ thr'[w].step = thr[w].step
          /\ \A v \in Worker : v # w => thr'[v] = thr[v]
      BY <2>23 DEF Child, Goto, Owns, Own, TypeOK, Thread
    <3>2. /\ UNCHANGED <<up, tools, root, power>>
          /\ snap' = [snap EXCEPT !.child = ToolOf(w)]
          /\ status' \in {status, snap'}
      BY <2>23 DEF Child, Change, Write, ThreadOnly
    <3>3. /\ snap'.job = snap.job /\ snap'.phase = snap.phase
          /\ snap'.restart = snap.restart
      BY <3>2 DEF TypeOK, Snapshot
    <3>4. OwnerHoldsJob' /\ OneOwner'
      <4>1. \A v \in Worker : Owns(v)' => Owns(v) /\ thr'[v].job = thr[v].job
        BY <3>1 DEF Owns
      <4> QED BY <3>2, <3>3, <4>1 DEF RootExclusion, OwnerHoldsJob, OneOwner, Busy
    <3>5. JobNamed(snap)' /\ JobNamed(status)'
      BY <3>2, <3>3 DEF RootExclusion, JobNamed
    <3>6. RootWork' = RootWork
      BY <3>2 DEF RootWork, RootTools
    <3>7. \A v \in Worker : ToolOf(v)' = ToolOf(v)
      BY <3>1 DEF ToolOf, Current, Offline
    <3>8. RootToolAwaited'
      <4>1. ToolOf(w) # sent
        BY <2>23 DEF Child
      <4> QED BY <3>1, <3>2, <3>6, <3>7, <4>1 DEF RootExclusion, RootToolAwaited
    <3>9. LinkHasWorker' /\ SentIsPrivileged' /\ WorkerHoldsLock' /\ OneRootToolAlive'
      BY <3>2, <3>6 DEF RootExclusion, LinkHasWorker, SentIsPrivileged, WorkerHoldsLock,
                        OneRootToolAlive
    <3> QED BY <3>4, <3>5, <3>8, <3>9 DEF RootExclusion
  <2>24. CASE Reap(w)
    <3>1. /\ thr[w].pc \in {"child", "run"} /\ Owns(w)
          /\ (thr[w].pc = "run" /\ ToolOf(w) \notin tools) \/ Broken(w)
      BY <2>24 DEF Reap, Owns, Own
    <3>2. linked => RootWork = {}
      <4> SUFFICES ASSUME linked, NEW t \in RootWork PROVE FALSE
        OBVIOUS
      <4>1. PICK v \in Worker : /\ thr[v].pc \in {"child", "run"}
                                /\ thr[v].pc = "run" => t # sent
                                /\ ToolOf(v) = t /\ thr[v].job = grant
        BY DEF RootExclusion, RootToolAwaited
      <4>2. v = w
        BY <3>1, <4>1 DEF RootExclusion, OneOwner, Owns, Own
      <4> QED BY <3>1, <4>1, <4>2 DEF RootWork, RootTools, Broken
    <3>3. /\ \A v \in Worker : v # w => thr'[v] = thr[v]
          /\ Owns(w)' => thr'[w].job = thr[w].job
      <4>1. \/ Fails(w) \/ End(w) \/ Goto(w, "stage")
            \/ thr' = [thr EXCEPT ![w].pc = "checkpoint",
                                  ![w].step = NextStep(w)]
            \/ thr' = [thr EXCEPT ![w].pc = "result", ![w].good = TRUE]
        BY <2>24, Zenon DEF Reap
      <4> QED BY <4>1 DEF Fails, End, Goto, Free, Owns, Own, TypeOK, Thread
    <3>4. /\ snap' = [snap EXCEPT !.child = NoTool]
          /\ status' \in {status, snap'}
      BY <2>24 DEF Reap, Change, Write
    <3>5. /\ snap'.job = snap.job /\ snap'.phase = snap.phase
          /\ snap'.restart = snap.restart
      BY <3>4 DEF TypeOK, Snapshot
    <3>6. /\ up' = up /\ UNCHANGED <<tools, root>>
          /\ permitRoot' => permitRoot
      BY <2>24 DEF Reap, ThreadOnly
    <3>7. Busy(snap)'
      BY <3>1, <3>5, OwnerBusy DEF Busy
    <3> QED BY <3>1, <3>2, <3>3, <3>4, <3>5, <3>6, <3>7, ThreadStep
  <2>25. CASE Denied(w)
    <3>1. /\ thr[w].pc = "child" /\ Owns(w)
          /\ ToolOf(w) \notin tools \union {sent}
      BY <2>25 DEF Denied, Owns, Own, TypeOK
    <3>2. linked => RootWork = {}
      <4> SUFFICES ASSUME linked, NEW t \in RootWork PROVE FALSE
        OBVIOUS
      <4>1. PICK v \in Worker : thr[v].pc \in {"child", "run"} /\ ToolOf(v) = t
        BY DEF RootExclusion, RootToolAwaited
      <4>2. v = w
        BY <3>1, <4>1 DEF RootExclusion, OneOwner, Owns, Own
      <4> QED BY <3>1, <4>1, <4>2 DEF RootWork, RootTools
    <3>3. /\ \A v \in Worker : v # w => thr'[v] = thr[v]
          /\ Owns(w)' => thr'[w].job = thr[w].job
      BY <2>25 DEF Denied, Fails, Owns, Own, TypeOK, Thread
    <3>4. /\ snap' = [snap EXCEPT !.child = NoTool]
          /\ status' \in {status, snap'}
      BY <2>25 DEF Denied, Change, Write
    <3>5. /\ snap'.job = snap.job /\ snap'.phase = snap.phase
          /\ snap'.restart = snap.restart
      BY <3>4 DEF TypeOK, Snapshot
    <3>6. up' = up /\ UNCHANGED <<tools, root, power>>
      BY <2>25 DEF Denied, ThreadOnly
    <3>7. Busy(snap)'
      BY <3>1, <3>5, OwnerBusy DEF Busy
    <3> QED BY <3>1, <3>2, <3>3, <3>4, <3>5, <3>6, <3>7, ThreadStep
  <2> QED BY <1>9, <2>1, <2>2, <2>3, <2>4, <2>5, <2>6, <2>7, <2>8, <2>9, <2>10,
             <2>11, <2>12, <2>13, <2>14, <2>15, <2>16, <2>17, <2>18, <2>19,
             <2>20, <2>21, <2>22, <2>23, <2>24, <2>25
          DEF Runs, CheckThread, InstallThread, ToolThread, RestartThread
<1>10. ASSUME NEW w \in Worker, LaunchFails(w) PROVE RootExclusion'
  <2>1. /\ thr[w].pc \notin {"child", "run"}
        /\ \A v \in Worker : v # w => thr'[v] = thr[v]
        /\ Owns(w) /\ ~Owns(w)'
    BY <1>10 DEF LaunchFails, End, Free, Owns, Own, TypeOK, Thread
  <2>2. snap'.job = snap.job /\ status' = snap'
    BY <1>10 DEF LaunchFails, TypeOK, Snapshot
  <2>3. up' = up /\ UNCHANGED <<tools, root, power>>
    BY <1>10 DEF LaunchFails, ThreadOnly
  <2> QED BY <2>1, <2>2, <2>3, ThreadStep
<1>11. ASSUME NEW w \in Worker, OutputLost(w) PROVE RootExclusion'
  BY <1>11, MachineStep DEF OutputLost
<1>12. CASE Machine
  <2>1. ASSUME NEW t \in tools, ToolExits(t) PROVE RootExclusion'
    <3>1. tools' \subseteq tools
      BY <2>1 DEF ToolExits
    <3> QED BY <2>1, <3>1, MachineStep DEF ToolExits
  <2>2. CASE ChannelLost
    BY <2>2, MachineStep DEF ChannelLost
  <2>3. CASE WorkerEnds
    <3>1. RootWork' = {}
      BY <2>3 DEF WorkerEnds, WorkerIdle, RootWork, RootTools
    <3> QED BY <2>3, <3>1, MachineStep DEF WorkerEnds
  <2>4. CASE TakePermit
    <3>1. permitRoot' => grant = 0
      BY <2>4 DEF TakePermit, RootLockFree
    <3> QED BY <2>4, <3>1, MachineStep DEF TakePermit
  <2>5. CASE DropPermit
    BY <2>5, MachineStep DEF DropPermit
  <2>6. CASE Reboot
    BY <2>6, EndStep DEF Reboot
  <2>7. CASE Serve
    <3>1. /\ UNCHANGED <<up, snap, status, thr, grant, linked, power>>
          /\ sent # NoTool /\ sent' = NoTool /\ tools' = tools \union {sent}
      BY <2>7 DEF Serve
    <3>2. sent.source \in Privileged
      BY <3>1 DEF RootExclusion, SentIsPrivileged
    <3>3. RootWork' = RootWork
      BY <3>1, <3>2 DEF RootWork, RootTools
    <3>4. JobNamed(snap)' /\ JobNamed(status)' /\ OwnerHoldsJob' /\ OneOwner'
      BY <3>1 DEF RootExclusion, JobNamed, OwnerHoldsJob, OneOwner, Owns, Busy
    <3>5. NoTool \notin RootWork
      BY SourceAssumption DEF RootWork, RootTools, NoTool
    <3>6. RootToolAwaited'
      <4>1. \A v \in Worker : ToolOf(v)' = ToolOf(v)
        BY <3>1 DEF ToolOf, Current, Offline
      <4> QED BY <3>1, <3>3, <3>5, <4>1 DEF RootExclusion, RootToolAwaited
    <3> QED BY <3>1, <3>3, <3>4, <3>6
            DEF RootExclusion, LinkHasWorker, SentIsPrivileged, WorkerHoldsLock,
                OneRootToolAlive
  <2>8. CASE Deny
    BY <2>8, MachineStep DEF Deny
  <2> QED BY <1>12, <2>1, <2>2, <2>3, <2>4, <2>5, <2>6, <2>7, <2>8 DEF Machine
<1>13. CASE UNCHANGED vars
  BY <1>13, MachineStep DEF vars
<1> QED BY <1>1, <1>2, <1>3, <1>4, <1>5, <1>6, <1>7, <1>8, <1>9, <1>10, <1>11,
           <1>12, <1>13 DEF Next, Lifecycle, Requests

\* The inductive invariant holds of every behaviour.
THEOREM Exclusion == Spec => []RootExclusion
<1>1. Init => RootExclusion
  BY DEF Init, RootExclusion, JobNamed, Default, OwnerHoldsJob, OneOwner, Owns,
         Own, Free, LinkHasWorker, SentIsPrivileged, WorkerHoldsLock, RootToolAwaited,
         OneRootToolAlive, RootWork, RootTools
<1>2. TypeOK /\ RootExclusion /\ [Next]_vars => RootExclusion'
  BY ExclusionStep
<1> QED BY <1>1, <1>2, TypeCorrect, PTL DEF Spec

\* A power permit that holds the root lock excludes every root tool, also one
\* that a coordinator left behind.
THEOREM RootToolsBlockPower == Spec => []RootToolBlocksPower
<1>1. RootExclusion => RootToolBlocksPower
  BY DEF RootExclusion, LinkHasWorker, WorkerHoldsLock, RootToolBlocksPower,
         RootWork
<1> QED BY <1>1, Exclusion, PTL

\* Never two root tools, whichever jobs and coordinators they are of.
THEOREM NeverTwoRootTools == Spec => []OneRootTool
<1>1. RootExclusion => OneRootTool
  <2> SUFFICES ASSUME RootExclusion PROVE Cardinality(RootTools) <= 1
    BY DEF OneRootTool
  <2>1. CASE RootTools = {}
    BY <2>1, FS_EmptySet
  <2>2. CASE RootTools # {}
    <3>1. PICK t \in RootTools : TRUE
      BY <2>2
    <3>2. RootTools = {t}
      BY <3>1 DEF RootExclusion, OneRootToolAlive, RootWork
    <3> QED BY <3>2, FS_Singleton
  <2> QED BY <2>1, <2>2
<1> QED BY <1>1, Exclusion, PTL
-----------------------------------------------------------------------------
(* The lock against power actions *)

\* A thread that has an installation in hand, from its acceptance until it lets
\* the activity lock go.
Installing(w) ==
  \/ thr[w].pc \in {"launchInstall", "prepare", "begin", "sources", "stage",
                    "result", "final", "release", "refused"}
  \/ thr[w].pc \in {"checkpoint", "spawn", "child", "run"} /\ ~Offline(w)

\* The lock is never left behind by a thread that is through.
LockIsInUse == activity => up /\ \E w \in Worker : Installing(w)

\* A step of one thread that keeps its installation in hand, if it has one.
LEMMA StaysInHand ==
  ASSUME LockIsInUse, NEW w \in Worker, activity' => activity, up' = up,
         \A v \in Worker : v # w => thr'[v] = thr[v],
         Installing(w) => Installing(w)'
  PROVE  LockIsInUse'
<1> SUFFICES ASSUME activity' PROVE up' /\ \E v \in Worker : Installing(v)'
  BY DEF LockIsInUse
<1>1. up /\ \E v \in Worker : Installing(v)
  BY DEF LockIsInUse
<1>2. PICK v \in Worker : Installing(v)
  BY <1>1
<1>3. CASE v = w
  BY <1>1, <1>2, <1>3
<1>4. CASE v # w
  BY <1>1, <1>2, <1>4 DEF Installing, Offline
<1> QED BY <1>3, <1>4

\* A thread that moves on to another stage of the installation.
LEMMA MovesOn ==
  ASSUME TypeOK, LockIsInUse, NEW w \in Worker, activity' = activity, up' = up,
         NEW pc \in PCs, Goto(w, pc),
         \/ pc \in {"prepare", "begin", "sources", "final", "release", "refused", "stage"}
         \/ pc \in {"spawn", "child", "run"} /\ thr[w].pc \in {"checkpoint", "spawn", "child"}
         \/ ~Installing(w)
  PROVE  LockIsInUse'
<1>1. /\ thr'[w].pc = pc /\ thr'[w].todo = thr[w].todo
      /\ \A v \in Worker : v # w => thr'[v] = thr[v]
  BY DEF TypeOK, Thread, Goto
<1>2. Installing(w) => Installing(w)'
  BY <1>1 DEF Installing, Offline
<1> QED BY <1>1, <1>2, StaysInHand

\* A thread whose step fails has the source's result to take down.
LEMMA FailsInHand ==
  ASSUME TypeOK, LockIsInUse, NEW w \in Worker, activity' = activity, up' = up,
         Fails(w), thr[w].pc \in {"checkpoint", "spawn", "child", "run"}
  PROVE  LockIsInUse'
<1>1. /\ thr'[w].pc = IF Offline(w) THEN "restartFailed" ELSE "result"
      /\ \A v \in Worker : v # w => thr'[v] = thr[v]
  BY DEF TypeOK, Thread, Fails
<1>2. Installing(w) => Installing(w)'
  BY <1>1 DEF Installing
<1> QED BY <1>1, <1>2, StaysInHand

\* A thread that has no installation in hand may end.
LEMMA EndsInHand ==
  ASSUME TypeOK, LockIsInUse, NEW w \in Worker, activity' = activity, up' = up,
         End(w), ~Installing(w)
  PROVE  LockIsInUse'
<1>1. \A v \in Worker : v # w => thr'[v] = thr[v]
  BY DEF TypeOK, End
<1> QED BY <1>1, StaysInHand

\* The stages of a thread that has no installation in hand, or not any more.
Elsewhere == {"none", "launchCheck", "query", "publish", "notices", "notice",
              "archive", "giveUp", "recover", "unfiled", "recount", "reboot",
              "restartFailed"}

LEMMA NotInHand ==
  ASSUME NEW w, thr[w].pc \in Elsewhere
  PROVE  ~Installing(w)
BY DEF Installing, Elsewhere

\* The stages of an installation that run no native tool.
LEMMA InstallKeepsLock ==
  ASSUME TypeOK, LockIsInUse, NEW w \in Worker, InstallThread(w)
  PROVE  LockIsInUse'
<1> USE DEF PCs
<1>1. CASE Prepare(w) \/ Begin(w)
  <2>1. /\ activity' = activity /\ up' = up
        /\ Goto(w, "refused") \/ Goto(w, "begin") \/ Goto(w, "sources")
    BY <1>1, Zenon DEF Prepare, Begin, Refused, ThreadOnly
  <2> QED BY <2>1, MovesOn
<1>2. CASE NextSource(w)
  <2>1. /\ activity' = activity /\ up' = up /\ thr[w].pc = "sources" /\ thr[w].todo # {}
        /\ \/ \E good \in BOOLEAN :
                thr' = [thr EXCEPT ![w].pc = "result", ![w].good = good]
           \/ thr' = [thr EXCEPT ![w].pc = "checkpoint", ![w].step = 1]
    BY <1>2, Zenon DEF NextSource, ThreadOnly
  <2>2. /\ \A v \in Worker : v # w => thr'[v] = thr[v]
        /\ thr'[w].pc = "result" \/ (thr'[w].pc = "checkpoint" /\ thr'[w].todo # {})
    BY <2>1 DEF TypeOK, Thread
  <2>3. Installing(w)'
    BY <2>2 DEF Installing, Offline
  <2> QED BY <2>1, <2>2, <2>3, StaysInHand
<1>3. CASE Stage(w) \/ Result(w)
  <2>1. /\ activity' = activity /\ up' = up
        /\ \/ \E good \in BOOLEAN :
                thr' = [thr EXCEPT ![w].pc = "result", ![w].good = good]
           \/ thr' = [thr EXCEPT ![w].pc = "sources", ![w].todo = @ \ {First(@)}]
    BY <1>3, Zenon DEF Stage, Result, ThreadOnly
  <2>2. /\ \A v \in Worker : v # w => thr'[v] = thr[v]
        /\ thr'[w].pc \in {"result", "sources"}
    BY <2>1 DEF TypeOK, Thread
  <2>3. Installing(w)'
    BY <2>2 DEF Installing
  <2> QED BY <2>1, <2>2, <2>3, StaysInHand
<1>4. CASE Close(w) \/ Finish(w)
  <2>1. /\ activity' = activity /\ up' = up
        /\ Goto(w, "final") \/ Goto(w, "release")
    BY <1>4, Zenon DEF Close, Finish, ThreadOnly
  <2> QED BY <2>1, MovesOn
<1>5. CASE Release(w)
  BY <1>5 DEF Release, LockIsInUse
<1>6. CASE Notice(w)
  <2>1. /\ activity' = activity /\ up' = up /\ thr[w].pc = "notice" /\ Goto(w, "archive")
    BY <1>6, Zenon DEF Notice, ThreadOnly
  <2>2. ~Installing(w)
    BY <2>1, NotInHand DEF Elsewhere
  <2> QED BY <2>1, <2>2, MovesOn
<1>7. CASE Archive(w)
  <2>1. /\ activity' = activity /\ up' = up /\ thr[w].pc \in {"archive", "giveUp", "recover"}
        /\ \/ Goto(w, "recount") \/ End(w)
           \/ thr' = [thr EXCEPT ![w].pc = "unfiled",
                                 ![w].good = thr[w].pc = "archive"]
    BY <1>7, Zenon DEF Archive
  <2>2. ~Installing(w)
    BY <2>1, NotInHand DEF Elsewhere
  <2>3. CASE thr' = [thr EXCEPT ![w].pc = "unfiled", ![w].good = thr[w].pc = "archive"]
    <3>1. \A v \in Worker : v # w => thr'[v] = thr[v]
      BY <2>3 DEF TypeOK, Thread
    <3> QED BY <2>1, <2>2, <3>1, StaysInHand
  <2> QED BY <2>1, <2>2, <2>3, MovesOn, EndsInHand
<1>8. CASE Unfiled(w) \/ Recount(w)
  <2>1. /\ activity' = activity /\ up' = up /\ thr[w].pc \in {"unfiled", "recount"}
        /\ Goto(w, "recount") \/ End(w)
    BY <1>8, Zenon DEF Unfiled, Recount, ThreadOnly
  <2>2. ~Installing(w)
    BY <2>1, NotInHand DEF Elsewhere
  <2> QED BY <2>1, <2>2, MovesOn, EndsInHand
<1> QED BY <1>1, <1>2, <1>3, <1>4, <1>5, <1>6, <1>7, <1>8 DEF InstallThread

\* The stages of a step, which an installation shares with a restart.
LEMMA ToolKeepsLock ==
  ASSUME TypeOK, LockIsInUse, NEW w \in Worker, ToolThread(w)
  PROVE  LockIsInUse'
<1> USE DEF PCs
<1>1. CASE \/ Checkpoint(w) \/ Spawn(w) \/ Ask(w) \/ SpawnFails(w)
           \/ Child(w) \/ Denied(w)
  <2>1. /\ activity' = activity /\ up' = up
        /\ thr[w].pc \in {"checkpoint", "spawn", "child"}
        /\ Fails(w) \/ Goto(w, "spawn") \/ Goto(w, "child") \/ Goto(w, "run")
    BY <1>1, Zenon DEF Checkpoint, Spawn, Ask, SpawnFails, Child, Denied, ThreadOnly
  <2> QED BY <2>1, MovesOn, FailsInHand
<1>2. CASE Reap(w)
  <2>1. /\ activity' = activity /\ up' = up /\ thr[w].pc \in {"child", "run"}
        /\ \/ Fails(w)
           \/ Offline(w) /\ End(w)
           \/ ~Offline(w) /\ thr' = [thr EXCEPT ![w].pc = "checkpoint",
                                                ![w].step = NextStep(w)]
           \/ thr' = [thr EXCEPT ![w].pc = "result", ![w].good = TRUE]
           \/ Goto(w, "stage")
    BY <1>2, Zenon DEF Reap, ThreadOnly
  <2>2. CASE Offline(w) /\ End(w)
    <3>1. ~Installing(w)
      BY <2>1, <2>2 DEF Installing
    <3> QED BY <2>1, <2>2, <3>1, EndsInHand
  <2>3. CASE ~Offline(w) /\ thr' = [thr EXCEPT ![w].pc = "checkpoint",
                                               ![w].step = NextStep(w)]
    <3>1. /\ \A v \in Worker : v # w => thr'[v] = thr[v]
          /\ thr'[w].pc = "checkpoint" /\ thr'[w].todo # {}
      BY <2>3 DEF TypeOK, Thread, Offline
    <3>2. Installing(w)'
      BY <3>1 DEF Installing, Offline
    <3> QED BY <2>1, <3>1, <3>2, StaysInHand
  <2>4. CASE thr' = [thr EXCEPT ![w].pc = "result", ![w].good = TRUE]
    <3>1. /\ \A v \in Worker : v # w => thr'[v] = thr[v]
          /\ thr'[w].pc = "result"
      BY <2>4 DEF TypeOK, Thread
    <3>2. Installing(w)'
      BY <3>1 DEF Installing
    <3> QED BY <2>1, <3>1, <3>2, StaysInHand
  <2> QED BY <2>1, <2>2, <2>3, <2>4, MovesOn, FailsInHand
<1> QED BY <1>1, <1>2 DEF ToolThread

\* The threads of a check and of a restart, and what is not of a thread.
LEMMA LockStep ==
  ASSUME TypeOK, LockIsInUse, [Next]_vars
  PROVE  LockIsInUse'
<1> USE DEF PCs
<1>1. CASE Start
  BY <1>1 DEF Start, LockIsInUse
<1>2. CASE Crash \/ ReplacedExit \/ IdleExit \/ Reboot
  BY <1>2 DEF Crash, ReplacedExit, IdleExit, Reboot, Stopped, LockIsInUse
<1>3. CASE UNCHANGED <<thr, activity, up>>
  BY <1>3 DEF LockIsInUse, Installing, Offline
<1>4. CASE CancelCheck
  BY <1>3, <1>4 DEF CancelCheck
<1>5. CASE \E w \in Worker : OutputLost(w)
  BY <1>3, <1>5 DEF OutputLost
<1>6. CASE (\E t \in tools : ToolExits(t)) \/ ChannelLost \/ Serve \/ Deny
           \/ WorkerEnds \/ TakePermit \/ DropPermit \/ UNCHANGED vars
  BY <1>3, <1>6 DEF ToolExits, ChannelLost, Serve, Deny, WorkerEnds, TakePermit,
                    DropPermit,
                    vars, process
<1>7. ASSUME NEW w \in Worker, NEW selected \in (SUBSET Source) \ {{}},
             Check(w, selected)
      PROVE  LockIsInUse'
  <2>1. /\ activity' = activity /\ up' = up /\ thr[w].pc = "none"
        /\ \A v \in Worker : v # w => thr'[v] = thr[v]
    BY <1>7 DEF Check, TypeOK
  <2> QED BY <2>1, NotInHand, StaysInHand DEF Elsewhere
<1>8. ASSUME NEW w \in Worker, Install(w) PROVE LockIsInUse'
  <2>1. CASE ~activity'
    BY <2>1 DEF LockIsInUse
  <2>2. CASE activity'
    <3>1. /\ up /\ up' = up
          /\ thr' = [thr EXCEPT ![w] = [Free EXCEPT !.pc = "launchInstall",
                                          !.job = snap.job, !.todo = snap.selected]]
      BY <1>8, <2>2, Zenon DEF Install, Serving
    <3>2. thr'[w].pc = "launchInstall"
      BY <3>1 DEF TypeOK, Free
    <3> QED BY <3>1, <3>2 DEF LockIsInUse, Installing
  <2> QED BY <2>1, <2>2
<1>9. ASSUME NEW w \in Worker, Restart(w) PROVE LockIsInUse'
  <2>1. ~activity'
    BY <1>9 DEF Restart
  <2> QED BY <2>1 DEF LockIsInUse
<1>10. ASSUME NEW w \in Worker, Launch(w) PROVE LockIsInUse'
  <2>1. CASE thr[w].pc = "launchCheck"
    <3>1. activity' = activity /\ up' = up /\ Goto(w, "query")
      BY <1>10, <2>1 DEF Launch
    <3>2. ~Installing(w)
      BY <2>1, NotInHand DEF Elsewhere
    <3> QED BY <3>1, <3>2, MovesOn
  <2>2. CASE thr[w].pc = "launchInstall"
    <3>1. activity' = activity /\ up' = up /\ Goto(w, "prepare")
      BY <1>10, <2>2 DEF Launch
    <3> QED BY <3>1, MovesOn
  <2> QED BY <1>10, <2>1, <2>2 DEF Launch
<1>11. ASSUME NEW w \in Worker, LaunchFails(w) PROVE LockIsInUse'
  BY <1>11 DEF LaunchFails, LockIsInUse
<1>12. ASSUME NEW w \in Worker, CheckThread(w) PROVE LockIsInUse'
  <2>1. /\ activity' = activity /\ up' = up
        /\ thr[w].pc \in {"query", "publish", "notices"}
        /\ \/ thr' = [thr EXCEPT ![w].todo = @ \ {First(@)}]
           \/ End(w) \/ Goto(w, "publish") \/ Goto(w, "notices")
    BY <1>12, Zenon DEF CheckThread, Query, StopQuery, Conclude, Publish, ThreadOnly
  <2>2. ~Installing(w)
    BY <2>1, NotInHand DEF Elsewhere
  <2>3. CASE thr' = [thr EXCEPT ![w].todo = @ \ {First(@)}]
    <3>1. \A v \in Worker : v # w => thr'[v] = thr[v]
      BY <2>3 DEF TypeOK
    <3> QED BY <2>1, <2>2, <3>1, StaysInHand
  <2> QED BY <2>1, <2>2, <2>3, MovesOn, EndsInHand
<1>13. ASSUME NEW w \in Worker, RestartThread(w) PROVE LockIsInUse'
  <2>1. /\ activity' = activity /\ up' = up /\ End(w)
        /\ thr[w].pc \in {"reboot", "restartFailed"}
    BY <1>13, Zenon DEF RestartThread, Reboots, RestartFails, ThreadOnly
  <2> QED BY <2>1, NotInHand, EndsInHand DEF Elsewhere
<1> QED
  BY <1>1, <1>2, <1>4, <1>5, <1>6, <1>7, <1>8, <1>9, <1>10, <1>11, <1>12, <1>13,
     InstallKeepsLock, ToolKeepsLock
     DEF Next, Lifecycle, Requests, Runs, Machine

\* Whenever the lock against power actions is held, a thread of a live
\* coordinator has an installation in hand and is on its way to Release: no
\* refusal, failed save, failed spawn, lost channel or kill leaves the lock
\* behind with nobody to drop it.
THEOREM LockHasItsThread == Spec => []LockIsInUse
<1>1. Init => LockIsInUse
  BY DEF Init, LockIsInUse
<1>2. TypeOK /\ LockIsInUse /\ [Next]_vars => LockIsInUse'
  BY LockStep
<1> QED BY <1>1, <1>2, TypeCorrect, PTL DEF Spec
=============================================================================
