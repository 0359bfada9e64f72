------------------------ MODULE UpdateRecord_proofs ------------------------
(***************************************************************************)
(* What the coordinator has on disk and in memory about the tools that run *)
(* and ran, for any sources, workers and bounds, with writes that fail and *)
(* kills anywhere.                                                         *)
(*                                                                         *)
(* The argument is the invariant Record.  The phase says what the thread   *)
(* in the middle of the job does (PartTold), and while a tool of it may be *)
(* alive the disk says so too (ToolAnnounced), as the code saves before it *)
(* acts.  A cancelled job and a job that asked for a tool are never again  *)
(* in a phase that leads to an installation, in memory or on disk, from    *)
(* where the next coordinator takes it (CancelTold, StartTold).  Within    *)
(* one installation the tools asked for so far are those of sources that   *)
(* are through, and of steps before the present one (TriedInOrder); what   *)
(* the root worker has still to start has not run (SentIsNew).             *)
(*                                                                         *)
(* The second half is what the desktop is told of a job, and what is kept  *)
(* of it when it is over.  As long as no write fails, the journal on disk  *)
(* and the snapshot in memory tell of the same job in the same phase, but  *)
(* for the moment between a check's conclusion and its save (Saved).  With *)
(* it a coordinator that is killed and one that starts take the promise of *)
(* UpdateJob from one to the other.  An open transcript has the thread     *)
(* that will file it (TranscriptHasThread), and what is filed is of jobs   *)
(* up to the present one (HistoryPast).                                    *)
(***************************************************************************)
EXTENDS UpdateCoordinator_proofs, SequenceTheorems

Stepping == {"checkpoint", "spawn", "child", "run"}

\* The phase that goes with what an owner does.
Part(x) ==
  IF x.pc \in {"launchCheck", "query"} THEN "Checking"
  ELSE IF x.pc \in {"reboot", "restartFailed"} \/ (x.pc \in Stepping /\ x.todo = {})
  THEN "Restarting" ELSE "Running"
PartTold ==
  \A w \in Worker : Owns(w) =>
    /\ snap.phase = Part(thr[w])
    /\ thr[w].pc \in {"stage", "result"} => thr[w].todo # {}

\* From its checkpoint on, the disk tells of a tool.
ToolAnnounced ==
  \A w \in Worker : thr[w].pc \in {"spawn", "child", "run"} =>
    status.job = snap.job /\ status.phase = snap.phase

\* A check that goes on is on disk, since it was accepted.
CheckOnDisk ==
  up /\ snap.phase = "Checking"
  => status.job = snap.job /\ status.phase = "Checking"

\* What is staged in this boot is known in memory.
RestartTold ==
  up /\ status.restart # "None" /\ status.boot = boot => snap.restart # "None"

\* The disk is never behind by a job.
DiskAhead == up => snap.job <= status.job

\* A job that is past, or in a phase from which nothing is installed.
Spared(j, x) ==
  j <= x.job /\ (x.job = j => x.phase \notin {"Reviewing", "Running"})
CancelTold ==
  \A j \in cancelled :
    /\ Spared(j, status)
    /\ up => Spared(j, snap) /\ (snap.job = j /\ snap.phase = "Checking" => cancelCheck)

\* A tool of a job that is past, or at least past its review.
Past(t, x) ==
  t.job <= x.job /\ (x.job = t.job => x.phase \notin {"Checking", "Reviewing"})
InstallTools == {t \in asked : t.source # 0}
StartTold ==
  \A t \in InstallTools :
    t.job \notin cancelled /\ Past(t, status) /\ (up => Past(t, snap))

\* A tool whose source is still to do is of its present source, and of a step
\* before the one to be started.
Tried(t, x) ==
  t.source \in x.todo =>
    /\ x.pc \in Stepping \union {"stage", "result"}
    /\ t.source = First(x.todo)
    /\ t.step <= x.step
    /\ x.pc \in {"checkpoint", "spawn"} => t.step # x.step
TriedInOrder ==
  \A w \in Worker : Owns(w) =>
    \A t \in InstallTools : t.job = thr[w].job => Tried(t, thr[w])

\* A coordinator that is gone has no threads and no memory.
DownIsEmpty == ~up => snap = Default /\ \A w \in Worker : thr[w].pc = "none"

\* The inductive invariant.
Record ==
  /\ DownIsEmpty
  /\ PartTold /\ ToolAnnounced /\ CheckOnDisk /\ RestartTold /\ DiskAhead
  /\ CancelTold /\ StartTold /\ TriedInOrder

-----------------------------------------------------------------------------
(* Steps by their effect *)

\* A step of one thread that leaves job and phase alone: the thread goes on
\* within its part of the job, or was not in the middle of it.
LEMMA GoesOn ==
  ASSUME TypeOK, RootExclusion, Record, NEW w \in Worker, up, up' = up,
         \A v \in Worker : v # w => thr'[v] = thr[v],
         snap'.job = snap.job, snap'.phase = snap.phase,
         snap'.restart = snap.restart \/ snap'.restart # "None",
         status' \in {status, snap'},
         UNCHANGED <<cancelCheck, boot, asked, cancelled>>,
         thr'[w].pc \in {"spawn", "child", "run"} =>
           thr[w].pc \in {"spawn", "child", "run"} \/ status' = snap',
         Owns(w)' =>
           /\ Owns(w) /\ thr'[w].job = thr[w].job
           /\ Part(thr'[w]) = Part(thr[w])
           /\ thr'[w].pc \in {"stage", "result"} => thr'[w].todo # {}
           /\ \A t \in InstallTools : Tried(t, thr[w]) => Tried(t, thr'[w])
  PROVE  Record'
<1>1. PartTold'
  BY DEF Record, PartTold, Owns
<1>2. ToolAnnounced'
  BY DEF Record, ToolAnnounced
<1>3. RestartTold' /\ CheckOnDisk'
  BY DEF Record, RestartTold, CheckOnDisk
<1>4. DiskAhead'
  BY DEF Record, DiskAhead, TypeOK, Snapshot, JobId
<1>5. CancelTold'
  BY DEF Record, CancelTold, Spared
<1>6. StartTold' /\ InstallTools' = InstallTools
  BY DEF Record, StartTold, Past, InstallTools
<1>7. TriedInOrder'
  BY <1>6 DEF Record, TriedInOrder, Owns
<1> QED BY <1>1, <1>2, <1>3, <1>4, <1>5, <1>6, <1>7 DEF Record, DownIsEmpty

\* The owner ends its part of the job with a phase from which nothing is
\* installed, or with a review that was not cancelled.
LEMMA PartEnds ==
  ASSUME TypeOK, RootExclusion, Record, NEW w \in Worker, up, up' = up,
         Owns(w), ~Owns(w)', \A v \in Worker : v # w => thr'[v] = thr[v],
         thr'[w].pc \notin {"spawn", "child", "run"},
         snap'.job = snap.job, snap'.restart = snap.restart,
         \/ snap'.phase \notin {"Checking", "Reviewing", "Running"}
         \/ snap'.phase = "Reviewing" /\ snap.phase = "Checking" /\ ~cancelCheck,
         status' \in {status, snap'},
         UNCHANGED <<cancelCheck, boot, asked, cancelled>>
  PROVE  Record'
<1>0. \A v \in Worker : ~Owns(v)'
  BY DEF RootExclusion, OneOwner, Owns
<1>1. PartTold' /\ ToolAnnounced' /\ TriedInOrder'
  BY <1>0 DEF PartTold, ToolAnnounced, TriedInOrder, Owns, Own
<1>2. RestartTold' /\ CheckOnDisk'
  BY DEF Record, RestartTold, CheckOnDisk
<1>3. DiskAhead'
  BY DEF Record, DiskAhead, TypeOK, Snapshot, JobId
<1>4. CancelTold'
  BY DEF Record, CancelTold, Spared
<1>5. StartTold'
  BY DEF Record, StartTold, Past, InstallTools
<1> QED BY <1>1, <1>2, <1>3, <1>4, <1>5 DEF Record, DownIsEmpty

\* Nothing that the record is about changes.
LEMMA NothingTold ==
  ASSUME Record, UNCHANGED <<thr, up, status, snap, cancelCheck, boot, asked,
                             cancelled>>
  PROVE  Record'
BY DEF Record, DownIsEmpty, PartTold, ToolAnnounced, CheckOnDisk, RestartTold, DiskAhead, CancelTold,
       Spared, StartTold, Past, InstallTools, TriedInOrder, Owns

\* The coordinator ends: what is on disk stays.
LEMMA RecordStays ==
  ASSUME Record, NEW why, Stopped(why), status' = status,
         UNCHANGED <<asked, cancelled>>
  PROVE  Record'
<1>1. ~up' /\ snap' = Default /\ \A w \in Worker : ~Owns(w)' /\ thr'[w].pc = "none"
  BY DEF Stopped, Owns, Own, Free
<1> QED
  BY <1>1 DEF Record, DownIsEmpty, PartTold, ToolAnnounced, CheckOnDisk, RestartTold,
              DiskAhead, CancelTold, Spared, StartTold, Past, InstallTools, TriedInOrder

-----------------------------------------------------------------------------
(* The main thread *)

\* The job, phase and restart of what a coordinator makes of the disk.
LEMMA RecoveredFacts ==
  ASSUME TypeOK, NEW s \in Loaded(status)
  PROVE  /\ Recovered(s).job = status.job
         /\ Recovered(s).phase \notin {"Checking", "Running"}
         /\ Recovered(s).phase = "Reviewing" => status.phase = "Reviewing"
         /\ status.restart # "None" /\ status.boot = boot
            => Recovered(s).restart # "None"
<1>1. s = status \/ (s = [status EXCEPT !.phase = "Idle"] /\ status.phase = "Reviewing")
  BY DEF Loaded
<1>2. /\ s \in Snapshot /\ s.job = status.job
      /\ s.phase = status.phase \/ (s.phase = "Idle" /\ status.phase = "Reviewing")
      /\ s.restart = status.restart /\ s.boot = status.boot
  BY <1>1 DEF TypeOK, Snapshot, Phase
<1> QED BY <1>2 DEF Recovered, Busy, Snapshot

LEMMA StartRecord ==
  ASSUME TypeOK, RootExclusion, Record, Start
  PROVE  Record'
<1>1. ~up /\ up' /\ UNCHANGED <<cancelCheck, boot, asked, cancelled>>
  BY DEF Start, past
<1>2. PICK s \in Loaded(status) : Change(Recovered(s))
  BY Zenon DEF Start
<1>3. snap' = Recovered(s) /\ status' \in {status, snap'}
  BY <1>2 DEF Change, Write
<1>4. \A v \in Worker : ~Owns(v)' /\ thr'[v].pc \notin {"spawn", "child", "run"}
  <2>1. \A v \in Worker : ~Owns(v)
    BY <1>1 DEF RootExclusion, OwnerHoldsJob
  <2>2. \/ thr' = thr
        \/ \E w \in Worker :
             thr' = [thr EXCEPT ![w] = [Free EXCEPT !.pc = "recover"]]
    BY Zenon DEF Start
  <2> QED BY <2>1, <2>2 DEF Owns, Own, TypeOK, Free
<1>5. PartTold' /\ ToolAnnounced' /\ TriedInOrder'
  BY <1>4 DEF PartTold, ToolAnnounced, TriedInOrder
<1>6. snap'.job = status.job /\ status'.job = status.job /\ status.job \in Nat
  BY <1>3, RecoveredFacts DEF TypeOK, Snapshot, JobId
<1>7. RestartTold' /\ DiskAhead' /\ CheckOnDisk'
  BY <1>1, <1>3, <1>6, RecoveredFacts DEF RestartTold, DiskAhead, CheckOnDisk
<1>8. CancelTold'
  BY <1>1, <1>3, <1>6, RecoveredFacts DEF Record, CancelTold, Spared
<1>9. StartTold'
  BY <1>1, <1>3, <1>6, RecoveredFacts DEF Record, StartTold, Past, InstallTools
<1> QED BY <1>1, <1>5, <1>7, <1>8, <1>9 DEF Record, DownIsEmpty

\* A cancellation is kept for as long as the check goes on; no tool of the job
\* has run, because it was never installed.
LEMMA CancelRecord ==
  ASSUME TypeOK, RootExclusion, Record, CancelCheck
  PROVE  Record'
<1>1. /\ up /\ snap.phase = "Checking" /\ cancelCheck'
      /\ cancelled' = cancelled \union {snap.job}
      /\ UNCHANGED <<thr, up, status, snap, boot, asked>>
  BY DEF CancelCheck, Serving, disk
<1>2. PartTold' /\ ToolAnnounced' /\ CheckOnDisk' /\ RestartTold' /\
      DiskAhead' /\ TriedInOrder'
  BY <1>1 DEF Record, PartTold, ToolAnnounced, CheckOnDisk, RestartTold, DiskAhead,
              TriedInOrder, Owns, InstallTools
<1>3. Spared(snap.job, status) /\ Spared(snap.job, snap)
  BY <1>1 DEF Record, CheckOnDisk, Spared, TypeOK, Snapshot, JobId
<1>4. CancelTold'
  BY <1>1, <1>3 DEF Record, CancelTold, Spared
<1>5. StartTold'
  BY <1>1 DEF Record, StartTold, Past, InstallTools
<1> QED BY <1>1, <1>2, <1>4, <1>5 DEF Record, DownIsEmpty

\* A request that was saved: its thread is the owner of a job nobody is in the
\* middle of.
LEMMA JobBegins ==
  ASSUME TypeOK, RootExclusion, Record, NEW w \in Worker, up, up' = up,
         ~Busy(snap), status' = snap',
         \A v \in Worker : v # w => thr'[v] = thr[v],
         snap'.phase = Part(thr'[w]), thr'[w].job = snap'.job,
         thr'[w].pc \notin {"spawn", "child", "run", "stage", "result"},
         \/ snap'.job = snap.job + 1 /\ snap'.phase = "Checking"
         \/ snap'.job = snap.job /\ snap.phase = "Reviewing" /\ snap'.phase = "Running"
         \/ snap'.job = snap.job /\ snap'.phase = "Restarting" /\ thr'[w].todo = {},
         UNCHANGED <<boot, asked, cancelled>>
  PROVE  Record'
<1>0. \A v \in Worker : Owns(v)' => v = w
  BY NoOwner DEF Owns
<1>1. PartTold'
  BY <1>0 DEF PartTold
<1>2. ToolAnnounced' /\ CheckOnDisk' /\ RestartTold'
  BY DEF ToolAnnounced, CheckOnDisk, RestartTold
<1>3. /\ snap.job \in Nat /\ cancelled \subseteq Nat
      /\ \A t \in asked : t.job \in Nat
  BY DEF TypeOK, Snapshot, Tool, JobId
<1>4. DiskAhead'
  BY <1>3 DEF DiskAhead
<1>5. CancelTold'
  <2>1. CancelTold BY DEF Record
  <2> SUFFICES ASSUME NEW j \in cancelled
               PROVE  /\ Spared(j, snap)'
                      /\ snap'.job = j /\ snap'.phase = "Checking" => cancelCheck'
    BY DEF CancelTold, Spared
  <2>2. j \in Nat /\ Spared(j, snap)
    BY <1>3, <2>1 DEF CancelTold
  <2> QED BY <1>3, <2>2 DEF Spared
<1>6. StartTold' /\ InstallTools' = InstallTools
  BY <1>3 DEF Record, StartTold, Past, InstallTools
<1>7. TriedInOrder'
  BY <1>0, <1>3, <1>6 DEF Record, StartTold, Past, InstallTools, TriedInOrder, Tried
<1> QED BY <1>1, <1>2, <1>4, <1>5, <1>6, <1>7 DEF Record, DownIsEmpty

\* A request that could not be saved, but may be on disk.
LEMMA SaveFails ==
  ASSUME TypeOK, RootExclusion, Record, NEW s \in Snapshot,
         up, ~Busy(snap), status' \in {status, s},
         UNCHANGED <<snap, thr, up, boot, asked, cancelled>>,
         s.restart = snap.restart,
         \/ s.job = snap.job + 1 /\ s.phase = "Checking"
         \/ s.job = snap.job /\ snap.phase = "Reviewing" /\ s.phase = "Running"
         \/ s.job = snap.job /\ s.phase = "Restarting"
  PROVE  Record'
<1>0. \A v \in Worker : ~Owns(v) /\ ~Owns(v)'
  BY NoOwner DEF Owns
<1>1. PartTold' /\ ToolAnnounced' /\ TriedInOrder'
  BY <1>0 DEF PartTold, ToolAnnounced, TriedInOrder, Owns, Own
<1>2. CheckOnDisk' /\ RestartTold'
  BY DEF Record, CheckOnDisk, RestartTold, Busy
<1>3. /\ snap.job \in Nat /\ status.job \in Nat /\ cancelled \subseteq Nat
      /\ \A t \in asked : t.job \in Nat
  BY DEF TypeOK, Snapshot, Tool, JobId
<1>4. DiskAhead'
  BY <1>3 DEF Record, DiskAhead
<1>5. CancelTold'
  BY <1>3 DEF Record, CancelTold, Spared, Busy
<1>6. StartTold'
  BY <1>3 DEF Record, StartTold, Past, InstallTools
<1> QED BY <1>1, <1>2, <1>4, <1>5, <1>6 DEF Record, DownIsEmpty

LEMMA RequestsRecord ==
  ASSUME TypeOK, RootExclusion, Record, NEW w \in Worker, Requests(w)
  PROVE  Record'
<1>1. ASSUME NEW selected \in (SUBSET Source) \ {{}}, Check(w, selected)
      PROVE  Record'
  <2> DEFINE s == Fresh(selected)
  <2>1. /\ up /\ up' = up /\ ~Busy(snap)
        /\ UNCHANGED <<boot, asked, cancelled>>
    BY <1>1 DEF Check, Serving, past
  <2>2. s.job = snap.job + 1 /\ s.phase = "Checking" /\ s.restart = snap.restart
    BY DEF Fresh, Default
  <2>3. s \in Snapshot
    <3>1. /\ snap.job + 1 \in JobId /\ selected \in SUBSET Source
          /\ boot \in 0 .. MaxBoots /\ snap.restart \in Restarts
      BY <1>1, BoundAssumption DEF Check, TypeOK, Snapshot, JobId
    <3> QED BY <3>1, DefaultType DEF Fresh, Default, Snapshot, Phase
  <2>4. CASE UNCHANGED <<snap, thr>>
    <3>1. status' \in {status, s}
      BY <1>1 DEF Check, Write
    <3> HIDE DEF s
    <3> QED BY <2>1, <2>2, <2>3, <2>4, <3>1, SaveFails
  <2>5. CASE ~UNCHANGED <<snap, thr>>
    <3>1. /\ status' = s /\ snap' = s
          /\ thr' = [thr EXCEPT ![w] = [Free EXCEPT !.pc = "launchCheck",
                         !.job = s.job, !.todo = selected]]
      BY <1>1, <2>5 DEF Check, Write
    <3>2. /\ \A v \in Worker : v # w => thr'[v] = thr[v]
          /\ thr'[w].job = snap'.job /\ thr'[w].pc = "launchCheck"
      BY <3>1 DEF TypeOK, Free
    <3>3. Part(thr'[w]) = "Checking"
      BY <3>2 DEF Part
    <3> HIDE DEF s
    <3> QED BY <2>1, <2>2, <3>1, <3>2, <3>3, JobBegins
  <2> QED BY <2>4, <2>5
<1>2. CASE Install(w)
  <2> DEFINE s == [snap EXCEPT !.phase = "Running"]
  <2>1. /\ up /\ up' = up /\ snap.phase = "Reviewing" /\ ~Busy(snap)
        /\ UNCHANGED <<boot, asked, cancelled>>
    BY <1>2 DEF Install, Serving, Busy, past
  <2>2. s.job = snap.job /\ s.phase = "Running" /\ s.restart = snap.restart
        /\ s \in Snapshot
    BY DEF TypeOK, Snapshot, Phase
  <2>3. CASE UNCHANGED <<snap, thr>>
    <3>1. status' \in {status, s}
      BY <1>2 DEF Install, Write
    <3> HIDE DEF s
    <3> QED BY <2>1, <2>2, <2>3, <3>1, SaveFails
  <2>4. CASE ~UNCHANGED <<snap, thr>>
    <3>1. /\ status' = s /\ snap' = s
          /\ thr' = [thr EXCEPT ![w] = [Free EXCEPT !.pc = "launchInstall",
                         !.job = snap.job, !.todo = snap.selected]]
      BY <1>2, <2>4 DEF Install, Write
    <3>2. /\ \A v \in Worker : v # w => thr'[v] = thr[v]
          /\ thr'[w].job = snap'.job /\ thr'[w].pc = "launchInstall"
      BY <2>2, <3>1 DEF TypeOK, Free
    <3>3. Part(thr'[w]) = "Running"
      BY <3>2 DEF Part, Stepping
    <3> HIDE DEF s
    <3> QED BY <2>1, <2>2, <3>1, <3>2, <3>3, JobBegins
  <2> QED BY <2>3, <2>4
<1>3. CASE Restart(w)
  <2> DEFINE s == [snap EXCEPT !.phase = "Restarting"]
  <2>1. /\ up /\ up' = up /\ ~Busy(snap)
        /\ UNCHANGED <<boot, asked, cancelled>>
    BY <1>3, Zenon DEF Restart, Serving, past
  <2>2. s.job = snap.job /\ s.phase = "Restarting" /\ s.restart = snap.restart
        /\ s \in Snapshot
    BY DEF TypeOK, Snapshot, Phase
  <2>3. CASE UNCHANGED <<snap, thr>>
    <3>1. status' \in {status, s}
      BY <1>3 DEF Restart, Write
    <3> HIDE DEF s
    <3> QED BY <2>1, <2>2, <2>3, <3>1, SaveFails
  <2>4. CASE ~UNCHANGED <<snap, thr>>
    <3>1. status' = s /\ snap' = s
      BY <1>3, <2>4 DEF Restart, Write
    <3>2. thr' = [thr EXCEPT ![w] = [Free EXCEPT !.job = snap.job, !.step = 1,
                     !.pc = IF snap.restart = "Normal" THEN "reboot"
                            ELSE "checkpoint"]]
      BY <1>3, <2>4 DEF Restart
    <3>3. /\ \A v \in Worker : v # w => thr'[v] = thr[v]
          /\ thr'[w].job = snap'.job /\ thr'[w].todo = {}
          /\ thr'[w].pc \in {"reboot", "checkpoint"}
      BY <2>2, <3>1, <3>2 DEF TypeOK, Free
    <3>4. Part(thr'[w]) = "Restarting"
      BY <3>3 DEF Part, Stepping
    <3> HIDE DEF s
    <3> QED BY <2>1, <2>2, <3>1, <3>3, <3>4, JobBegins
  <2> QED BY <2>3, <2>4
<1> QED BY <1>1, <1>2, <1>3 DEF Requests

-----------------------------------------------------------------------------
(* The threads *)

\* Launch, and the thread that could not be spawned.
LEMMA LaunchRecord ==
  ASSUME TypeOK, RootExclusion, Record, NEW w \in Worker,
         Launch(w) \/ LaunchFails(w)
  PROVE  Record'
<1>1. Owns(w) /\ up
  BY OwnerBusy DEF Launch, LaunchFails, Owns, Own
<1>2. CASE Launch(w)
  <2>1. /\ \A v \in Worker : v # w => thr'[v] = thr[v]
        /\ thr'[w] = [thr[w] EXCEPT !.pc = IF thr[w].pc = "launchCheck"
                                           THEN "query" ELSE "prepare"]
        /\ thr[w].pc \in {"launchCheck", "launchInstall"}
    BY <1>2 DEF Launch, Goto, TypeOK
  <2>2. /\ thr'[w].pc \in {"query", "prepare"}
        /\ thr'[w].pc = "query" <=> thr[w].pc = "launchCheck"
        /\ thr'[w].job = thr[w].job /\ thr'[w].todo = thr[w].todo
    BY <2>1 DEF TypeOK, Thread
  <2>3. Part(thr'[w]) = Part(thr[w])
    BY <2>1, <2>2 DEF Part, Stepping
  <2>4. \A t \in InstallTools : Tried(t, thr[w]) => Tried(t, thr'[w])
    BY <2>1, <2>2 DEF Tried, Stepping
  <2>5. UNCHANGED <<up, snap, status, cancelCheck, boot, asked, cancelled>>
    BY <1>2 DEF Launch, disk, past
  <2> QED BY <1>1, <2>1, <2>2, <2>3, <2>4, <2>5, GoesOn
<1>3. CASE LaunchFails(w)
  <2>1. /\ \A v \in Worker : v # w => thr'[v] = thr[v]
        /\ thr'[w].pc = "none" /\ ~Owns(w)'
    BY <1>3 DEF LaunchFails, End, Free, Owns, Own, TypeOK
  <2>2. /\ snap' = [snap EXCEPT !.phase = "Failed"] /\ status' = snap'
        /\ UNCHANGED <<up, cancelCheck, boot, asked, cancelled>>
    BY <1>3 DEF LaunchFails, ThreadOnly, past
  <2>3. snap'.job = snap.job /\ snap'.phase = "Failed"
        /\ snap'.restart = snap.restart
    BY <2>2 DEF TypeOK, Snapshot
  <2> QED BY <1>1, <2>1, <2>2, <2>3, PartEnds
<1> QED BY <1>2, <1>3

LEMMA CheckThreadRecord ==
  ASSUME TypeOK, RootExclusion, Record, NEW w \in Worker, CheckThread(w),
         up
  PROVE  Record'
<1>1. CASE Query(w)
  <2>1. /\ thr[w].pc = "query" /\ Owns(w)
        /\ \A v \in Worker : v # w => thr'[v] = thr[v]
        /\ thr'[w].pc = "query" /\ thr'[w].job = thr[w].job
        /\ thr'[w].todo \subseteq thr[w].todo
    BY <1>1 DEF Query, Owns, Own, TypeOK, Thread
  <2>2. Part(thr'[w]) = Part(thr[w])
    BY <2>1 DEF Part
  <2>3. \A t \in InstallTools : Tried(t, thr[w]) => Tried(t, thr'[w])
    BY <2>1 DEF Tried, Stepping
  <2>4. /\ snap' = snap /\ status' \in {status, snap'}
        /\ UNCHANGED <<up, cancelCheck, boot, asked, cancelled>>
    BY <1>1 DEF Query, Change, Write, ThreadOnly, past
  <2> QED BY <2>1, <2>2, <2>3, <2>4, GoesOn
<1>2. CASE StopQuery(w)
  <2>1. /\ Owns(w) /\ ~Owns(w)' /\ thr'[w].pc = "none"
        /\ \A v \in Worker : v # w => thr'[v] = thr[v]
    BY <1>2 DEF StopQuery, End, Free, Owns, Own, TypeOK
  <2>2. /\ snap' = [snap EXCEPT !.phase = "Cancelled"]
        /\ status' \in {status, snap'}
        /\ UNCHANGED <<up, cancelCheck, boot, asked, cancelled>>
    BY <1>2 DEF StopQuery, Change, Write, ThreadOnly, past
  <2>3. snap'.job = snap.job /\ snap'.phase = "Cancelled"
        /\ snap'.restart = snap.restart
    BY <2>2 DEF TypeOK, Snapshot
  <2> QED BY <2>1, <2>2, <2>3, PartEnds
<1>3. CASE Conclude(w)
  <2>1. /\ Owns(w) /\ ~Owns(w)' /\ thr'[w].pc = "publish"
        /\ thr[w].pc = "query"
        /\ \A v \in Worker : v # w => thr'[v] = thr[v]
    BY <1>3 DEF Conclude, Goto, Owns, Own, TypeOK, Thread
  <2>2. /\ snap' = [snap EXCEPT !.phase = Verdict] /\ status' = status
        /\ UNCHANGED <<up, cancelCheck, boot, asked, cancelled>>
    BY <1>3 DEF Conclude, ThreadOnly, past
  <2>3. snap'.job = snap.job /\ snap'.phase = Verdict
        /\ snap'.restart = snap.restart
    BY <2>2 DEF TypeOK, Snapshot
  <2>4. snap.phase = "Checking"
    BY <2>1 DEF Record, PartTold, Part
  <2> QED BY <2>1, <2>2, <2>3, <2>4, PartEnds DEF Verdict
<1>4. CASE Publish(w)
  <2>1. /\ ~Owns(w)' /\ thr'[w].pc \in {"notices", "none"}
        /\ \A v \in Worker : v # w => thr'[v] = thr[v]
    BY <1>4 DEF Publish, Goto, End, Free, Owns, Own, TypeOK, Thread
  <2>2. /\ snap' = snap /\ status' \in {status, snap'}
        /\ UNCHANGED <<up, cancelCheck, boot, asked, cancelled>>
    BY <1>4 DEF Publish, Change, Write, ThreadOnly, past
  <2> QED BY <2>1, <2>2, GoesOn
<1> QED BY <1>1, <1>2, <1>3, <1>4 DEF CheckThread

LEMMA RestartThreadRecord ==
  ASSUME TypeOK, RootExclusion, Record, NEW w \in Worker, RestartThread(w),
         up
  PROVE  Record'
<1>0. Owns(w) /\ End(w)
  BY DEF RestartThread, Reboots, RestartFails, Owns, Own
<1>1. /\ \A v \in Worker : v # w => thr'[v] = thr[v]
      /\ thr'[w].pc = "none" /\ Owns(w) /\ ~Owns(w)'
  BY <1>0 DEF End, Free, Owns, Own, TypeOK
<1>2. CASE Reboots(w)
  <2>1. UNCHANGED <<up, snap, status, cancelCheck, boot, asked, cancelled>>
    BY <1>2 DEF Reboots, disk, past
  <2> QED BY <1>1, <2>1, GoesOn
<1>3. CASE RestartFails(w)
  <2>1. /\ snap' = [snap EXCEPT !.phase = "Partial"]
        /\ status' \in {status, snap'}
        /\ UNCHANGED <<up, cancelCheck, boot, asked, cancelled>>
    BY <1>3 DEF RestartFails, Change, Write, ThreadOnly, past
  <2>2. snap'.job = snap.job /\ snap'.phase = "Partial"
        /\ snap'.restart = snap.restart
    BY <2>1 DEF TypeOK, Snapshot
  <2> QED BY <1>1, <2>1, <2>2, PartEnds
<1> QED BY <1>2, <1>3 DEF RestartThread

LEMMA InstallThreadRecord ==
  ASSUME TypeOK, RootExclusion, Record, NEW w \in Worker, InstallThread(w),
         up
  PROVE  Record'
<1>1. ASSUME Refused(w), thr[w].pc \in {"prepare", "begin"} PROVE Record'
  <2>1. /\ Owns(w) /\ ~Owns(w)' /\ thr'[w].pc = "refused"
        /\ \A v \in Worker : v # w => thr'[v] = thr[v]
    BY <1>1 DEF Refused, Goto, Owns, Own, TypeOK, Thread
  <2>2. /\ snap' = [snap EXCEPT !.phase = "Failed"]
        /\ status' \in {status, snap'}
        /\ UNCHANGED <<up, cancelCheck, boot, asked, cancelled>>
    BY <1>1 DEF Refused, Change, Write, ThreadOnly, past
  <2>3. snap'.job = snap.job /\ snap'.phase = "Failed"
        /\ snap'.restart = snap.restart
    BY <2>2 DEF TypeOK, Snapshot
  <2> QED BY <2>1, <2>2, <2>3, PartEnds
<1>2. ASSUME ~Refused(w), Prepare(w) \/ Begin(w) PROVE Record'
  <2>1. /\ thr[w].pc \in {"prepare", "begin"} /\ Change(snap) /\ ThreadOnly
        /\ Goto(w, "begin") \/ Goto(w, "sources")
    BY <1>2, Zenon DEF Prepare, Begin
  <2>2. /\ Owns(w) /\ thr'[w].job = thr[w].job
        /\ thr'[w].pc \in {"begin", "sources"} /\ thr'[w].todo = thr[w].todo
        /\ \A v \in Worker : v # w => thr'[v] = thr[v]
    BY <2>1 DEF Goto, Owns, Own, TypeOK, Thread
  <2>3. Part(thr'[w]) = Part(thr[w])
    BY <2>1, <2>2 DEF Part, Stepping
  <2>4. \A t \in InstallTools : Tried(t, thr[w]) => Tried(t, thr'[w])
    BY <2>1, <2>2 DEF Tried, Stepping
  <2>5. /\ snap' = snap /\ status' \in {status, snap'}
        /\ UNCHANGED <<up, cancelCheck, boot, asked, cancelled>>
    BY <2>1 DEF Change, Write, ThreadOnly, past
  <2> QED BY <2>2, <2>3, <2>4, <2>5, GoesOn
<1>3. CASE NextSource(w)
  <2>1. /\ thr[w].pc = "sources" /\ Owns(w) /\ thr[w].todo # {}
        /\ thr'[w].pc \in {"result", "checkpoint"}
        /\ thr'[w].job = thr[w].job /\ thr'[w].todo = thr[w].todo
        /\ \A v \in Worker : v # w => thr'[v] = thr[v]
    BY <1>3 DEF NextSource, Owns, Own, TypeOK, Thread
  <2>2. Part(thr'[w]) = Part(thr[w])
    BY <2>1 DEF Part, Stepping
  <2>3. \A t \in InstallTools : Tried(t, thr[w]) => Tried(t, thr'[w])
    BY <2>1 DEF Tried, Stepping
  <2>4. /\ snap' = snap /\ status' \in {status, snap'}
        /\ UNCHANGED <<up, cancelCheck, boot, asked, cancelled>>
    BY <1>3 DEF NextSource, Change, Write, ThreadOnly, past
  <2> QED BY <2>1, <2>2, <2>3, <2>4, GoesOn
<1>4. CASE Stage(w)
  <2>1. /\ thr[w].pc = "stage" /\ Owns(w) /\ thr'[w].pc = "result"
        /\ thr'[w].job = thr[w].job /\ thr'[w].todo = thr[w].todo
        /\ thr'[w].step = thr[w].step
        /\ \A v \in Worker : v # w => thr'[v] = thr[v]
    <3>1. PICK good \in BOOLEAN :
            thr' = [thr EXCEPT ![w].pc = "result", ![w].good = good]
      BY <1>4 DEF Stage
    <3>2. thr[w].pc = "stage" BY <1>4 DEF Stage
    <3> QED BY <3>1, <3>2 DEF Owns, Own, TypeOK, Thread
  <2>2. Part(thr'[w]) = Part(thr[w]) /\ thr'[w].todo # {}
    BY <2>1 DEF Part, Stepping, Record, PartTold
  <2>3. \A t \in InstallTools : Tried(t, thr[w]) => Tried(t, thr'[w])
    BY <2>1 DEF Tried, Stepping
  <2>4. /\ snap' = [snap EXCEPT !.restart = StagedAs]
        /\ status' \in {status, snap'}
        /\ UNCHANGED <<up, cancelCheck, boot, asked, cancelled>>
    BY <1>4 DEF Stage, Change, Write, ThreadOnly, past
  <2>5. snap'.job = snap.job /\ snap'.phase = snap.phase
        /\ snap'.restart # "None"
    BY <2>4, StagedAssumption DEF TypeOK, Snapshot
  <2> QED BY <2>1, <2>2, <2>3, <2>4, <2>5, GoesOn
<1>5. CASE Result(w)
  <2>1. /\ thr[w].pc = "result" /\ Owns(w) /\ thr'[w].pc = "sources"
        /\ thr'[w].job = thr[w].job
        /\ thr'[w].todo = thr[w].todo \ {First(thr[w].todo)}
        /\ \A v \in Worker : v # w => thr'[v] = thr[v]
    BY <1>5 DEF Result, Owns, Own, TypeOK, Thread
  <2>2. Part(thr'[w]) = Part(thr[w])
    BY <2>1 DEF Part, Stepping
  <2>3. \A t \in InstallTools : Tried(t, thr[w]) => Tried(t, thr'[w])
    BY <2>1 DEF Tried
  <2>4. /\ snap' = [snap EXCEPT !.results = @ \union {thr[w].good}]
        /\ status' \in {status, snap'}
        /\ UNCHANGED <<up, cancelCheck, boot, asked, cancelled>>
    BY <1>5 DEF Result, Change, Write, ThreadOnly, past
  <2>5. snap'.job = snap.job /\ snap'.phase = snap.phase
        /\ snap'.restart = snap.restart
    BY <2>4 DEF TypeOK, Snapshot
  <2> QED BY <2>1, <2>2, <2>3, <2>4, <2>5, GoesOn
<1>6. CASE Close(w)
  <2>1. /\ thr[w].pc = "sources" /\ Owns(w) /\ thr'[w].pc = "final"
        /\ thr'[w].job = thr[w].job /\ thr'[w].todo = thr[w].todo
        /\ \A v \in Worker : v # w => thr'[v] = thr[v]
    BY <1>6 DEF Close, Goto, Owns, Own, TypeOK, Thread
  <2>2. Part(thr'[w]) = Part(thr[w])
    BY <2>1 DEF Part, Stepping
  <2>3. \A t \in InstallTools : Tried(t, thr[w]) => Tried(t, thr'[w])
    BY <2>1 DEF Tried, Stepping
  <2>4. UNCHANGED <<snap, status, up, cancelCheck, boot, asked, cancelled>>
    BY <1>6 DEF Close, disk, past
  <2> QED BY <2>1, <2>2, <2>3, <2>4, GoesOn
<1>7. CASE Finish(w)
  <2>1. /\ Owns(w) /\ ~Owns(w)' /\ thr'[w].pc = "release"
        /\ \A v \in Worker : v # w => thr'[v] = thr[v]
    BY <1>7 DEF Finish, Goto, Owns, Own, TypeOK, Thread
  <2>2. /\ snap' = [snap EXCEPT !.phase = Outcome(snap.results), !.child = NoTool]
        /\ status' \in {status, snap'}
        /\ UNCHANGED <<up, cancelCheck, boot, asked, cancelled>>
    BY <1>7 DEF Finish, Change, Write, ThreadOnly, past
  <2>3. snap'.job = snap.job /\ snap'.restart = snap.restart
        /\ snap'.phase \notin {"Checking", "Reviewing", "Running"}
    BY <2>2 DEF Outcome, TypeOK, Snapshot
  <2> QED BY <2>1, <2>2, <2>3, PartEnds
<1>8. CASE Release(w) \/ Notice(w) \/ Unfiled(w) \/ Recount(w)
  <2>1. /\ thr[w].pc \in {"release", "refused", "notice", "unfiled", "recount"}
        /\ End(w) \/ \E pc \in {"notice", "giveUp", "archive", "recount"} : Goto(w, pc)
    BY <1>8 DEF Release, Notice, Unfiled, Recount
  <2>2. /\ ~Owns(w)' /\ thr'[w].pc \notin {"spawn", "child", "run"}
        /\ \A v \in Worker : v # w => thr'[v] = thr[v]
    BY <2>1 DEF Goto, End, Free, Owns, Own, TypeOK, Thread
  <2>3. /\ snap' = snap /\ status' \in {status, snap'}
        /\ UNCHANGED <<up, cancelCheck, boot, asked, cancelled>>
    BY <1>8 DEF Release, Notice, Unfiled, Recount, Change, Write, ThreadOnly,
                disk, past
  <2> QED BY <2>2, <2>3, GoesOn
<1>9. CASE Archive(w)
  <2>1. \/ Goto(w, "recount") \/ End(w)
        \/ thr' = [thr EXCEPT ![w].pc = "unfiled",
                              ![w].good = thr[w].pc = "archive"]
    BY <1>9 DEF Archive
  <2>2. /\ ~Owns(w)' /\ thr'[w].pc \notin {"spawn", "child", "run"}
        /\ \A v \in Worker : v # w => thr'[v] = thr[v]
    <3>1. \A v \in Worker : v # w => thr'[v] = thr[v]
      BY <2>1 DEF Goto, End, TypeOK
    <3>2. thr'[w].pc \in {"recount", "none", "unfiled"}
      BY <2>1 DEF Goto, End, Free, TypeOK, Thread
    <3> QED BY <3>1, <3>2 DEF Owns, Own
  <2>3. UNCHANGED <<snap, status, up, cancelCheck, boot, asked, cancelled>>
    BY <1>9 DEF Archive, past
  <2> QED BY <2>2, <2>3, GoesOn
<1> QED
  BY <1>1, <1>2, <1>3, <1>4, <1>5, <1>6, <1>7, <1>8, <1>9
     DEF InstallThread, Prepare, Begin

\* A step that failed leaves its thread in the same part of the job.
LEMMA FailsFacts ==
  ASSUME TypeOK, NEW w \in Worker, Fails(w), thr[w].pc \in Stepping
  PROVE  /\ Owns(w) /\ thr'[w].pc \in {"restartFailed", "result"}
         /\ thr'[w].job = thr[w].job
         /\ thr'[w].pc = "result" => thr'[w].todo # {}
         /\ Part(thr'[w]) = Part(thr[w])
         /\ \A t \in InstallTools : Tried(t, thr[w]) => Tried(t, thr'[w])
         /\ \A v \in Worker : v # w => thr'[v] = thr[v]
<1>1. /\ thr'[w].pc = IF thr[w].todo = {} THEN "restartFailed" ELSE "result"
      /\ thr'[w].job = thr[w].job /\ thr'[w].todo = thr[w].todo
      /\ thr'[w].step = thr[w].step
      /\ \A v \in Worker : v # w => thr'[v] = thr[v]
  BY DEF Fails, Offline, TypeOK, Thread
<1>2. Owns(w)
  BY DEF Owns, Own, Stepping
<1>3. Part(thr'[w]) = Part(thr[w])
  BY <1>1 DEF Part, Stepping
<1>4. \A t \in InstallTools : Tried(t, thr[w]) => Tried(t, thr'[w])
  BY <1>1 DEF Tried, Stepping
<1> QED BY <1>1, <1>2, <1>3, <1>4

\* The tool that is asked for is the next of its job, which is being installed.
LEMMA SpawnRecord ==
  ASSUME TypeOK, RootExclusion, Record, NEW w \in Worker, Spawn(w) \/ Ask(w)
  PROVE  Record'
<1> DEFINE t == ToolOf(w)
<1>1. /\ thr[w].pc = "spawn" /\ thr'[w].pc = "child" /\ Owns(w)
      /\ thr'[w].job = thr[w].job /\ thr'[w].todo = thr[w].todo
      /\ thr'[w].step = thr[w].step
      /\ \A v \in Worker : v # w => thr'[v] = thr[v]
  BY DEF Spawn, Ask, Goto, Owns, Own, TypeOK, Thread
<1>2. /\ asked' = asked \union {t}
      /\ UNCHANGED <<up, snap, status, cancelCheck, boot, cancelled>>
  BY DEF Spawn, Ask, disk
<1>3. up /\ thr[w].job = snap.job
  BY <1>1, OwnerBusy
<1>4. status.job = snap.job /\ status.phase = snap.phase
  BY <1>1 DEF Record, ToolAnnounced
<1>5. snap.phase = Part(thr[w])
  BY <1>1 DEF Record, PartTold
<1>6. t.job = snap.job /\ t.source = Current(w) /\ t.step = thr[w].step
  BY <1>3 DEF ToolOf
<1>7. CASE t.source = 0
  <2>1. InstallTools' = InstallTools
    BY <1>2, <1>7 DEF InstallTools
  <2>2. Part(thr'[w]) = Part(thr[w])
    BY <1>1 DEF Part, Stepping
  <2>3. \A u \in InstallTools : Tried(u, thr[w]) => Tried(u, thr'[w])
    BY <1>1 DEF Tried, Stepping
  <2>4. PartTold' /\ ToolAnnounced' /\ TriedInOrder'
    BY <1>1, <1>2, <1>4, <2>1, <2>2, <2>3
       DEF Record, PartTold, ToolAnnounced, TriedInOrder, Owns
  <2>5. CheckOnDisk' /\ RestartTold' /\ DiskAhead' /\ CancelTold' /\ StartTold'
        /\ DownIsEmpty'
    BY <1>2, <1>3, <2>1 DEF Record, CheckOnDisk, RestartTold, DiskAhead, CancelTold,
                      Spared, StartTold, Past, DownIsEmpty
  <2> QED BY <2>4, <2>5 DEF Record
<1>8. CASE t.source # 0
  <2>1. thr[w].todo # {} /\ t.source = First(thr[w].todo)
    BY <1>6, <1>8 DEF Current, Offline
  <2>2. snap.phase = "Running"
    BY <1>1, <1>5, <2>1 DEF Part
  <2>3. snap.job \notin cancelled
    BY <1>3, <2>2 DEF Record, CancelTold, Spared
  <2>4. InstallTools' = InstallTools \union {t}
    BY <1>2, <1>8 DEF InstallTools
  <2>5. Part(thr'[w]) = Part(thr[w])
    BY <1>1 DEF Part, Stepping
  <2>6. PartTold' /\ ToolAnnounced'
    BY <1>1, <1>2, <1>4, <2>5 DEF Record, PartTold, ToolAnnounced, Owns
  <2>7. CheckOnDisk' /\ RestartTold' /\ DiskAhead' /\ CancelTold' /\ DownIsEmpty'
    BY <1>2, <1>3 DEF Record, CheckOnDisk, RestartTold, DiskAhead, CancelTold,
                      Spared, DownIsEmpty
  <2>8. Past(t, snap) /\ Past(t, status)
    BY <1>4, <1>6, <2>2 DEF Past, TypeOK, Snapshot, JobId
  <2>9. StartTold'
    <3> SUFFICES ASSUME NEW u \in InstallTools \union {t}
                 PROVE  u.job \notin cancelled /\ Past(u, status) /\ Past(u, snap)
      BY <1>2, <2>4 DEF StartTold, Past
    <3>1. CASE u = t
      BY <1>6, <2>3, <2>8, <3>1
    <3>2. CASE u \in InstallTools
      BY <1>3, <3>2 DEF Record, StartTold
    <3> QED BY <3>1, <3>2
  <2>10. Tried(t, thr'[w])
    BY <1>1, <1>6, <2>1 DEF Tried, Stepping, TypeOK, Thread
  <2>11. \A u \in InstallTools : Tried(u, thr[w]) => Tried(u, thr'[w])
    BY <1>1 DEF Tried, Stepping
  <2>12. \A v \in Worker : Owns(v)' => v = w
    BY <1>1 DEF RootExclusion, OneOwner, Owns
  <2>13. TriedInOrder'
    BY <1>1, <2>4, <2>10, <2>11, <2>12 DEF Record, TriedInOrder
  <2> QED BY <2>6, <2>7, <2>9, <2>13 DEF Record
<1> QED BY <1>7, <1>8

LEMMA ToolThreadRecord ==
  ASSUME TypeOK, RootExclusion, Record, NEW w \in Worker, ToolThread(w), up
  PROVE  Record'
<1>1. CASE Checkpoint(w)
  <2>1. /\ thr[w].pc = "checkpoint" /\ snap' = snap /\ status' \in {status, snap}
        /\ UNCHANGED <<up, cancelCheck, boot, asked, cancelled>>
    BY <1>1 DEF Checkpoint, Write, ThreadOnly, past
  <2>2. CASE Fails(w)
    BY <2>1, <2>2, FailsFacts, GoesOn DEF Stepping
  <2>3. CASE status' = snap /\ Goto(w, "spawn")
    <3>1. /\ Owns(w) /\ thr'[w].pc = "spawn" /\ thr'[w].job = thr[w].job
          /\ thr'[w].todo = thr[w].todo /\ thr'[w].step = thr[w].step
          /\ \A v \in Worker : v # w => thr'[v] = thr[v]
      BY <2>1, <2>3 DEF Goto, Owns, Own, TypeOK, Thread
    <3>2. Part(thr'[w]) = Part(thr[w])
      BY <2>1, <3>1 DEF Part, Stepping
    <3>3. \A t \in InstallTools : Tried(t, thr[w]) => Tried(t, thr'[w])
      BY <2>1, <3>1 DEF Tried, Stepping
    <3> QED BY <2>1, <2>3, <3>1, <3>2, <3>3, GoesOn
  <2> QED BY <1>1, <2>2, <2>3 DEF Checkpoint, Write
<1>2. CASE Spawn(w) \/ Ask(w)
  BY <1>2, SpawnRecord
<1>3. CASE SpawnFails(w)
  <2>1. /\ thr[w].pc \in Stepping /\ Fails(w)
        /\ UNCHANGED <<snap, status, up, cancelCheck, boot, asked, cancelled>>
    BY <1>3 DEF SpawnFails, disk, past, Stepping
  <2> QED BY <2>1, FailsFacts, GoesOn
<1>4. CASE Child(w)
  <2>1. /\ thr[w].pc = "child" /\ thr'[w].pc = "run" /\ Owns(w)
        /\ thr'[w].job = thr[w].job /\ thr'[w].todo = thr[w].todo
        /\ thr'[w].step = thr[w].step
        /\ \A v \in Worker : v # w => thr'[v] = thr[v]
    BY <1>4 DEF Child, Goto, Owns, Own, TypeOK, Thread
  <2>2. Part(thr'[w]) = Part(thr[w])
    BY <2>1 DEF Part, Stepping
  <2>3. \A t \in InstallTools : Tried(t, thr[w]) => Tried(t, thr'[w])
    BY <2>1 DEF Tried, Stepping
  <2>4. /\ snap' = [snap EXCEPT !.child = ToolOf(w)]
        /\ status' \in {status, snap'}
        /\ UNCHANGED <<up, cancelCheck, boot, asked, cancelled>>
    BY <1>4 DEF Child, Change, Write, ThreadOnly, past
  <2>5. snap'.job = snap.job /\ snap'.phase = snap.phase
        /\ snap'.restart = snap.restart
    BY <2>4 DEF TypeOK, Snapshot
  <2> QED BY <2>1, <2>2, <2>3, <2>4, <2>5, GoesOn
<1>5. CASE Reap(w)
  <2>1. /\ thr[w].pc \in {"child", "run"} /\ Owns(w) /\ thr[w].pc \in Stepping
    BY <1>5 DEF Reap, Owns, Own, Stepping
  <2>2. /\ snap' = [snap EXCEPT !.child = NoTool]
        /\ status' \in {status, snap'}
        /\ UNCHANGED <<up, cancelCheck, boot, asked, cancelled>>
    BY <1>5 DEF Reap, Change, Write, ThreadOnly, past
  <2>3. snap'.job = snap.job /\ snap'.phase = snap.phase
        /\ snap'.restart = snap.restart
    BY <2>2 DEF TypeOK, Snapshot
  <2>4. CASE Fails(w)
    BY <2>1, <2>2, <2>3, <2>4, FailsFacts, GoesOn
  <2>5. CASE End(w)
    <3>1. /\ ~Owns(w)' /\ thr'[w].pc = "none"
          /\ \A v \in Worker : v # w => thr'[v] = thr[v]
      BY <2>5 DEF End, Free, Owns, Own, TypeOK
    <3> QED BY <2>1, <2>2, <2>3, <3>1, GoesOn
  <2>6. CASE thr' = [thr EXCEPT ![w].pc = "checkpoint", ![w].step = NextStep(w)]
    <3>1. /\ thr'[w].pc = "checkpoint" /\ thr'[w].job = thr[w].job
          /\ thr'[w].todo = thr[w].todo /\ thr'[w].step = thr[w].step + 1
          /\ \A v \in Worker : v # w => thr'[v] = thr[v]
      BY <2>6 DEF NextStep, TypeOK, Thread
    <3>2. Part(thr'[w]) = Part(thr[w])
      BY <2>1, <3>1 DEF Part, Stepping
    <3>3. \A t \in InstallTools : t.step \in Nat /\ thr[w].step \in Nat
      BY DEF InstallTools, TypeOK, Tool, Thread
    <3>4. \A t \in InstallTools : Tried(t, thr[w]) => Tried(t, thr'[w])
      BY <2>1, <3>1, <3>3 DEF Tried, Stepping
    <3> QED BY <2>1, <2>2, <2>3, <3>1, <3>2, <3>4, GoesOn
  <2>7. CASE /\ thr[w].todo # {}
             /\ \/ thr' = [thr EXCEPT ![w].pc = "result", ![w].good = TRUE]
                \/ Goto(w, "stage")
    <3>1. /\ thr'[w].pc \in {"result", "stage"} /\ thr'[w].job = thr[w].job
          /\ thr'[w].todo = thr[w].todo /\ thr'[w].step = thr[w].step
          /\ \A v \in Worker : v # w => thr'[v] = thr[v]
      BY <2>7 DEF Goto, TypeOK, Thread
    <3>2. Part(thr'[w]) = Part(thr[w])
      BY <2>1, <2>7, <3>1 DEF Part, Stepping
    <3>3. \A t \in InstallTools : Tried(t, thr[w]) => Tried(t, thr'[w])
      BY <2>1, <3>1 DEF Tried, Stepping
    <3> QED BY <2>1, <2>2, <2>3, <2>7, <3>1, <3>2, <3>3, GoesOn
  <2>8. Current(w) = System => thr[w].todo # {}
    BY SourceAssumption DEF Current, Offline
  <2> QED BY <1>5, <2>4, <2>5, <2>6, <2>7, <2>8, Zenon DEF Reap, Offline
<1>6. CASE Denied(w)
  <2>1. thr[w].pc \in Stepping /\ Fails(w)
    BY <1>6 DEF Denied, Stepping
  <2>2. /\ snap' = [snap EXCEPT !.child = NoTool]
        /\ status' \in {status, snap'}
        /\ UNCHANGED <<up, cancelCheck, boot, asked, cancelled>>
    BY <1>6 DEF Denied, Change, Write, ThreadOnly, past
  <2>3. snap'.job = snap.job /\ snap'.phase = snap.phase
        /\ snap'.restart = snap.restart
    BY <2>2 DEF TypeOK, Snapshot
  <2> QED BY <2>1, <2>2, <2>3, FailsFacts, GoesOn
<1> QED BY <1>1, <1>2, <1>3, <1>4, <1>5, <1>6 DEF ToolThread

\* Only a coordinator that runs answers and has threads.
LEMMA OnlyWhileUp ==
  ASSUME Record, NEW w \in Worker,
         Requests(w) \/ Runs(w) \/ LaunchFails(w) \/ OutputLost(w)
  PROVE  up
<1>1. CASE Requests(w)
  BY <1>1 DEF Requests, Check, Install, Restart, Serving
<1>2. CASE Runs(w) \/ LaunchFails(w) \/ OutputLost(w)
  <2>1. thr[w].pc # "none"
    BY <1>2 DEF Runs, LaunchFails, OutputLost, Recording, Launch, CheckThread,
       Query, StopQuery, Conclude, Publish, InstallThread, Prepare, Begin,
       NextSource, Stage, Result, Close, Finish, Release, Notice, Archive,
       Unfiled, Recount, ToolThread, Checkpoint, Spawn, Ask, SpawnFails, Child, Denied, Reap,
       RestartThread, Reboots, RestartFails
  <2> QED BY <2>1 DEF Record, DownIsEmpty
<1> QED BY <1>1, <1>2

\* Every step keeps the record.
LEMMA RecordStep ==
  ASSUME TypeOK, RootExclusion, Record, [Next]_vars
  PROVE  Record'
<1>1. CASE Start BY <1>1, StartRecord
<1>2. CASE Crash \/ ReplacedExit \/ IdleExit \/ Reboot
  BY <1>2, RecordStays DEF Crash, ReplacedExit, IdleExit, Reboot, disk
<1>3. CASE CancelCheck BY <1>3, CancelRecord
<1>4. ASSUME NEW w \in Worker, Requests(w) PROVE Record'
  BY <1>4, RequestsRecord
<1>5. ASSUME NEW w \in Worker, Runs(w) \/ LaunchFails(w) PROVE Record'
  <2>1. up
    BY <1>5, OnlyWhileUp
  <2> QED
    BY <1>5, <2>1, LaunchRecord, CheckThreadRecord, InstallThreadRecord,
       ToolThreadRecord, RestartThreadRecord DEF Runs
<1>6. ASSUME NEW w \in Worker, OutputLost(w) PROVE Record'
  BY <1>6, NothingTold DEF OutputLost, disk, past
<1>7. CASE Machine
  <2>1. UNCHANGED <<thr, up, status, snap, cancelCheck, boot, asked, cancelled>>
        \/ Reboot
    BY <1>7 DEF Machine, ToolExits, ChannelLost, Serve, Deny, WorkerEnds, TakePermit,
                DropPermit, disk, process, past
  <2> QED BY <1>2, <2>1, NothingTold
<1>8. CASE UNCHANGED vars
  BY <1>8, NothingTold DEF vars, disk, process, past
<1> QED BY <1>1, <1>2, <1>3, <1>4, <1>5, <1>6, <1>7, <1>8 DEF Next, Lifecycle

-----------------------------------------------------------------------------
(* The properties *)

LEMMA InitRecord == Init => Record
BY DEF Init, Record, DownIsEmpty, PartTold, ToolAnnounced, CheckOnDisk, RestartTold,
       DiskAhead, CancelTold, StartTold, InstallTools, TriedInOrder, Owns, Own, Free

\* The invariants hold together of every behaviour.
LEMMA Recorded == Spec => [](TypeOK /\ RootExclusion /\ Record)
<1>1. TypeOK /\ RootExclusion /\ Record /\ [Next]_vars => Record'
  BY RecordStep
<1> QED BY <1>1, InitRecord, TypeCorrect, Exclusion, PTL DEF Spec

\* While a tool is alive and a thread waits for it, the journal on disk names the
\* coordinator's job and says that it is under way (docs/updates.md:155).
THEOREM Evidence == Spec => []EvidenceOnDisk
<1>1. TypeOK /\ RootExclusion /\ Record => EvidenceOnDisk
  <2> SUFFICES ASSUME TypeOK, RootExclusion, Record, NEW t \in tools,
                      NEW w \in Worker, thr[w].pc \in {"child", "run"},
                      ToolOf(w) = t
               PROVE  /\ status.job = t.job
                      /\ status.phase = IF t.source = 0 THEN "Restarting" ELSE "Running"
    BY DEF EvidenceOnDisk, Attended
  <2>1. Owns(w)
    BY DEF Owns, Own
  <2>2. status.job = snap.job /\ status.phase = snap.phase
    BY DEF Record, ToolAnnounced
  <2>3. t.job = snap.job
    BY <2>1, OwnerBusy DEF ToolOf
  <2>4. snap.phase = Part(thr[w])
    BY <2>1 DEF Record, PartTold
  <2>5. t.source = 0 <=> thr[w].todo = {}
    <3>1. thr[w].todo \in SUBSET Nat /\ 0 \notin thr[w].todo
      BY SourceAssumption DEF TypeOK, Thread
    <3>2. thr[w].todo # {} => First(thr[w].todo) \in thr[w].todo
      BY <3>1, FirstIn
    <3> QED BY <3>1, <3>2 DEF ToolOf, Current, Offline
  <2> QED BY <2>2, <2>3, <2>4, <2>5 DEF Part, Stepping
<1> QED BY <1>1, Recorded, PTL

\* What was cancelled is never reviewed, and none of its sources is touched,
\* by this coordinator or by a later one.
THEOREM CancelKept == Spec => []CancelHonoured
<1>1. TypeOK /\ Record => CancelHonoured
  <2> SUFFICES ASSUME TypeOK, Record, NEW j \in cancelled
               PROVE  /\ snap.job = j => snap.phase \notin {"Reviewing", "Running"}
                      /\ \A t \in asked : t.job # j \/ t.source = 0
    BY DEF CancelHonoured
  <2>1. snap.job = j => snap.phase \notin {"Reviewing", "Running"}
    BY DEF Record, CancelTold, Spared, DownIsEmpty, Default, TypeOK
  <2>2. \A t \in asked : t.job # j \/ t.source = 0
    BY DEF Record, StartTold, InstallTools
  <2> QED BY <2>1, <2>2
<1> QED BY <1>1, Recorded, PTL

\* A thread has to do with tools when it starts one or asks for one, and at no
\* other time,
LEMMA ThreadsAskOnly ==
  ASSUME NEW w \in Worker,
         Requests(w) \/ Runs(w) \/ LaunchFails(w) \/ OutputLost(w),
         ~Spawn(w), ~Ask(w)
  PROVE  UNCHANGED <<tools, asked, sent, started>>
<1> USE DEF root, past, ThreadOnly
<1>1. CASE Requests(w) \/ LaunchFails(w) \/ OutputLost(w) \/ Launch(w)
  BY <1>1 DEF Requests, Check, Install, Restart, LaunchFails, OutputLost, Launch
<1>2. CASE CheckThread(w) \/ RestartThread(w)
  BY <1>2 DEF CheckThread, Query, StopQuery, Conclude, Publish, RestartThread,
              Reboots, RestartFails
<1>3. CASE InstallThread(w)
  BY <1>3 DEF InstallThread, Prepare, Begin, Refused, NextSource, Stage, Result,
              Close, Finish, Release, Notice, Archive, Unfiled, Recount
<1>4. CASE ToolThread(w)
  BY <1>4 DEF ToolThread, Checkpoint, SpawnFails, Child, Denied, Reap
<1> QED BY <1>1, <1>2, <1>3, <1>4 DEF Runs

\* and the rest of the machine when the root worker serves, or nobody does.
LEMMA ToolsMove ==
  ASSUME [Next]_vars
  PROVE  \/ \E w \in Worker : Spawn(w) \/ Ask(w)
         \/ Serve
         \/ /\ tools' \subseteq tools
            /\ sent' \in {sent, NoTool}
            /\ UNCHANGED <<asked, started>>
<1> USE DEF root, past
<1>1. CASE Lifecycle
  BY <1>1 DEF Lifecycle, Start, Crash, ReplacedExit, IdleExit
<1>2. CASE Machine
  BY <1>2 DEF Machine, ToolExits, ChannelLost, Deny, WorkerEnds, TakePermit, DropPermit,
              Reboot
<1>3. CASE CancelCheck \/ UNCHANGED vars
  BY <1>3 DEF CancelCheck, vars
<1> QED BY <1>1, <1>2, <1>3, ThreadsAskOnly DEF Next

\* The tool of an installation that is about to start was not asked for before.
LEMMA FreshTool ==
  ASSUME TypeOK, RootExclusion, Record, NEW w \in Worker, Spawn(w) \/ Ask(w),
         ToolOf(w).source # 0
  PROVE  ToolOf(w) \notin asked
<1> DEFINE t == ToolOf(w)
<1>1. thr[w].pc = "spawn" /\ Owns(w)
  BY DEF Spawn, Ask, Owns, Own
<1>2. t.job = thr[w].job /\ t.step = thr[w].step /\ t.source = Current(w)
  BY DEF ToolOf
<1>3. thr[w].todo \in SUBSET Nat /\ thr[w].todo # {}
  BY <1>2, SourceAssumption DEF TypeOK, Thread, Current, Offline
<1>4. t.source \in thr[w].todo
  BY <1>2, <1>3, FirstIn DEF Current, Offline
<1> HIDE DEF t
<1>5. t \notin InstallTools
  BY <1>1, <1>2, <1>4 DEF Record, TriedInOrder, Tried
<1> QED BY <1>5 DEF InstallTools, t

\* What the root worker has still to start has not run.
SentIsNew == sent # NoTool => sent \notin started

LEMMA SentNew == Spec => []SentIsNew
<1>1. ASSUME TypeOK, RootExclusion, Record, SentIsNew, [Next]_vars
      PROVE  SentIsNew'
  <2>1. ASSUME NEW w \in Worker, Ask(w) PROVE SentIsNew'
    <3>1. sent' = ToolOf(w) /\ started' = started /\ ToolOf(w).source \in Privileged
      BY <2>1 DEF Ask, ToolOf
    <3>2. ToolOf(w) \notin started
      BY <1>1, <2>1, <3>1, FreshTool, SourceAssumption DEF TypeOK
    <3> QED BY <3>1, <3>2 DEF SentIsNew
  <2>2. ASSUME NEW w \in Worker, Spawn(w) PROVE SentIsNew'
    <3>1. /\ sent' = sent /\ started' = started \union {ToolOf(w)}
          /\ ToolOf(w).source \notin Privileged
      BY <2>2 DEF Spawn, ToolOf, root
    <3> QED BY <1>1, <3>1 DEF SentIsNew, RootExclusion, SentIsPrivileged
  <2>3. CASE Serve
    BY <2>3 DEF Serve, SentIsNew
  <2> QED BY <1>1, <2>1, <2>2, <2>3, ToolsMove DEF SentIsNew
<1>2. Init => SentIsNew
  BY DEF Init, SentIsNew
<1> QED BY <1>1, <1>2, Recorded, PTL DEF Spec

\* No step of a source is started twice, whoever was killed in between, and
\* whatever the root worker still had to start then.
THEOREM NeverTwice == Spec => StartedOnce
<1>1. TypeOK /\ RootExclusion /\ Record /\ SentIsNew /\ [Next]_vars
      => [\A t \in tools' \ tools : t.source # 0 => t \notin started]_vars
  <2> SUFFICES ASSUME TypeOK, RootExclusion, Record, SentIsNew, [Next]_vars,
                      NEW t \in tools' \ tools, t.source # 0, t \in started
               PROVE  FALSE
    OBVIOUS
  <2>1. ASSUME NEW w \in Worker, Spawn(w) \/ Ask(w) PROVE FALSE
    <3>1. t = ToolOf(w)
      BY <2>1 DEF Spawn, Ask
    <3> QED BY <2>1, <3>1, FreshTool DEF TypeOK
  <2>2. CASE Serve
    BY <2>2 DEF Serve, SentIsNew
  <2> QED BY <2>1, <2>2, ToolsMove
<1> QED BY <1>1, Recorded, SentNew, PTL DEF Spec, StartedOnce

\* What a step may do to job, boot and restart of the running coordinator, and
\* what of it may be on disk afterwards.
Carried ==
  /\ \/ snap'.job = snap.job
     \/ snap'.job = snap.job + 1
  /\ snap'.boot \in {snap.boot, boot}
  /\ snap'.restart = snap.restart \/ snap'.restart # "None"
  /\ \/ status' = status
     \/ /\ status'.job \in {snap.job, snap.job + 1}
        /\ status'.boot \in {snap.boot, boot}
        /\ status'.restart \in {snap.restart, snap'.restart}

LEMMA CarriedByThreads ==
  ASSUME TypeOK, NEW w \in Worker,
         Requests(w) \/ Runs(w) \/ LaunchFails(w) \/ OutputLost(w)
  PROVE  Carried
<1>1. CASE Requests(w)
  <2>1. ASSUME NEW selected \in (SUBSET Source) \ {{}}, Check(w, selected)
        PROVE  Carried
    <3>1. /\ Fresh(selected).restart = snap.restart
          /\ Fresh(selected).job = snap.job + 1 /\ Fresh(selected).boot = boot
      BY DEF Fresh, Default
    <3> QED BY <2>1, <3>1 DEF Carried, Check, Write
  <2>2. CASE Install(w) \/ Restart(w)
    <3>1. \E s \in {[snap EXCEPT !.phase = "Running"],
                    [snap EXCEPT !.phase = "Restarting"]} :
            status' \in {status, s} /\ snap' \in {snap, s}
      BY <2>2 DEF Install, Restart, Write
    <3> QED BY <3>1 DEF Carried, TypeOK, Snapshot
  <2> QED BY <1>1, <2>1, <2>2 DEF Requests
<1>2. CASE OutputLost(w) \/ LaunchFails(w)
  BY <1>2 DEF OutputLost, LaunchFails, Carried, TypeOK, Snapshot, disk
<1>3. CASE Launch(w) \/ Spawn(w) \/ Ask(w) \/ SpawnFails(w) \/ Close(w)
           \/ Release(w) \/ Archive(w) \/ Reboots(w)
  BY <1>3 DEF Launch, Spawn, Ask, SpawnFails, Close, Release, Archive, Reboots,
              Carried, disk
<1>4. ASSUME snap'.job = snap.job, snap'.boot = snap.boot,
             status' \in {status, snap'},
             snap'.restart = snap.restart \/ snap'.restart # "None"
      PROVE  Carried
  BY <1>4 DEF Carried
<1>5. CASE CheckThread(w) \/ RestartThread(w)
  <2>1. CASE Query(w) \/ Publish(w)
    BY <1>4, <2>1 DEF Query, Publish, Change, Write
  <2>2. CASE StopQuery(w)
    BY <1>4, <2>2 DEF StopQuery, Change, Write, TypeOK, Snapshot
  <2>3. CASE RestartFails(w)
    BY <1>4, <2>3 DEF RestartFails, Change, Write, TypeOK, Snapshot
  <2>4. CASE Conclude(w)
    BY <2>4 DEF Conclude, Carried, TypeOK, Snapshot
  <2> QED BY <1>3, <1>5, <2>1, <2>2, <2>3, <2>4 DEF CheckThread, RestartThread
<1>6. CASE InstallThread(w)
  <2>1. CASE Refused(w)
    BY <1>4, <2>1 DEF Refused, Change, Write, TypeOK, Snapshot
  <2>2. CASE ~Refused(w) /\ (Prepare(w) \/ Begin(w))
    <3>1. Change(snap) BY <2>2, Zenon DEF Prepare, Begin
    <3> QED BY <1>4, <3>1 DEF Change, Write
  <2>3. CASE NextSource(w) \/ Unfiled(w)
    BY <1>4, <2>3 DEF NextSource, Unfiled, Change, Write
  <2>4. CASE Stage(w)
    BY <1>4, <2>4, StagedAssumption DEF Stage, Change, Write, TypeOK, Snapshot
  <2>5. CASE Result(w)
    BY <1>4, <2>5 DEF Result, Change, Write, TypeOK, Snapshot
  <2>6. CASE Finish(w)
    BY <1>4, <2>6 DEF Finish, Change, Write, TypeOK, Snapshot
  <2>7. CASE Notice(w) \/ Recount(w)
    <3>1. Change(snap) \/ UNCHANGED <<status, snap>>
      BY <2>7 DEF Notice, Recount
    <3> QED BY <1>4, <3>1 DEF Change, Write, Carried
  <2> QED BY <1>3, <1>6, <2>1, <2>2, <2>3, <2>4, <2>5, <2>6, <2>7
          DEF InstallThread, Prepare, Begin
<1>7. CASE ToolThread(w)
  <2>1. CASE Checkpoint(w)
    BY <2>1 DEF Checkpoint, Write, Carried
  <2>2. CASE Child(w)
    BY <1>4, <2>2 DEF Child, Change, Write, TypeOK, Snapshot
  <2>3. CASE Reap(w) \/ Denied(w)
    BY <1>4, <2>3 DEF Reap, Denied, Change, Write, TypeOK, Snapshot
  <2> QED BY <1>3, <1>7, <2>1, <2>2, <2>3 DEF ToolThread
<1> QED BY <1>1, <1>2, <1>3, <1>5, <1>6, <1>7 DEF Runs

LEMMA CarriedByStep ==
  ASSUME TypeOK, Record, [Next]_vars
  PROVE  \/ Start
         \/ up /\ Carried
         \/ status' = status /\ (up /\ up' => Carried)
<1>1. CASE Crash \/ ReplacedExit \/ IdleExit \/ Reboot
  BY <1>1 DEF Crash, ReplacedExit, IdleExit, Reboot, Stopped, disk
<1>2. CASE CancelCheck \/ UNCHANGED vars
  BY <1>2 DEF CancelCheck, vars, Carried, disk, process
<1>3. CASE Machine
  <2>1. UNCHANGED <<status, snap>> \/ Reboot
    BY <1>3 DEF Machine, ToolExits, ChannelLost, Serve, Deny, WorkerEnds, TakePermit,
                DropPermit, disk, process
  <2> QED BY <1>1, <2>1 DEF Carried
<1>4. ASSUME NEW w \in Worker,
             Requests(w) \/ Runs(w) \/ LaunchFails(w) \/ OutputLost(w)
      PROVE  up /\ Carried
  BY <1>4, OnlyWhileUp, CarriedByThreads
<1> QED BY <1>1, <1>2, <1>3, <1>4 DEF Next, Lifecycle

\* A staged restart leaves the disk only after the machine has restarted.
THEOREM RestartKept == Spec => RestartRemembered
<1>1. TypeOK /\ Record /\ [Next]_vars
      => [status.restart # "None" /\ status'.restart = "None"
          => boot # status.boot]_vars
  <2> SUFFICES ASSUME TypeOK, Record, [Next]_vars, status.restart # "None",
                      status'.restart = "None", boot = status.boot
               PROVE  FALSE
    OBVIOUS
  <2>1. CASE Start
    <3>1. PICK s \in Loaded(status) : Change(Recovered(s))
      BY <2>1, Zenon DEF Start
    <3>2. status' \in {status, Recovered(s)}
      BY <3>1 DEF Change, Write
    <3> QED BY <3>2, RecoveredFacts
  <2>2. CASE Carried /\ up
    BY <2>2 DEF Carried, Record, RestartTold
  <2> QED BY <2>1, <2>2, CarriedByStep
<1> QED BY <1>1, Recorded, PTL DEF Spec, RestartRemembered

-----------------------------------------------------------------------------
(* What is told of a job, and what is kept of it *)

\* The boot a snapshot names has begun.
BootKnown == status.boot <= boot /\ snap.boot <= boot

\* What is on disk is what is told, or the check that was just concluded.
Saved ==
  up => /\ status.job = snap.job
        /\ \/ status.phase = snap.phase
           \/ /\ status.phase = "Checking"
              /\ snap.phase \in {"Reviewing", "Cancelled"}
              /\ \E w \in Worker : thr[w].pc = "publish"

\* A thread that will file the attempt whose log it writes.
Files(x) ==
  \/ x.pc \in {"launchInstall", "prepare", "begin", "sources", "stage", "result",
               "final", "release", "refused", "notice", "archive", "giveUp"}
  \/ x.pc \in Stepping /\ x.todo # {}
TranscriptHasThread == transcript # 0 => \E w \in Worker : Files(thr[w])

\* Without a failed write, a failed spawn or a lost channel.
Untroubled == BootKnown /\ (faults = 0 => Saved /\ TranscriptHasThread)

\* Only attempts of jobs up to the present one are filed.
HistoryPast ==
  /\ \A i \in DOMAIN history : history[i].job <= status.job
  /\ up => \A i \in DOMAIN history : history[i].job <= snap.job
Filing == HistoryWellFormed /\ HistoryPast

-----------------------------------------------------------------------------
(* Steps by their effect *)

\* What a request or a thread does stays within its own thread and its boot.
LEMMA ThreadFrame ==
  ASSUME TypeOK, NEW w \in Worker,
         Requests(w) \/ Runs(w) \/ LaunchFails(w) \/ OutputLost(w)
  PROVE  /\ up' = up /\ boot' = boot
         /\ \A v \in Worker : v # w => thr'[v] = thr[v]
<1> USE DEF ThreadOnly, past, Goto, End
<1>1. CASE Requests(w)
  BY <1>1 DEF Requests, Check, Install, Restart, TypeOK
<1>2. CASE OutputLost(w) \/ LaunchFails(w) \/ Launch(w)
  BY <1>2 DEF OutputLost, LaunchFails, Launch, TypeOK
<1>3. CASE CheckThread(w) \/ RestartThread(w)
  BY <1>3 DEF CheckThread, RestartThread, Query, StopQuery, Conclude, Publish,
              Reboots, RestartFails, TypeOK
<1>4. CASE InstallThread(w)
  BY <1>4 DEF InstallThread, Prepare, Begin, Refused, NextSource, Stage, Result, Close,
              Finish, Release, Notice, Archive, Unfiled, Recount, TypeOK
<1>5. CASE ToolThread(w)
  BY <1>5 DEF ToolThread, Checkpoint, Spawn, Ask, SpawnFails, Fails, Child, Denied,
              Reap, TypeOK
<1> QED BY <1>1, <1>2, <1>3, <1>4, <1>5 DEF Runs

\* A step is one of the main thread's or the machine's, or a thread's.
LEMMA StepOf ==
  ASSUME [Next]_vars
  PROVE  \/ Start \/ Crash \/ ReplacedExit \/ IdleExit \/ Reboot
         \/ \E w \in Worker : Requests(w) \/ Runs(w) \/ LaunchFails(w) \/ OutputLost(w)
         \/ UNCHANGED <<disk, up, snap, perr, activity, transcript, thr, boot, asked>>
<1>1. CASE Machine
  BY <1>1 DEF Machine, ToolExits, ChannelLost, Serve, Deny, WorkerEnds, TakePermit, DropPermit,
              process, past
<1>2. CASE CancelCheck \/ UNCHANGED vars
  BY <1>2 DEF CancelCheck, vars, process, past
<1> QED BY <1>1, <1>2 DEF Next, Lifecycle

LEMMA BootKnownStep ==
  ASSUME TypeOK, RootExclusion, Record, BootKnown, [Next]_vars
  PROVE  BootKnown'
<1>1. boot' \in {boot, boot + 1} /\ boot \in Nat /\ status.boot \in Nat
      /\ snap.boot \in Nat
  <2>1. boot' \in {boot, boot + 1}
    BY StepOf, ThreadFrame DEF Start, Crash, ReplacedExit, IdleExit, Reboot, past
  <2> QED BY <2>1 DEF TypeOK, Snapshot
<1>2. CASE Start
  <2>1. PICK s \in Loaded(status) : Change(Recovered(s))
    BY <1>2, Zenon DEF Start
  <2>2. s.boot = status.boot /\ s \in Snapshot
    BY DEF Loaded, TypeOK, Snapshot, Phase
  <2>3. Recovered(s).boot = status.boot
    BY <2>2 DEF Recovered, Snapshot
  <2> QED BY <1>1, <2>1, <2>3 DEF BootKnown, Change, Write
<1>3. CASE up /\ Carried
  BY <1>1, <1>3 DEF Carried, BootKnown
<1>4. CASE status' = status /\ (up /\ up' => Carried)
  <2>1. CASE up /\ up'
    BY <1>1, <1>4, <2>1 DEF Carried, BootKnown
  <2>2. CASE ~up' \/ ~up
    <3>1. CASE ~up'
      <4>1. snap'.boot = 0
        BY <3>1, RecordStep DEF Record, DownIsEmpty, Default
      <4> QED BY <1>1, <1>4, <4>1 DEF BootKnown
    <3>2. CASE ~up /\ up'
      <4>1. snap' = snap \/ Start
        BY <3>2, StepOf, OnlyWhileUp DEF Crash, ReplacedExit, IdleExit, Reboot, Stopped
      <4> QED BY <1>1, <1>2, <1>4, <4>1 DEF BootKnown
    <3> QED BY <2>2, <3>1, <3>2
  <2> QED BY <2>1, <2>2
<1> QED BY <1>2, <1>3, <1>4, CarriedByStep


-----------------------------------------------------------------------------
(* Without a failed write *)

\* A thread's step then leaves disk and memory alone, or makes them agree, or
\* concludes a check.
LEMMA SavedOrConcluded ==
  ASSUME TypeOK, NEW w \in Worker, faults = 0, faults' = 0,
         Requests(w) \/ Runs(w) \/ LaunchFails(w) \/ OutputLost(w)
  PROVE  \/ Conclude(w)
         \/ status' = snap'
         \/ status' = status /\ snap' = snap /\ thr[w].pc # "publish"
<1> USE DEF Change, Write, disk
<1>1. CASE Requests(w)
  <2>1. ASSUME NEW selected \in (SUBSET Source) \ {{}}, Check(w, selected)
        PROVE  status' = snap'
    BY <2>1 DEF Check
  <2>2. CASE Install(w)
    BY <2>2 DEF Install
  <2>3. CASE Restart(w)
    BY <2>3 DEF Restart
  <2> QED BY <1>1, <2>1, <2>2, <2>3 DEF Requests
<1>2. CASE OutputLost(w) \/ LaunchFails(w) \/ Launch(w)
  BY <1>2 DEF OutputLost, LaunchFails, Launch
<1>3. CASE CheckThread(w) \/ RestartThread(w)
  BY <1>3 DEF CheckThread, RestartThread, Query, StopQuery, Publish, Reboots,
              RestartFails
<1>4. CASE InstallThread(w)
  <2>1. CASE Prepare(w) \/ Begin(w) \/ NextSource(w)
    BY <2>1 DEF Prepare, Begin, Refused, NextSource
  <2>2. CASE Stage(w) \/ Result(w) \/ Finish(w) \/ Unfiled(w)
    <3>1. \E s : Change(s)
      BY <2>2, Zenon DEF Stage, Result, Finish, Unfiled
    <3> QED BY <3>1
  <2>3. CASE Close(w) \/ Release(w) \/ Notice(w) \/ Archive(w) \/ Recount(w)
    BY <2>3 DEF Close, Release, Notice, Archive, Recount
  <2> QED BY <1>4, <2>1, <2>2, <2>3 DEF InstallThread
<1>5. CASE ToolThread(w)
  BY <1>5 DEF ToolThread, Checkpoint, Spawn, Ask, SpawnFails, Child, Denied, Reap
<1> QED BY <1>1, <1>2, <1>3, <1>4, <1>5 DEF Runs

\* What has failed is not forgotten.
LEMMA FaultsCounted ==
  ASSUME TypeOK, [Next]_vars, faults' = 0
  PROVE  faults = 0
<1>0. faults \in Nat /\ faults + 1 # 0
  BY DEF TypeOK
<1> USE DEF Change, Write
<1>1. CASE Start \/ Crash \/ ReplacedExit \/ IdleExit \/ Reboot
  <2>1. CASE Start
    <3>1. PICK s \in Loaded(status) : Change(Recovered(s))
      BY <2>1, Zenon DEF Start
    <3> QED BY <1>0, <3>1
  <2>2. CASE Crash \/ ReplacedExit \/ IdleExit \/ Reboot
    BY <2>2 DEF Crash, ReplacedExit, IdleExit, Reboot
  <2> QED BY <1>1, <2>1, <2>2
<1>2. CASE Machine \/ CancelCheck \/ UNCHANGED vars
  BY <1>0, <1>2 DEF Machine, ToolExits, ChannelLost, Serve, Deny, WorkerEnds, TakePermit,
                    DropPermit, Reboot, CancelCheck, vars
<1>3. ASSUME NEW w \in Worker, Requests(w) PROVE faults = 0
  <2>1. ASSUME NEW selected \in (SUBSET Source) \ {{}}, Check(w, selected)
        PROVE  faults = 0
    BY <1>0, <2>1 DEF Check, Write
  <2>2. CASE Install(w)
    BY <1>0, <2>2 DEF Install, Write
  <2>3. CASE Restart(w)
    BY <1>0, <2>3 DEF Restart, Write
  <2> QED BY <1>3, <2>1, <2>2, <2>3 DEF Requests
<1>4. ASSUME NEW w \in Worker, OutputLost(w) \/ LaunchFails(w) PROVE faults = 0
  BY <1>0, <1>4 DEF OutputLost, LaunchFails
<1>5. ASSUME NEW w \in Worker, Runs(w) PROVE faults = 0
  <2>1. CASE Launch(w) \/ Conclude(w) \/ Close(w) \/ Release(w) \/ Spawn(w)
             \/ Ask(w) \/ SpawnFails(w) \/ Reboots(w)
    BY <1>0, <2>1 DEF Launch, Conclude, Close, Release, Spawn, Ask, SpawnFails, Reboots
  <2>2. CASE Archive(w) \/ Checkpoint(w)
    BY <1>0, <2>2 DEF Archive, Checkpoint, Write
  <2>3. CASE Query(w) \/ StopQuery(w) \/ Publish(w) \/ RestartFails(w) \/ Child(w)
             \/ Denied(w) \/ Reap(w)
    <3>1. CASE Query(w) \/ StopQuery(w) \/ Publish(w)
      BY <1>0, <3>1 DEF Query, StopQuery, Publish
    <3>2. CASE RestartFails(w) \/ Child(w) \/ Denied(w) \/ Reap(w)
      BY <1>0, <3>2 DEF RestartFails, Child, Denied, Reap
    <3> QED BY <2>3, <3>1, <3>2
  <2>4. CASE Prepare(w) \/ Begin(w) \/ NextSource(w) \/ Stage(w) \/ Result(w)
             \/ Finish(w) \/ Unfiled(w)
    <3>1. CASE Prepare(w) \/ Begin(w) \/ NextSource(w)
      BY <1>0, <3>1 DEF Prepare, Begin, Refused, NextSource
    <3>2. CASE Stage(w) \/ Result(w) \/ Finish(w) \/ Unfiled(w)
      BY <1>0, <3>2 DEF Stage, Result, Finish, Unfiled
    <3> QED BY <2>4, <3>1, <3>2
  <2>5. CASE Notice(w) \/ Recount(w)
    <3>1. Change(snap) \/ faults' = faults
      BY <2>5 DEF Notice, Recount
    <3> QED BY <1>0, <3>1
  <2> QED BY <1>5, <2>1, <2>2, <2>3, <2>4, <2>5
          DEF Runs, CheckThread, InstallThread, ToolThread, RestartThread
<1> QED BY <1>1, <1>2, <1>3, <1>4, <1>5 DEF Next, Lifecycle

LEMMA SavedStep ==
  ASSUME TypeOK, RootExclusion, Record, Saved, faults = 0, faults' = 0, [Next]_vars
  PROVE  Saved'
<1>1. CASE Start
  <2>1. PICK s \in Loaded(status) : Change(Recovered(s))
    BY <1>1, Zenon DEF Start
  <2>2. /\ /\ snap' = Recovered(s)
           /\ status' = Recovered(s)
    BY <2>1 DEF Change, Write
  <2> QED BY <2>2 DEF Saved
<1>2. CASE Crash \/ ReplacedExit \/ IdleExit \/ Reboot
  BY <1>2 DEF Crash, ReplacedExit, IdleExit, Reboot, Stopped, Saved
<1>3. ASSUME NEW w \in Worker,
             Requests(w) \/ Runs(w) \/ LaunchFails(w) \/ OutputLost(w)
      PROVE  Saved'
  <2>0. up /\ \A v \in Worker : v # w => thr'[v] = thr[v]
    BY <1>3, OnlyWhileUp, ThreadFrame
  <2>1. CASE Conclude(w)
    <3>1. /\ thr[w].pc = "query" /\ thr'[w].pc = "publish"
          /\ snap' = [snap EXCEPT !.phase = Verdict] /\ status' = status
      BY <2>1 DEF Conclude, Goto, ThreadOnly, TypeOK, Thread
    <3>2. snap.phase = "Checking"
      BY <3>1 DEF Record, PartTold, Part, Owns, Own
    <3>3. /\ snap'.job = snap.job /\ snap'.phase \in {"Reviewing", "Cancelled"}
          /\ status'.phase = "Checking" /\ status'.job = snap.job
      BY <2>0, <3>1, <3>2 DEF Verdict, TypeOK, Snapshot, Record, CheckOnDisk
    <3> QED BY <3>1, <3>3 DEF Saved
  <2>2. CASE status' = snap'
    BY <2>2 DEF Saved
  <2>3. CASE status' = status /\ snap' = snap /\ thr[w].pc # "publish"
    BY <2>0, <2>3 DEF Saved
  <2> QED BY <1>3, <2>1, <2>2, <2>3, SavedOrConcluded
<1>4. CASE UNCHANGED <<disk, up, snap, perr, activity, transcript, thr, boot, asked>>
  BY <1>4 DEF Saved, disk
<1> QED BY <1>1, <1>2, <1>3, <1>4, StepOf

\* A thread that files its attempt goes on to do so, or has done it.
LEMMA FilesOn ==
  ASSUME TypeOK, NEW w \in Worker, faults = 0, faults' = 0,
         Requests(w) \/ Runs(w) \/ LaunchFails(w) \/ OutputLost(w)
  PROVE  \/ transcript' = 0
         \/ Files(thr'[w])
         \/ transcript' = transcript /\ ~Files(thr[w])
<1> USE DEF Write, Goto, End, Free, Files, Stepping
<1>1. CASE Requests(w)
  <2>1. ASSUME NEW selected \in (SUBSET Source) \ {{}}, Check(w, selected)
        PROVE  transcript' = transcript /\ ~Files(thr[w])
    BY <2>1 DEF Check
  <2>2. CASE Install(w)
    BY <2>2 DEF Install, TypeOK
  <2>3. CASE Restart(w)
    BY <2>3 DEF Restart
  <2> QED BY <1>1, <2>1, <2>2, <2>3 DEF Requests
<1>2. CASE OutputLost(w) \/ LaunchFails(w)
  BY <1>2 DEF OutputLost, LaunchFails
<1>3. CASE CheckThread(w) \/ RestartThread(w)
  BY <1>3 DEF CheckThread, RestartThread, Query, StopQuery, Conclude, Publish, Reboots,
              RestartFails
<1>4. CASE Launch(w) \/ Prepare(w) \/ Begin(w) \/ NextSource(w)
  BY <1>4 DEF Launch, Prepare, Begin, Refused, NextSource, TypeOK, Thread
<1>5. CASE Stage(w) \/ Result(w) \/ Close(w) \/ Finish(w) \/ Release(w) \/ Notice(w)
  <2>1. CASE Stage(w) \/ Result(w)
    BY <2>1 DEF Stage, Result, TypeOK, Thread
  <2>2. CASE Close(w) \/ Finish(w) \/ Release(w) \/ Notice(w)
    BY <2>2 DEF Close, Finish, Release, Notice, TypeOK, Thread
  <2> QED BY <1>5, <2>1, <2>2
<1>6. CASE Archive(w) \/ Unfiled(w) \/ Recount(w)
  BY <1>6 DEF Archive, Unfiled, Recount
<1>7. CASE ToolThread(w)
  BY <1>7 DEF ToolThread, Checkpoint, Spawn, Ask, SpawnFails, Child, Denied, Reap, Fails, Offline,
              TypeOK, Thread
<1> QED BY <1>1, <1>2, <1>3, <1>4, <1>5, <1>6, <1>7 DEF Runs, InstallThread

LEMMA TranscriptStep ==
  ASSUME TypeOK, Record, TranscriptHasThread, faults = 0, faults' = 0, [Next]_vars
  PROVE  TranscriptHasThread'
<1>1. CASE Start
  <2>1. transcript = 0
    BY <1>1 DEF Start, Record, DownIsEmpty, TranscriptHasThread, Files, Stepping
  <2> QED BY <1>1, <2>1 DEF Start, TranscriptHasThread
<1>2. CASE Crash \/ ReplacedExit \/ IdleExit \/ Reboot
  BY <1>2 DEF Crash, ReplacedExit, IdleExit, Reboot, Stopped, TranscriptHasThread
<1>3. ASSUME NEW w \in Worker,
             Requests(w) \/ Runs(w) \/ LaunchFails(w) \/ OutputLost(w)
      PROVE  TranscriptHasThread'
  BY <1>3, ThreadFrame, FilesOn DEF TranscriptHasThread
<1>4. CASE UNCHANGED <<disk, up, snap, perr, activity, transcript, thr, boot, asked>>
  BY <1>4 DEF TranscriptHasThread
<1> QED BY <1>1, <1>2, <1>3, <1>4, StepOf


LEMMA UntroubledStep ==
  ASSUME TypeOK, RootExclusion, Record, Untroubled, [Next]_vars
  PROVE  Untroubled'
BY BootKnownStep, FaultsCounted, SavedStep, TranscriptStep DEF Untroubled

\* The invariants hold together of every behaviour.
LEMMA KeptUntroubled == Spec => [](TypeOK /\ RootExclusion /\ Record /\ Untroubled)
<1>1. Init => Untroubled
  BY DEF Init, Untroubled, BootKnown, Saved, TranscriptHasThread, Default
<1>2. TypeOK /\ RootExclusion /\ Record /\ Untroubled /\ [Next]_vars => Untroubled'
  BY UntroubledStep
<1> QED BY <1>1, <1>2, Recorded, PTL DEF Spec

\* A coordinator that steps aside for a newer program leaves a journal without
\* a job under way, and no attempt that is still to be filed.
THEOREM LeavesClean == Spec => StepsAsideClean
<1>1. TypeOK /\ RootExclusion /\ Record /\ Untroubled /\ [Next]_vars
      => [up /\ ~up' /\ gone' = "replaced" /\ faults = 0
          => ~Busy(status') /\ transcript = 0]_vars
  <2> SUFFICES ASSUME TypeOK, Record, Untroubled, [Next]_vars, up, ~up',
                      gone' = "replaced", faults = 0
               PROVE  ~Busy(status') /\ transcript = 0
    OBVIOUS
  <2>1. ReplacedExit
    BY StepOf, ThreadFrame DEF Start, Crash, IdleExit, Reboot, Stopped
  <2>2. status' = status /\ ~Busy(snap) /\ \A w \in Worker : thr[w].pc = "none"
    BY <2>1 DEF ReplacedExit, BetweenJobs, disk
  <2>3. Saved /\ TranscriptHasThread
    BY DEF Untroubled
  <2>4. ~Busy(status')
    BY <2>2, <2>3 DEF Saved, Busy
  <2>5. transcript = 0
    BY <2>2, <2>3 DEF TranscriptHasThread, Files, Stepping
  <2> QED BY <2>4, <2>5
<1> QED BY <1>1, KeptUntroubled, PTL DEF Spec, StepsAsideClean


-----------------------------------------------------------------------------
(* The life of a job, as it is told *)

\* A coordinator that runs tells of its snapshot,
LEMMA ToldUp ==
  ASSUME up, up'
  PROVE  Told = snap /\ Told' = snap'
BY DEF Told

\* and nothing is told by a step that leaves job, phase and tools alone.
LEMMA ToldStutters ==
  ASSUME Told'.job = Told.job, Told'.phase = Told.phase, UNCHANGED Job!tool
  PROVE  UNCHANGED Job!told
BY DEF Job!told, Job!tool

\* The tools of sources are as they were.
LEMMA ToolsStay ==
  ASSUME UNCHANGED <<asked, sent, started>>
  PROVE  UNCHANGED Job!tool
BY DEF Job!tool

\* What the next coordinator will tell: the job on disk, cut short if it was
\* under way, unless the machine restarted with an update staged.
LEMMA RecoveredTold ==
  ASSUME TypeOK
  PROVE  /\ Recovered(status).job = status.job
         /\ IF status.boot # 0 /\ status.boot # boot /\ status.restart # "None"
            THEN Recovered(status).phase = "AwaitingVerification"
            ELSE Recovered(status).phase = IF Busy(status) THEN "Interrupted"
                                           ELSE status.phase
BY DEF Recovered, TypeOK, Snapshot

\* The same seen after a step.
LEMMA RecoveredToldNext ==
  ASSUME TypeOK'
  PROVE  /\ Recovered(status)'.job = status'.job
         /\ IF status'.boot # 0 /\ status'.boot # boot' /\ status'.restart # "None"
            THEN Recovered(status)'.phase = "AwaitingVerification"
            ELSE Recovered(status)'.phase = IF Busy(status)' THEN "Interrupted"
                                            ELSE status'.phase
BY DEF Recovered, Busy, TypeOK, Snapshot

\* A thread's step is one of the job's, or one that is not told.
LEMMA ToldByThread ==
  ASSUME TypeOK, RootExclusion, Record, up, NEW w \in Worker,
         Requests(w) \/ Runs(w) \/ LaunchFails(w) \/ OutputLost(w),
         ~Spawn(w), ~Ask(w)
  PROVE  [Job!Next]_(Job!told)
<1>0. Told = snap /\ Told' = snap'
  BY ThreadFrame, ToldUp
<1>2. UNCHANGED Job!tool
  BY ThreadsAskOnly, ToolsStay
<1>1. ASSUME snap'.job = snap.job, snap'.phase = snap.phase
      PROVE  UNCHANGED Job!told
  BY <1>0, <1>1, <1>2, ToldStutters
<1> USE DEF Change, Write, ThreadOnly, past, disk
<1>3. CASE Requests(w)
  <2>1. ASSUME NEW selected \in (SUBSET Source) \ {{}}, Check(w, selected)
        PROVE  [Job!Next]_(Job!told)
    <3>0. CASE snap' = snap
      BY <1>1, <3>0
    <3>1. \/ snap' = snap
          \/ snap' = Fresh(selected) /\ ~Busy(snap)
      BY <2>1 DEF Check
    <3> SUFFICES ASSUME snap' = Fresh(selected), ~Busy(snap)
                 PROVE  [Job!Next]_(Job!told)
      BY <3>0, <3>1
    <3>2. snap'.job = snap.job + 1 /\ snap'.phase = "Checking" /\ snap.job \in Nat
      BY DEF Fresh, Default, TypeOK, Snapshot, JobId
    <3>3. Job!Check
      BY <1>0, <1>2, <3>2 DEF Job!Check, Job!UnderWay, Busy
    <3> QED BY <3>3 DEF Job!Next
  <2>2. CASE Install(w)
    <3>0. CASE snap' = snap
      BY <1>1, <3>0
    <3>1. \/ snap' = snap
          \/ /\ snap' = [snap EXCEPT !.phase = "Running"] /\ snap.phase = "Reviewing"
            
      BY <2>2 DEF Install
    <3> SUFFICES ASSUME snap' = [snap EXCEPT !.phase = "Running"],
                        snap.phase = "Reviewing"
                 PROVE  [Job!Next]_(Job!told)
      BY <3>0, <3>1
    <3>2. snap'.job = snap.job /\ snap'.phase = "Running"
      BY DEF TypeOK, Snapshot
    <3>3. Job!Install
      BY <1>0, <1>2, <3>2 DEF Job!Install
    <3> QED BY <3>3 DEF Job!Next
  <2>3. CASE Restart(w)
    <3>0. CASE snap' = snap
      BY <1>1, <3>0
    <3>1. \/ snap' = snap
          \/ /\ snap' = [snap EXCEPT !.phase = "Restarting"] /\ ~Busy(snap)
            
      BY <2>3 DEF Restart
    <3> SUFFICES ASSUME snap' = [snap EXCEPT !.phase = "Restarting"], ~Busy(snap)
                 PROVE  [Job!Next]_(Job!told)
      BY <3>0, <3>1
    <3>2. snap'.job = snap.job /\ snap'.phase = "Restarting"
      BY DEF TypeOK, Snapshot
    <3>3. Job!Restart
      BY <1>0, <1>2, <3>2 DEF Job!Restart, Job!UnderWay, Busy
    <3> QED BY <3>3 DEF Job!Next
  <2> QED BY <1>3, <2>1, <2>2, <2>3 DEF Requests
<1>4. CASE OutputLost(w) \/ LaunchFails(w) \/ Launch(w)
  <2>1. CASE OutputLost(w) \/ Launch(w)
    BY <1>1, <2>1 DEF OutputLost, Launch
  <2>2. CASE LaunchFails(w)
    <3>1. /\ thr[w].pc \in {"launchCheck", "launchInstall"}
          /\ snap' = [snap EXCEPT !.phase = "Failed"]
      BY <2>2 DEF LaunchFails
    <3>2. snap.phase \in {"Checking", "Running"}
      BY <3>1 DEF Record, PartTold, Part, Owns, Own, Stepping
    <3>3. snap'.job = snap.job /\ snap'.phase = "Failed"
      BY <3>1 DEF TypeOK, Snapshot
    <3>4. Job!CheckEnds \/ Job!InstallEnds
      BY <1>0, <1>2, <3>1, <3>2, <3>3
         DEF Job!CheckEnds, Job!InstallEnds, Job!Ended
    <3> QED BY <3>4 DEF Job!Next
  <2> QED BY <1>4, <2>1, <2>2
<1>5. CASE CheckThread(w)
  <2>1. CASE Query(w) \/ Publish(w)
    BY <1>1, <2>1 DEF Query, Publish
  <2>2. CASE StopQuery(w) \/ Conclude(w)
    <3>1. /\ thr[w].pc = "query"
          /\ \E p \in {"Cancelled", "Reviewing"} : snap' = [snap EXCEPT !.phase = p]
      BY <2>2 DEF StopQuery, Conclude, Verdict
    <3>2. snap.phase = "Checking"
      BY <3>1 DEF Record, PartTold, Part, Owns, Own
    <3>3. snap'.job = snap.job /\ snap'.phase \in {"Cancelled", "Reviewing"}
      BY <3>1 DEF TypeOK, Snapshot
    <3>4. Job!CheckEnds
      BY <1>0, <1>2, <3>1, <3>2, <3>3 DEF Job!CheckEnds
    <3> QED BY <3>4 DEF Job!Next
  <2> QED BY <1>5, <2>1, <2>2 DEF CheckThread
<1>6. CASE InstallThread(w)
  <2>1. ASSUME thr[w].pc \in {"prepare", "begin", "final"},
               NEW p \in {"Completed", "Partial", "Failed"},
               snap'.job = snap.job, snap'.phase = p
        PROVE  [Job!Next]_(Job!told)
    <3>1. snap.phase = "Running"
      BY <2>1 DEF Record, PartTold, Part, Owns, Own, Stepping
    <3>2. Job!InstallEnds
      BY <1>0, <1>2, <2>1, <3>1 DEF Job!InstallEnds, Job!Ended
    <3> QED BY <3>2 DEF Job!Next
  <2>2. CASE Prepare(w) \/ Begin(w)
    <3>1. /\ thr[w].pc \in {"prepare", "begin"}
          /\ snap' = snap \/ snap' = [snap EXCEPT !.phase = "Failed"]
      BY <2>2 DEF Prepare, Begin, Refused
    <3>2. CASE snap' = [snap EXCEPT !.phase = "Failed"]
      <4>1. snap'.job = snap.job /\ snap'.phase = "Failed"
        BY <3>2 DEF TypeOK, Snapshot
      <4> QED BY <2>1, <3>1, <4>1
    <3> QED BY <1>1, <3>1, <3>2
  <2>3. CASE Finish(w)
    <3>1. /\ thr[w].pc = "final"
          /\ snap' = [snap EXCEPT !.phase = Outcome(snap.results), !.child = NoTool]
      BY <2>3 DEF Finish
    <3>2. Outcome(snap.results) \in {"Completed", "Partial", "Failed"}
      BY DEF Outcome
    <3>3. snap'.job = snap.job /\ snap'.phase = Outcome(snap.results)
      BY <3>1 DEF TypeOK, Snapshot
    <3> QED BY <2>1, <3>1, <3>2, <3>3
  <2>4. CASE Stage(w) \/ Result(w)
    <3>1. snap'.job = snap.job /\ snap'.phase = snap.phase
      BY <2>4 DEF Stage, Result, TypeOK, Snapshot
    <3> QED BY <1>1, <3>1
  <2>5. CASE NextSource(w) \/ Notice(w) \/ Archive(w) \/ Unfiled(w) \/ Recount(w)
    BY <1>1, <2>5 DEF NextSource, Notice, Archive, Unfiled, Recount
  <2>6. CASE Close(w) \/ Release(w)
    BY <1>1, <2>6 DEF Close, Release
  <2> QED BY <1>6, <2>2, <2>3, <2>4, <2>5, <2>6 DEF InstallThread
<1>7. CASE ToolThread(w)
  <2>1. CASE Checkpoint(w) \/ SpawnFails(w)
    BY <1>1, <2>1 DEF Checkpoint, SpawnFails
  <2>2. CASE Child(w) \/ Denied(w) \/ Reap(w)
    <3>1. snap'.job = snap.job /\ snap'.phase = snap.phase
      BY <2>2 DEF Child, Denied, Reap, TypeOK, Snapshot
    <3> QED BY <1>1, <3>1
  <2> QED BY <1>7, <2>1, <2>2 DEF ToolThread
<1>8. CASE RestartThread(w)
  <2>1. CASE Reboots(w)
    BY <1>1, <2>1 DEF Reboots
  <2>2. CASE RestartFails(w)
    <3>1. /\ thr[w].pc \in {"reboot", "restartFailed"}
          /\ snap' = [snap EXCEPT !.phase = "Partial"]
      BY <2>2 DEF RestartFails
    <3>2. snap.phase = "Restarting"
      BY <3>1 DEF Record, PartTold, Part, Owns, Own
    <3>3. snap'.job = snap.job /\ snap'.phase = "Partial"
      BY <3>1 DEF TypeOK, Snapshot
    <3>4. Job!RestartFails
      BY <1>0, <1>2, <3>1, <3>2, <3>3 DEF Job!RestartFails
    <3> QED BY <3>4 DEF Job!Next
  <2> QED BY <1>8, <2>1, <2>2 DEF RestartThread
<1> QED BY <1>3, <1>4, <1>5, <1>6, <1>7, <1>8 DEF Runs

\* Only the running job's thread starts a tool or asks for one, and it asks the
\* root worker when that has nothing in hand.
LEMMA ToldByAsking ==
  ASSUME TypeOK, RootExclusion, Record, NEW w \in Worker, Spawn(w) \/ Ask(w)
  PROVE  [Job!Next]_(Job!told)
<1> DEFINE t == ToolOf(w)
<1>1. thr[w].pc = "spawn" /\ snap' = snap /\ up' = up /\ Owns(w)
  BY DEF Spawn, Ask, Owns, Own
<1>2. up
  BY <1>1, OwnerBusy
<1>3. Told = snap /\ Told' = snap'
  BY <1>1, <1>2, ToldUp
<1>4. t.source # 0 => t \notin asked /\ t \notin started
  BY FreshTool DEF TypeOK
<1>5. t.source # 0 => t.job = snap.job /\ snap.phase = "Running"
  <2> SUFFICES ASSUME t.source # 0
               PROVE  t.job = snap.job /\ snap.phase = "Running"
    OBVIOUS
  <2>1. t.job = snap.job /\ thr[w].todo # {}
    BY <1>1, OwnerBusy DEF ToolOf, Current, Offline
  <2> QED BY <1>1, <2>1 DEF Record, PartTold, Part, Stepping
<1>6. CASE Spawn(w)
  <2>1. /\ asked' = asked \union {t} /\ started' = started \union {t}
        /\ sent' = sent
    BY <1>6 DEF Spawn, root
  <2> HIDE DEF t
  <2>2. CASE t.source = 0
    <3>1. UNCHANGED Job!tool
      BY <2>1, <2>2 DEF Job!tool
    <3> QED BY <1>1, <1>3, <3>1, ToldStutters
  <2>3. CASE t.source # 0
    <3>1. Job!AskTool
      BY <1>1, <1>3, <1>4, <1>5, <2>1, <2>3 DEF Job!AskTool
    <3> QED BY <3>1 DEF Job!Next
  <2> QED BY <2>2, <2>3
<1>7. CASE Ask(w)
  <2>1. /\ asked' = asked \union {t} /\ started' = started /\ sent' = t
        /\ t.source \in Privileged
    BY <1>7 DEF Ask, ToolOf
  <2>2. sent = NoTool
    <3>1. linked /\ grant = thr[w].job
      BY <1>7 DEF Ask, Broken
    <3>2. RootWork = {}
      BY <1>1, <3>1, NoneAwaited
    <3> QED BY <3>2 DEF RootWork
  <2>3. t.source # 0 /\ t # NoTool
    BY <2>1, SourceAssumption DEF NoTool
  <2> HIDE DEF t
  <2>4. Job!AskTool
    BY <1>1, <1>3, <1>4, <1>5, <2>1, <2>2, <2>3 DEF Job!AskTool
  <2> QED BY <2>4 DEF Job!Next
<1> QED BY <1>6, <1>7

\* What the root worker was asked for it starts, or does not, while the
\* coordinator does nothing.
LEMMA ToldByWorker ==
  ASSUME TypeOK, RootExclusion, Told'.job = Told.job, Told'.phase = Told.phase,
         Serve \/ (sent' \in {sent, NoTool} /\ UNCHANGED <<asked, started>>)
  PROVE  [Job!Next]_(Job!told)
<1>1. sent # NoTool => sent.source # 0
  BY SourceAssumption DEF RootExclusion, SentIsPrivileged
<1>2. CASE Serve
  <2>1. /\ sent # NoTool /\ sent' = NoTool /\ asked' = asked
        /\ started' = started \union {sent}
    BY <1>2 DEF Serve
  <2>2. Job!StartDue
    BY <1>1, <2>1 DEF Job!StartDue
  <2> QED BY <2>2 DEF Job!Next
<1>3. CASE sent' = sent /\ UNCHANGED <<asked, started>>
  BY <1>3, ToolsStay, ToldStutters
<1>4. CASE sent' = NoTool /\ UNCHANGED <<asked, started>>
  <2>1. Job!DropDue
    BY <1>4 DEF Job!DropDue
  <2> QED BY <2>1 DEF Job!Next
<1> QED BY <1>2, <1>3, <1>4

\* A coordinator that starts tells what the disk told, but for a review that an
\* older program made.
LEMMA ToldByStart ==
  ASSUME TypeOK, Start
  PROVE  [Job!Next]_(Job!told)
<1>1. PICK s \in Loaded(status) : Change(Recovered(s))
  BY Zenon DEF Start
<1>2. ~up /\ up' /\ boot' = boot /\ UNCHANGED Job!tool
  BY ToolsStay DEF Start, past, root
<1>3. Told = Recovered(status) /\ Told' = Recovered(s)
  BY <1>1, <1>2 DEF Told, Change
<1>4. CASE s = status
  BY <1>2, <1>3, <1>4, ToldStutters
<1>5. CASE s = [status EXCEPT !.phase = "Idle"] /\ status.phase = "Reviewing"
  <2>1. /\ s.job = status.job /\ s.phase = "Idle" /\ s.boot = status.boot
        /\ s.restart = status.restart /\ s \in Snapshot
    BY <1>5 DEF TypeOK, Snapshot, Phase
  <2>2. /\ Recovered(s).job = status.job
        /\ IF status.boot # 0 /\ status.boot # boot /\ status.restart # "None"
           THEN Recovered(s).phase = "AwaitingVerification"
           ELSE Recovered(s).phase = "Idle"
    BY <2>1 DEF Recovered, Busy, Snapshot
  <2>3. CASE status.boot # 0 /\ status.boot # boot /\ status.restart # "None"
    BY <1>2, <1>3, <2>2, <2>3, RecoveredTold, ToldStutters
  <2>4. CASE ~(status.boot # 0 /\ status.boot # boot /\ status.restart # "None")
    <3>1. Told.phase = "Reviewing" /\ Told'.phase = "Idle" /\ Told'.job = Told.job
      BY <1>3, <1>5, <2>2, <2>4, RecoveredTold DEF Busy
    <3>2. Job!DropReview
      BY <1>2, <3>1 DEF Job!DropReview
    <3> QED BY <3>2 DEF Job!Next
  <2> QED BY <2>3, <2>4
<1> QED BY <1>4, <1>5 DEF Loaded

\* The end of a coordinator cuts short what was under way, and a restart of the
\* machine is told of what it activated.
LEMMA ToldByEnd ==
  ASSUME TypeOK, TypeOK', RootExclusion, BootKnown, up => Saved, up' = FALSE,
         status' = status,
         UNCHANGED <<asked, started>>, sent' \in {sent, NoTool}, boot' \in {boot, boot + 1},
         up \/ boot' = boot + 1
  PROVE  [Job!Next]_(Job!told)
<1>1. Told' = Recovered(status)' /\ (~up => Told = Recovered(status))
  BY DEF Told
<1>3. Told'.job = Told.job
  BY <1>1, RecoveredTold, RecoveredToldNext DEF Told, Saved
<1>4. CASE Told'.phase = "AwaitingVerification"
  <2>1. Job!MachineRestarted
    BY <1>3, <1>4 DEF Job!MachineRestarted
  <2> QED BY <2>1 DEF Job!Next
<1>5. CASE Told'.phase # "AwaitingVerification"
  <2>1. Told'.phase = IF Busy(status) THEN "Interrupted" ELSE status.phase
    BY <1>1, <1>5, RecoveredToldNext DEF Busy
  <2>2. CASE up /\ Busy(status)
    <3>1. Told.phase \in {"Checking", "Running", "Restarting", "Reviewing", "Cancelled"}
      BY <2>2 DEF Told, Saved, Busy
    <3>2. Job!Interrupt
      BY <1>3, <2>1, <2>2, <3>1 DEF Job!Interrupt, Job!UnderWay
    <3> QED BY <3>2 DEF Job!Next
  <2>3. CASE up /\ ~Busy(status)
    <3>1. Told.phase = status.phase
      BY <2>3 DEF Told, Saved, Busy
    <3> QED BY <1>3, <2>1, <2>3, <3>1, ToldByWorker
  <2>4. CASE ~up
    <3>1. ~(status.boot # 0 /\ status.boot # boot + 1 /\ status.restart # "None")
      BY <1>1, <1>5, <2>4, RecoveredToldNext
    <3>2. status.boot # boot + 1
      BY DEF BootKnown, TypeOK, Snapshot
    <3>3. Told.phase = IF Busy(status) THEN "Interrupted" ELSE status.phase
      BY <1>1, <2>4, <3>1, <3>2, RecoveredTold
    <3> QED BY <1>3, <2>1, <3>3, ToldByWorker
  <2> QED BY <2>2, <2>3, <2>4
<1> QED BY <1>4, <1>5

LEMMA ToldStep ==
  ASSUME TypeOK, TypeOK', RootExclusion, Record, BootKnown, [Next]_vars,
         up /\ ~up' => Saved
  PROVE  [Job!Next]_(Job!told)
<1>2. CASE Start
  BY <1>2, ToldByStart
<1>3. CASE Crash \/ ReplacedExit \/ IdleExit
  <2>1. /\ up /\ up' = FALSE /\ status' = status /\ boot' = boot
        /\ UNCHANGED <<asked, started, sent>>
    BY <1>3 DEF Crash, ReplacedExit, IdleExit, Serving, Stopped, disk
  <2> QED BY <2>1, ToldByEnd
<1>4. CASE Reboot
  <2>1. /\ up' = FALSE /\ status' = status /\ boot' = boot + 1
        /\ UNCHANGED <<asked, started>> /\ sent' = NoTool
    BY <1>4 DEF Reboot, Stopped, disk
  <2> QED BY <2>1, ToldByEnd
<1>5. ASSUME NEW w \in Worker,
             Requests(w) \/ Runs(w) \/ LaunchFails(w) \/ OutputLost(w)
      PROVE  [Job!Next]_(Job!told)
  BY <1>5, OnlyWhileUp, ToldByThread, ToldByAsking
<1>6. CASE UNCHANGED <<disk, up, snap, perr, activity, transcript, thr, boot, asked>>
  <2>1. Told' = Told
    BY <1>6 DEF Told, Recovered, Busy, disk
  <2> QED BY <2>1, ToolsMove, ToldByAsking, ToldByWorker
<1> QED BY <1>2, <1>3, <1>4, <1>5, <1>6, StepOf

\* If the disk told the truth whenever a coordinator ended, every behaviour,
\* whatever else was not saved, whoever kills and starts the coordinator and
\* whenever the machine restarts, is told to the desktop as the life of a job.
SavedAtEnd == [][up /\ ~up' => Saved]_vars

THEOREM RefinementIfSaved == Spec /\ SavedAtEnd => ImplementsJob
<1>1. Init => Job!Init
  BY DEF Init, Job!Init, Told, Recovered, Busy, Default
<1>2. /\ TypeOK /\ RootExclusion /\ Record /\ Untroubled /\ TypeOK'
      /\ [Next]_vars /\ [up /\ ~up' => Saved]_vars
      => [Job!Next]_(Job!told)
  <2>1. UNCHANGED vars => ~(up /\ ~up')
    BY DEF vars, process
  <2> QED BY <2>1, ToldStep DEF Untroubled
<1> QED
  BY <1>1, <1>2, KeptUntroubled, PTL DEF Spec, SavedAtEnd, ImplementsJob, Job!Spec

\* So it is as long as no write or spawn fails and no channel is lost.
THEOREM Refinement == Spec /\ [](faults = 0) => ImplementsJob
<1>1. TypeOK /\ RootExclusion /\ Record /\ Untroubled /\ faults = 0
      => [up /\ ~up' => Saved]_vars
  BY DEF Untroubled
<1> QED BY <1>1, KeptUntroubled, RefinementIfSaved, PTL DEF SavedAtEnd

-----------------------------------------------------------------------------
(* The history *)

\* What archive() leaves of a history in job order that does not go beyond its
\* job is a beginning of it: all but an older entry of the same job, its last.
LEMMA OthersAreFirst ==
  ASSUME HistoryWellFormed, NEW j \in Nat, \A i \in DOMAIN history : history[i].job <= j
  PROVE  \E m \in 0 .. Len(history) :
           /\ OtherJobs(j) = [n \in 1 .. m |-> history[n]]
           /\ \A n \in 1 .. m : history[n].job < j
<1> DEFINE S == {i \in DOMAIN history : history[i].job # j}
<1>1. /\ Len(history) \in Nat /\ DOMAIN history = 1 .. Len(history)
      /\ \A i \in DOMAIN history : history[i].job \in Nat
      /\ \A i, k \in DOMAIN history : i < k => history[i].job < history[k].job
  <2>1. /\ history \in Seq([job : JobId, phase : Phase])
        /\ \A i, k \in DOMAIN history : i < k => history[i].job < history[k].job
    BY DEF HistoryWellFormed
  <2>2. \A i \in DOMAIN history : history[i] \in [job : JobId, phase : Phase]
    BY <2>1, LenProperties
  <2> QED BY <2>1, <2>2 DEF JobId
<1>2. PICK m \in 0 .. Len(history) :
        S = 1 .. m /\ \A n \in 1 .. m : history[n].job < j
  <2>1. CASE Len(history) # 0 /\ history[Len(history)].job = j
    <3>1. \A i \in DOMAIN history : i < Len(history) => history[i].job < j
      BY <1>1, <2>1
    <3>2. /\ Len(history) - 1 \in 0 .. Len(history)
          /\ S = 1 .. Len(history) - 1
          /\ \A n \in 1 .. Len(history) - 1 : history[n].job < j
      BY <1>1, <2>1, <3>1
    <3> QED BY <3>2
  <2>2. CASE ~(Len(history) # 0 /\ history[Len(history)].job = j)
    <3>1. \A i \in DOMAIN history : history[i].job < j
      BY <1>1, <2>2
    <3>2. /\ Len(history) \in 0 .. Len(history)
          /\ S = 1 .. Len(history)
          /\ \A n \in 1 .. Len(history) : history[n].job < j
      BY <1>1, <3>1
    <3> QED BY <3>2
  <2> QED BY <2>1, <2>2
<1>3. Cardinality(S) = m
  <2>1. m \in Nat /\ S = 1 .. m
    BY <1>1, <1>2
  <2> HIDE DEF S
  <2> QED BY <2>1, FS_Interval
<1>4. \A i \in 1 .. m : Cardinality({k \in S : k <= i}) = i
  <2> TAKE i \in 1 .. m
  <2>1. {k \in S : k <= i} = 1 .. i
    BY <1>2
  <2>2. Cardinality(1 .. i) = i
    BY FS_Interval
  <2> QED BY <2>1, <2>2
<1>5. \A n \in 1 .. m : (CHOOSE i \in S : Cardinality({k \in S : k <= i}) = n) = n
  BY <1>2, <1>4
<1>6. OtherJobs(j) = [n \in 1 .. m |-> history[n]]
  <2>1. OtherJobs(j) = [n \in 1 .. Cardinality(S) |->
                   history[CHOOSE i \in S : Cardinality({k \in S : k <= i}) = n]]
    BY DEF OtherJobs
  <2> HIDE DEF S
  <2> QED BY <1>3, <1>5, <2>1
<1> QED BY <1>2, <1>6

\* Filing an attempt keeps the history in order and within its bound.
LEMMA FiledWell ==
  ASSUME HistoryWellFormed, NEW s \in Snapshot,
         \A i \in DOMAIN history : history[i].job <= s.job
  PROVE  /\ Filed(s) \in Seq([job : JobId, phase : Phase])
         /\ Len(Filed(s)) <= HistoryKept
         /\ \A i, k \in DOMAIN Filed(s) : i < k => Filed(s)[i].job < Filed(s)[k].job
         /\ \A i \in DOMAIN Filed(s) : Filed(s)[i].job <= s.job
<1> DEFINE E == [job : JobId, phase : Phase]
           e == [job |-> s.job, phase |-> s.phase]
<1>1. s.job \in Nat /\ e \in E /\ e.job = s.job
  BY DEF Snapshot, JobId
<1>2. PICK m \in 0 .. Len(history) :
        /\ OtherJobs(s.job) = [n \in 1 .. m |-> history[n]]
        /\ \A n \in 1 .. m : history[n].job < s.job
  BY <1>1, OthersAreFirst
<1>3. /\ history \in Seq(E) /\ DOMAIN history = 1 .. Len(history)
      /\ \A i, k \in DOMAIN history : i < k => history[i].job < history[k].job
  BY DEF HistoryWellFormed
<1> DEFINE others == OtherJobs(s.job)
           all == Append(others, e)
           drop == IF Len(all) > HistoryKept THEN Len(all) - HistoryKept ELSE 0
           kept == SubSeq(all, drop + 1, Len(all))
<1>4. others \in Seq(E) /\ Len(others) = m /\ m \in Nat
  <2>1. m \in Nat /\ \A n \in 1 .. m : history[n] \in E
    <3> HIDE DEF E
    <3>1. Len(history) \in Nat /\ \A n \in 1 .. Len(history) : history[n] \in E
      BY <1>3, LenProperties, ElementOfSeq
    <3> QED BY <3>1
  <2> HIDE DEF E
  <2> QED BY <1>2, <2>1
<1>5. /\ all \in Seq(E) /\ Len(all) = m + 1
      /\ \A n \in 1 .. m : all[n] = history[n]
      /\ all[m + 1] = e
  BY <1>1, <1>2, <1>4
<1>6. /\ \A i, k \in 1 .. m + 1 : i < k => all[i].job < all[k].job
      /\ \A i \in 1 .. m + 1 : all[i].job <= s.job
  <2>1. \A i \in 1 .. m : i \in DOMAIN history /\ history[i].job \in Nat
    <3>1. \A i \in 1 .. m : i \in DOMAIN history
      BY <1>3, LenProperties
    <3>2. \A i \in DOMAIN history : history[i] \in E
      BY <1>3, LenProperties
    <3> QED BY <3>1, <3>2 DEF JobId
  <2>2. \A i \in 1 .. m + 1 : i = m + 1 \/ i \in 1 .. m
    OBVIOUS
  <2> SUFFICES ASSUME NEW i \in 1 .. m + 1
               PROVE  /\ \A k \in 1 .. m + 1 : i < k => all[i].job < all[k].job
                      /\ all[i].job <= s.job
    OBVIOUS
  <2> HIDE DEF all, e, E
  <2>3. CASE i \in 1 .. m
    BY <1>1, <1>2, <1>3, <1>4, <1>5, <2>1, <2>2, <2>3
  <2>4. CASE i = m + 1
    BY <1>1, <1>4, <1>5, <2>4
  <2> QED BY <2>2, <2>3, <2>4
<1> HIDE DEF others, all, e
<1>7. /\ drop \in 0 .. m /\ m + 1 - drop <= HistoryKept
  BY <1>4, <1>5, BoundAssumption
<1> HIDE DEF drop
<1>8. /\ kept \in Seq(E) /\ Len(kept) = m + 1 - drop /\ DOMAIN kept = 1 .. m + 1 - drop
      /\ \A i \in 1 .. m + 1 - drop : kept[i] = all[drop + i]
  <2>1. \A i \in drop + 1 .. m + 1 : all[i] \in E
    <3>1. \A i \in drop + 1 .. m + 1 : i \in 1 .. Len(all)
      BY <1>4, <1>5, <1>7
    <3> HIDE DEF E
    <3> QED BY <1>5, <3>1, ElementOfSeq
  <2> QED BY <1>4, <1>5, <1>7, <2>1, SubSeqProperties
<1>9. Filed(s) = kept
  BY DEF Filed, others, all, e, drop
<1> HIDE DEF kept
<1>10. \A i, k \in DOMAIN kept : i < k => kept[i].job < kept[k].job
  <2> SUFFICES ASSUME NEW i \in 1 .. m + 1 - drop, NEW k \in 1 .. m + 1 - drop, i < k
               PROVE  kept[i].job < kept[k].job
    BY <1>8
  <2>1. drop + i \in 1 .. m + 1 /\ drop + k \in 1 .. m + 1 /\ drop + i < drop + k
    BY <1>4, <1>7
  <2> QED BY <1>6, <1>8, <2>1
<1>11. \A i \in DOMAIN kept : kept[i].job <= s.job
  BY <1>4, <1>6, <1>7, <1>8
<1> QED BY <1>7, <1>8, <1>9, <1>10, <1>11


\* Only Archive writes the history, and it and Install move the logs.
LEMMA OnlyArchiveFiles ==
  ASSUME TypeOK, NEW w \in Worker,
         Requests(w) \/ Runs(w) \/ LaunchFails(w) \/ OutputLost(w)
  PROVE  \/ Archive(w)
         \/ /\ history' = history
            /\ \/ logs' = logs /\ transcript' = transcript
               \/ logs' = logs /\ transcript' = 0
               \/ logs' = logs \union {transcript'}
<1> USE DEF ThreadOnly, disk
<1>1. CASE Requests(w)
  <2>1. ASSUME NEW selected \in (SUBSET Source) \ {{}}, Check(w, selected)
        PROVE  history' = history /\ logs' = logs /\ transcript' = transcript
    BY <2>1 DEF Check
  <2>2. CASE Install(w)
    BY <2>2 DEF Install
  <2>3. CASE Restart(w)
    BY <2>3 DEF Restart
  <2> QED BY <1>1, <2>1, <2>2, <2>3 DEF Requests
<1>2. CASE OutputLost(w) \/ LaunchFails(w) \/ Launch(w)
  BY <1>2 DEF OutputLost, LaunchFails, Launch
<1>3. CASE CheckThread(w) \/ RestartThread(w)
  BY <1>3 DEF CheckThread, RestartThread, Query, StopQuery, Conclude, Publish,
              Reboots, RestartFails
<1>4. CASE InstallThread(w)
  BY <1>4 DEF InstallThread, Prepare, Begin, Refused, NextSource, Stage, Result, Close,
              Finish, Release, Notice, Unfiled, Recount
<1>5. CASE ToolThread(w)
  BY <1>5 DEF ToolThread, Checkpoint, Spawn, Ask, SpawnFails, Child, Denied, Reap
<1> QED BY <1>1, <1>2, <1>3, <1>4, <1>5 DEF Runs

\* archive(): what is filed is of the coordinator's job.
LEMMA ArchiveFiles ==
  ASSUME TypeOK, Record, Filing, NEW w \in Worker, Archive(w), up
  PROVE  Filing'
<1>1. /\ history' \in {history, Filed(snap)} /\ transcript' = 0
      /\ UNCHANGED <<status, snap, up>>
  BY DEF Archive, Write
<1>2. snap \in Snapshot /\ snap.job \in Nat /\ status.job \in Nat
      /\ snap.job <= status.job
  BY DEF TypeOK, Snapshot, JobId, Record, DiskAhead
<1>3. \A i \in DOMAIN history : history[i].job <= snap.job
  BY DEF Filing, HistoryPast
<1>4. HistoryWellFormed'
  BY <1>1, <1>2, <1>3, FiledWell DEF Filing, HistoryWellFormed
<1>5. \A i \in DOMAIN history' : history'[i].job <= snap.job /\ history'[i].job \in Nat
  <2>1. history' \in Seq([job : JobId, phase : Phase])
    BY <1>4 DEF HistoryWellFormed
  <2>2. \A i \in DOMAIN history' : history'[i] \in [job : JobId, phase : Phase]
    BY <2>1, LenProperties, ElementOfSeq
  <2>3. \A i \in DOMAIN history' : history'[i].job <= snap.job
    BY <1>1, <1>2, <1>3, FiledWell DEF Filing
  <2> QED BY <2>2, <2>3 DEF JobId
<1>6. HistoryPast'
  BY <1>1, <1>2, <1>5 DEF HistoryPast
<1> QED BY <1>4, <1>6 DEF Filing

LEMMA FilingStep ==
  ASSUME TypeOK, RootExclusion, Record, Filing, [Next]_vars
  PROVE  Filing'
<1>1. ASSUME NEW w \in Worker, Archive(w) PROVE Filing'
  BY <1>1, ArchiveFiles, OnlyWhileUp DEF Runs, InstallThread
<1>2. CASE \A w \in Worker : ~Archive(w)
  <2>1. /\ history' = history
        /\ transcript' # 0 => transcript' \in logs'
    <3>1. CASE Start \/ Crash \/ ReplacedExit \/ IdleExit \/ Reboot
      BY <3>1 DEF Start, Crash, ReplacedExit, IdleExit, Reboot, Stopped, disk, Filing,
                  HistoryWellFormed
    <3>2. ASSUME NEW w \in Worker,
                 Requests(w) \/ Runs(w) \/ LaunchFails(w) \/ OutputLost(w)
          PROVE  history' = history /\ (transcript' # 0 => transcript' \in logs')
      BY <1>2, <3>2, OnlyArchiveFiles DEF Filing, HistoryWellFormed
    <3>3. CASE UNCHANGED <<disk, up, snap, perr, activity, transcript, thr, boot, asked>>
      BY <3>3 DEF disk, Filing, HistoryWellFormed
    <3> QED BY <3>1, <3>2, <3>3, StepOf
  <2>2. HistoryWellFormed'
    BY <2>1 DEF Filing, HistoryWellFormed
  <2>3. /\ snap.job \in Nat /\ status.job \in Nat
        /\ up => snap.job <= status.job
        /\ \A i \in DOMAIN history : history[i].job \in Nat
    <3>1. history \in Seq([job : JobId, phase : Phase])
      BY DEF Filing, HistoryWellFormed
    <3>2. \A i \in DOMAIN history : history[i] \in [job : JobId, phase : Phase]
      BY <3>1, LenProperties, ElementOfSeq
    <3> QED BY <3>2 DEF TypeOK, Snapshot, JobId, Record, DiskAhead
  <2>4. HistoryPast'
    <3>1. CASE Start
      <4>1. PICK s \in Loaded(status) : Change(Recovered(s))
        BY <3>1, Zenon DEF Start
      <4>2. snap'.job = status.job /\ status'.job = status.job
        BY <4>1, RecoveredFacts DEF Change, Write
      <4> QED BY <2>1, <4>2 DEF Filing, HistoryPast
    <3>2. CASE up /\ Carried
      BY <2>1, <2>3, <3>2 DEF Filing, HistoryPast, Carried
    <3>3. CASE status' = status /\ (up /\ up' => Carried)
      <4>1. up' => up \/ Start
        BY StepOf, OnlyWhileUp DEF Crash, ReplacedExit, IdleExit, Reboot, Stopped
      <4> QED BY <2>1, <2>3, <3>1, <3>3, <4>1 DEF Filing, HistoryPast, Carried
    <3> QED BY <3>1, <3>2, <3>3, CarriedByStep
  <2> QED BY <2>2, <2>4 DEF Filing
<1> QED BY <1>1, <1>2

\* The history is in job order, names no job twice and stays within its bound,
\* and the log that is being written is there, whatever is killed or not saved.
THEOREM HistoryKeptWell == Spec => []HistoryWellFormed
<1>1. Init => Filing
  <2>1. ASSUME Init PROVE history = <<>> /\ transcript = 0 /\ Len(history) = 0
    BY <2>1, EmptySeq DEF Init
  <2> QED BY <2>1, EmptySeq, BoundAssumption DEF Filing, HistoryWellFormed, HistoryPast
<1>2. TypeOK /\ RootExclusion /\ Record /\ Filing /\ [Next]_vars => Filing'
  BY FilingStep
<1>3. Filing => HistoryWellFormed
  BY DEF Filing
<1> QED BY <1>1, <1>2, <1>3, Recorded, PTL DEF Spec

=============================================================================
