----------------------- MODULE ApplicationSleep_proofs -----------------------
(***************************************************************************)
(* Proofs about ApplicationSleep, for any processes, windows and names.    *)
(***************************************************************************)
EXTENDS ApplicationSleep, WellFoundedInduction, TLAPS

\* Only a process that may be signalled is stopped, and none that has gone.
OnlySignalledStop == \A p \in stopped : p \in Alive(proc) /\ May(p)

\* A session that has ended has nobody on its list.
EndedForgets == over => \A p \in Pid : asleep[p] = {}

\* The inductive invariant behind StoppedIsRemembered.
SleepInvariant ==
  TypeOK /\ StoppedIsRemembered /\ OnlySignalledStop /\ EndedForgets

-----------------------------------------------------------------------------
(* What is stopped is a set of identities of processes that run *)

\* Application never leaves the table.
LEMMA ApplicationAlive ==
  ASSUME NEW t, NEW root PROVE Application(t, root) \subseteq Alive(t)
BY DEF Application

\* The identity of a process in the table is an identity.
LEMMA IdentityType ==
  ASSUME NEW t \in [AnyPid -> Process \cup {Gone}], NEW p \in Alive(t)
  PROVE  IdentityOf(t, p) \in Identity
BY DEF Alive, IdentityOf, Identity, Process

\* sleeping and ending answer with identities.
LEMMA DoomedType ==
  ASSUME NEW t \in [AnyPid -> Process \cup {Gone}], NEW p
  PROVE  /\ Sleeping(t, p) \in SUBSET Identity
         /\ Ending(t, p) \in SUBSET Identity
<1>1. \A root : Identities(t, Application(t, root)) \in SUBSET Identity
  BY ApplicationAlive, IdentityType DEF Identities
<1> QED BY <1>1 DEF Sleeping, Ending

\* A signal reaches running processes only, each under its identity.
LEMMA SignalledFacts ==
  ASSUME NEW doomed, NEW p
  PROVE  p \in Signalled(doomed) <=>
           /\ p \in Alive(proc) /\ May(p)
           /\ IdentityOf(proc, p) \in doomed
BY DEF Signalled, Reached

\* Only the processes of the model run.
LEMMA AliveType == ASSUME NEW t PROVE Alive(t) \subseteq AnyPid
BY DEF Alive

-----------------------------------------------------------------------------
(* Types *)

\* A pass keeps the types of what it writes.
LEMMA RefreshType ==
  ASSUME TypeOK, NEW music, RefreshApplicationSleep(music)
  PROVE  /\ stopped' \subseteq AnyPid
         /\ asleep' \in [Pid -> SUBSET Identity]
         /\ refused' \subseteq Pid /\ lastShown' \subseteq Pid
         /\ ending' \subseteq Pid
<1>1. \A p : Signalled(Sleeping(proc, p)) \subseteq AnyPid
  BY SignalledFacts, AliveType
<1>2. stopped' \subseteq AnyPid
  BY <1>1 DEF RefreshApplicationSleep, TypeOK
<1>3. \A p \in Pid : Sleeping(proc, p) \in SUBSET Identity
  BY DoomedType DEF TypeOK
<1>4. asleep' \in [Pid -> SUBSET Identity]
  BY <1>3 DEF RefreshApplicationSleep, TypeOK
<1>5. Shown \subseteq Pid /\ Fresh(music) \subseteq Pid
  BY DEF Shown, Fresh, Hidden
<1>6. /\ refused' \subseteq Pid /\ lastShown' \subseteq Pid
      /\ ending' \subseteq Pid
  BY <1>5 DEF RefreshApplicationSleep, TypeOK
<1> QED BY <1>2, <1>4, <1>6

\* Exits keep the table a table.
LEMMA ExitsType ==
  ASSUME TypeOK, NEW S \in SUBSET AnyPid, Exits(S)
  PROVE  /\ proc' \in [AnyPid -> Process \cup {Gone}]
         /\ stopped' \subseteq AnyPid /\ foreign' \subseteq Pid
<1>1. 0 \notin AnyPid
  BY TeardownAssumption DEF AnyPid, Session
<1>2. ASSUME NEW p \in AnyPid, proc[p].parent \in S
      PROVE  [proc[p] EXCEPT !.parent = 1] \in Process
  <2>1. proc[p] \in Process
    BY <1>1, <1>2 DEF TypeOK, Gone
  <2> QED BY <2>1 DEF Process
<1>3. \A p \in AnyPid : proc[p] \in Process \cup {Gone}
  BY DEF TypeOK
<1> QED BY <1>2, <1>3 DEF Exits, TypeOK

\* Every step keeps the types.
LEMMA TypeStep == ASSUME TypeOK, [Next]_vars PROVE TypeOK'
<1> USE DEF sleepers
<1>1. CASE Pass
  BY <1>1, RefreshType DEF Pass, TypeOK
<1>2. CASE ShellGone
  <2>1. CASE playing = {} BY <1>2, <2>1 DEF ShellGone, TypeOK
  <2>2. CASE playing # {}
    BY <1>2, <2>2, RefreshType DEF ShellGone, TypeOK
  <2> QED BY <2>1, <2>2
<1>3. CASE SessionEnds
  BY <1>3 DEF SessionEnds, TypeOK
<1>4. ASSUME NEW name \in Spoken, NEW on \in BOOLEAN,
             KeepApplicationAwake(name, on)
      PROVE  TypeOK'
  <2>1. playing' \subseteq Name
    BY <1>4, SleepAssumption DEF KeepApplicationAwake, TypeOK
  <2> QED BY <1>4, <2>1, RefreshType DEF KeepApplicationAwake, TypeOK
<1>5. ASSUME NEW name \in Spoken, NEW on \in BOOLEAN, KeepOutOfSight(name, on)
      PROVE  TypeOK'
  BY <1>5, SleepAssumption DEF KeepOutOfSight, TypeOK
<1>6. ASSUME NEW p \in Pid, KillWindow(p) PROVE TypeOK'
  <2>1. graces' \subseteq SUBSET Identity
    BY <1>6, DoomedType DEF KillWindow, TypeOK
  <2> QED BY <1>6, <2>1 DEF KillWindow, WakeThisApplication, TypeOK
<1>7. ASSUME NEW p \in Pid, RequestWindowClose(p) PROVE TypeOK'
  BY <1>7 DEF RequestWindowClose, WakeThisApplication, TypeOK
<1>8. ASSUME NEW p \in Pid, Exit(p) PROVE TypeOK'
  <2>1. {p} \in SUBSET AnyPid BY DEF AnyPid
  <2>2. Exits({p}) BY <1>8 DEF Exit
  <2> QED BY <1>8, <2>1, <2>2, ExitsType DEF Exit, TypeOK
<1>9. ASSUME NEW doomed \in graces, GraceOver(doomed) PROVE TypeOK'
  <2>1. Signalled(doomed) \in SUBSET AnyPid BY SignalledFacts, AliveType
  <2>2. Exits(Signalled(doomed)) BY <1>9 DEF GraceOver
  <2>3. graces' \subseteq graces BY <1>9 DEF GraceOver
  <2> QED BY <1>9, <2>1, <2>2, <2>3, ExitsType DEF GraceOver, TypeOK
<1>10. ASSUME NEW p \in AnyPid, NEW q \in Pid, NEW name \in Launched,
              NEW leads \in BOOLEAN, Fork(p, q, name, leads)
       PROVE  TypeOK'
  <2>1. proc[p] \in Process
    BY <1>10 DEF Fork, TypeOK, Alive
  <2>2. q \in AnyPid /\ name \in Name BY SleepAssumption DEF AnyPid
  <2>3. clock \in 0..MaxStart /\ clock' \in 1..(MaxStart + 1)
    BY <1>10, TeardownAssumption DEF Fork, TypeOK
  <2>4. (IF leads THEN q ELSE proc[p].group) \in AnyPid
    BY <2>1, <2>2 DEF Process
  <2>5. [parent |-> p, name |-> name, started |-> clock,
         group |-> IF leads THEN q ELSE proc[p].group] \in Process
    BY <2>2, <2>3, <2>4 DEF Process
  <2>6. proc' \in [AnyPid -> Process \cup {Gone}]
    BY <1>10, <2>2, <2>5 DEF Fork, TypeOK
  <2>7. foreign' \subseteq Pid BY <1>10 DEF Fork, TypeOK
  <2> QED BY <1>10, <2>3, <2>6, <2>7 DEF Fork, TypeOK
<1>11. ASSUME NEW p \in Pid, NEW place \in Placement, MoveWindow(p, place)
       PROVE  TypeOK'
  BY <1>11, SleepAssumption DEF MoveWindow, TypeOK
<1>12. CASE UNCHANGED vars BY <1>12 DEF vars, TypeOK
<1> QED
  BY <1>1, <1>2, <1>3, <1>4, <1>5, <1>6, <1>7, <1>8, <1>9, <1>10, <1>11, <1>12
     DEF Next

\* The initial states are typed.
LEMMA TypeInit == Init => TypeOK
<1> SUFFICES ASSUME Init PROVE TypeOK
  OBVIOUS
<1>1. proc \in [AnyPid -> Process \cup {Gone}] /\ foreign \subseteq Pid
  BY SleepAssumption DEF Init
<1>2. win \in [Pid -> Placement] /\ asleep \in [Pid -> SUBSET Identity]
  BY DEF Init, Placement
<1>3. clock \in 1..(MaxStart + 1)
  BY SleepAssumption DEF Init
<1> QED BY <1>1, <1>2, <1>3 DEF Init, TypeOK

\* Type correctness of the compositor's list, its graces and the processes
\* around it (sleep.rs:73-96).
THEOREM TypeCorrect == Spec => []TypeOK
<1>1. Init => TypeOK
  BY TypeInit
<1>2. TypeOK /\ [Next]_vars => TypeOK'
  BY TypeStep
<1> QED BY <1>1, <1>2, PTL DEF Spec

-----------------------------------------------------------------------------
(* What is stopped is remembered *)

\* A process that neither starts, exits nor changes its name stays what the
\* invariant says of it when it is still stopped and the lists only grow.
LEMMA RememberedFrame ==
  ASSUME SleepInvariant, asleep' = asleep, stopped' \subseteq stopped,
         over' = over,
         \A p \in stopped' : /\ p \in Alive(proc)'
                             /\ proc'[p].name = proc[p].name
                             /\ proc'[p].started = proc[p].started
  PROVE  (StoppedIsRemembered /\ OnlySignalledStop /\ EndedForgets)'
<1>1. \A p \in stopped' : IdentityOf(proc, p)' = IdentityOf(proc, p)
  BY DEF IdentityOf
<1>2. StoppedIsRemembered'
  BY <1>1 DEF SleepInvariant, StoppedIsRemembered
<1>3. OnlySignalledStop'
  BY DEF SleepInvariant, OnlySignalledStop, May
<1>4. EndedForgets'
  BY DEF SleepInvariant, EndedForgets
<1> QED BY <1>2, <1>3, <1>4

\* Exits leave the processes that stay as they were.
LEMMA ExitsFrame ==
  ASSUME SleepInvariant, NEW S \in SUBSET AnyPid, Exits(S)
  PROVE  /\ stopped' \subseteq stopped
         /\ \A p \in stopped' : /\ p \in Alive(proc)'
                                /\ proc'[p].name = proc[p].name
                                /\ proc'[p].started = proc[p].started
<1>1. stopped' \subseteq stopped BY DEF Exits
<1>2. ASSUME NEW p \in stopped'
      PROVE  /\ p \in Alive(proc)'
             /\ proc'[p].name = proc[p].name
             /\ proc'[p].started = proc[p].started
  <2>1. p \in Alive(proc) /\ p \notin S /\ p \in AnyPid
    BY <1>2 DEF Exits, SleepInvariant, OnlySignalledStop, Alive
  <2>2. proc[p] \in Process
    BY <2>1 DEF SleepInvariant, TypeOK, Alive
  <2>3. CASE proc[p].parent \in S
    <3>1. proc'[p] = [proc[p] EXCEPT !.parent = 1]
      BY <2>1, <2>3 DEF Exits
    <3>2. proc'[p].parent = 1 /\ Gone.parent = 0
      BY <2>2, <3>1 DEF Process, Gone
    <3>3. proc'[p] # Gone BY <3>2
    <3> QED BY <2>1, <2>2, <3>1, <3>3 DEF Alive, Process
  <2>4. CASE proc[p].parent \notin S
    <3>1. proc'[p] = proc[p] BY <2>1, <2>4 DEF Exits
    <3> QED BY <2>1, <3>1 DEF Alive
  <2> QED BY <2>3, <2>4
<1> QED BY <1>1, <1>2

\* A pass keeps the memory: what it stops it writes down, what it takes off
\* the list it continues first, and nothing that could not be continued was
\* ever stopped.
LEMMA RefreshRemembers ==
  ASSUME SleepInvariant, NEW music, RefreshApplicationSleep(music),
         proc' = proc, over' = over, ~over
  PROVE  (StoppedIsRemembered /\ OnlySignalledStop /\ EndedForgets)'
<1> DEFINE hidden == Hidden(music)
           put    == {q \in Fresh(music) : Stoppable(q)}
<1>1. /\ stopped' = (stopped \ Woken(Pid \ hidden))
                      \cup UNION {Signalled(Sleeping(proc, q)) : q \in put}
      /\ asleep' = [q \in Pid |-> IF q \in put THEN Sleeping(proc, q)
                                  ELSE IF q \in hidden THEN asleep[q] ELSE {}]
  BY DEF RefreshApplicationSleep
<1>2. put \subseteq Pid /\ \A q \in put : asleep[q] = {}
  BY DEF Fresh, Hidden
<1> HIDE DEF hidden, put
<1>3. ASSUME NEW p \in stopped'
      PROVE  /\ p \in Alive(proc) /\ May(p)
             /\ \E k \in Pid : IdentityOf(proc, p) \in asleep'[k]
  <2>1. CASE \E q \in put : p \in Signalled(Sleeping(proc, q))
    <3>1. PICK q \in put : p \in Signalled(Sleeping(proc, q)) BY <2>1
    <3>2. /\ p \in Alive(proc) /\ May(p)
          /\ IdentityOf(proc, p) \in Sleeping(proc, q)
      BY <3>1, SignalledFacts
    <3>3. q \in Pid /\ asleep'[q] = Sleeping(proc, q) BY <1>1, <1>2
    <3> QED BY <3>2, <3>3
  <2>2. CASE p \in stopped /\ p \notin Woken(Pid \ hidden)
    <3>1. p \in Alive(proc) /\ May(p)
      BY <2>2 DEF SleepInvariant, OnlySignalledStop
    <3>2. PICK k \in Pid : IdentityOf(proc, p) \in asleep[k]
      BY <2>2 DEF SleepInvariant, StoppedIsRemembered
    <3>3. p \in Signalled(asleep[k]) BY <3>1, <3>2, SignalledFacts
    <3>4. k \in hidden BY <2>2, <3>3 DEF Woken
    <3>5. k \notin put BY <1>2, <3>2
    <3>6. asleep'[k] = asleep[k] BY <1>1, <3>4, <3>5
    <3> QED BY <3>1, <3>2, <3>6
  <2> QED BY <1>1, <1>3, <2>1, <2>2
<1>4. \A p : IdentityOf(proc, p)' = IdentityOf(proc, p) BY DEF IdentityOf
<1>5. StoppedIsRemembered' BY <1>3, <1>4 DEF StoppedIsRemembered
<1>6. Alive(proc)' = Alive(proc) BY DEF Alive
<1>7. OnlySignalledStop' BY <1>3, <1>6 DEF OnlySignalledStop, May
<1>8. EndedForgets' BY DEF EndedForgets
<1> QED BY <1>5, <1>7, <1>8

\* So does waking one application for Close.
LEMMA WakeRemembers ==
  ASSUME SleepInvariant, NEW q \in Pid, WakeThisApplication(q),
         proc' = proc, over' = over
  PROVE  (StoppedIsRemembered /\ OnlySignalledStop /\ EndedForgets)'
<1>1. /\ asleep' = [asleep EXCEPT ![q] = {}]
      /\ stopped' = stopped \ Signalled(asleep[q])
      /\ asleep \in [Pid -> SUBSET Identity]
  BY DEF WakeThisApplication, SleepInvariant, TypeOK
<1>2. Alive(proc)' = Alive(proc) BY DEF Alive
<1>3. \A p : IdentityOf(proc, p)' = IdentityOf(proc, p) BY DEF IdentityOf
<1>4. ASSUME NEW p \in stopped'
      PROVE  \E k \in Pid : IdentityOf(proc, p) \in asleep'[k]
  <2>1. PICK k \in Pid : IdentityOf(proc, p) \in asleep[k]
    BY <1>1 DEF SleepInvariant, StoppedIsRemembered
  <2>2. p \in Alive(proc) /\ May(p)
    BY <1>1 DEF SleepInvariant, OnlySignalledStop
  <2>3. k # q BY <1>1, <2>1, <2>2, SignalledFacts
  <2> QED BY <1>1, <2>1, <2>3
<1>5. StoppedIsRemembered' BY <1>3, <1>4 DEF StoppedIsRemembered
<1>6. OnlySignalledStop'
  BY <1>1, <1>2 DEF SleepInvariant, OnlySignalledStop, May
<1>7. EndedForgets' BY <1>1 DEF SleepInvariant, EndedForgets
<1> QED BY <1>5, <1>6, <1>7

\* The end of the session continues everything it ever stopped.
LEMMA EndContinues ==
  ASSUME SleepInvariant, SessionEnds
  PROVE  stopped' = {} /\ EndedForgets'
<1>1. stopped' = stopped \ Woken(Pid) /\ asleep' = [p \in Pid |-> {}]
  BY DEF SessionEnds
<1>2. ASSUME NEW p \in stopped PROVE p \in Woken(Pid)
  <2>1. PICK k \in Pid : IdentityOf(proc, p) \in asleep[k]
    BY DEF SleepInvariant, StoppedIsRemembered
  <2>2. p \in Signalled(asleep[k])
    BY <2>1, SignalledFacts DEF SleepInvariant, OnlySignalledStop
  <2> QED BY <2>2 DEF Woken
<1> QED BY <1>1, <1>2 DEF EndedForgets

\* Nothing is stopped at first.
LEMMA RememberInit == Init => SleepInvariant
BY TypeInit DEF Init, SleepInvariant, StoppedIsRemembered, OnlySignalledStop,
                EndedForgets

\* Every step keeps the invariant.
LEMMA RememberStep == ASSUME SleepInvariant, [Next]_vars PROVE SleepInvariant'
<1> DEFINE Rest == StoppedIsRemembered /\ OnlySignalledStop /\ EndedForgets
<1>0. SUFFICES Rest' BY TypeStep DEF SleepInvariant
<1>1. CASE Pass
  BY <1>1, RefreshRemembers DEF Pass
<1>2. CASE ShellGone
  <2>1. CASE playing = {}
    BY <1>2, <2>1, RememberedFrame
       DEF ShellGone, sleepers, SleepInvariant, OnlySignalledStop
  <2>2. CASE playing # {}
    BY <1>2, <2>2, RefreshRemembers DEF ShellGone
  <2> QED BY <2>1, <2>2
<1>3. CASE SessionEnds
  <2>1. stopped' = {} /\ EndedForgets' BY <1>3, EndContinues
  <2> QED BY <2>1 DEF StoppedIsRemembered, OnlySignalledStop
<1>4. ASSUME NEW name \in Spoken, NEW on \in BOOLEAN,
             KeepApplicationAwake(name, on)
      PROVE  Rest'
  BY <1>4, RefreshRemembers DEF KeepApplicationAwake
<1>5. ASSUME NEW name \in Spoken, NEW on \in BOOLEAN, KeepOutOfSight(name, on)
      PROVE  Rest'
  BY <1>5, RememberedFrame
     DEF KeepOutOfSight, sleepers, SleepInvariant, OnlySignalledStop
<1>6. ASSUME NEW p \in Pid, KillWindow(p) PROVE Rest'
  BY <1>6, WakeRemembers DEF KillWindow
<1>7. ASSUME NEW p \in Pid, RequestWindowClose(p) PROVE Rest'
  BY <1>7, WakeRemembers DEF RequestWindowClose
<1>8. ASSUME NEW p \in Pid, Exit(p) PROVE Rest'
  <2>1. {p} \in SUBSET AnyPid BY DEF AnyPid
  <2>2. Exits({p}) /\ asleep' = asleep /\ over' = over
    BY <1>8 DEF Exit, sleepers
  <2> QED BY <2>1, <2>2, ExitsFrame, RememberedFrame
<1>9. ASSUME NEW doomed \in graces, GraceOver(doomed) PROVE Rest'
  <2>1. Signalled(doomed) \in SUBSET AnyPid BY SignalledFacts, AliveType
  <2>2. Exits(Signalled(doomed)) /\ asleep' = asleep /\ over' = over
    BY <1>9 DEF GraceOver, sleepers
  <2> QED BY <2>1, <2>2, ExitsFrame, RememberedFrame
<1>10. ASSUME NEW p \in AnyPid, NEW q \in Pid, NEW name \in Launched,
              NEW leads \in BOOLEAN, Fork(p, q, name, leads)
       PROVE  Rest'
  <2>1. q \notin stopped
    BY <1>10 DEF Fork, SleepInvariant, OnlySignalledStop, Alive
  <2>2. \A r \in AnyPid : r # q => proc'[r] = proc[r]
    BY <1>10 DEF Fork, SleepInvariant, TypeOK
  <2>3. \A r \in stopped : r \in AnyPid /\ proc[r] # Gone
    BY DEF SleepInvariant, OnlySignalledStop, Alive
  <2>4. stopped' = stopped /\ asleep' = asleep /\ over' = over
    BY <1>10 DEF Fork, sleepers
  <2>5. \A r \in stopped' : r \in Alive(proc)' /\ proc'[r] = proc[r]
    BY <2>1, <2>2, <2>3, <2>4 DEF Alive
  <2> QED BY <2>4, <2>5, RememberedFrame
<1>11. ASSUME NEW p \in Pid, NEW place \in Placement, MoveWindow(p, place)
       PROVE  Rest'
  BY <1>11, RememberedFrame
     DEF MoveWindow, sleepers, SleepInvariant, OnlySignalledStop
<1>12. CASE UNCHANGED vars
  BY <1>12, RememberedFrame DEF vars, SleepInvariant, OnlySignalledStop
<1> QED
  BY <1>1, <1>2, <1>3, <1>4, <1>5, <1>6, <1>7, <1>8, <1>9, <1>10, <1>11, <1>12
     DEF Next

\* Whatever the compositor stopped is on the list of an application that is
\* asleep, as the process that was stopped (sleep.rs:74).
THEOREM Remembered == Spec => []StoppedIsRemembered
<1>1. Init => SleepInvariant BY RememberInit
<1>2. SleepInvariant /\ [Next]_vars => SleepInvariant' BY RememberStep
<1>3. SleepInvariant => StoppedIsRemembered BY DEF SleepInvariant
<1> QED BY <1>1, <1>2, <1>3, PTL DEF Spec

\* After the end of the session nothing it stopped is stopped
\* (sleep.rs:58-61).
THEOREM NoneStaysStopped == Spec => []NothingStaysStopped
<1>1. Init => SleepInvariant BY RememberInit
<1>2. SleepInvariant /\ [Next]_vars => SleepInvariant' BY RememberStep
<1>3. SleepInvariant => NothingStaysStopped
  BY DEF SleepInvariant, StoppedIsRemembered, EndedForgets,
         NothingStaysStopped
<1> QED BY <1>1, <1>2, <1>3, PTL DEF Spec
-----------------------------------------------------------------------------
(* The walk up the tree, one process at a time *)

\* A set of numbers has a least one.
LEMMA LeastNumber ==
  ASSUME NEW T \in SUBSET Nat, T # {}
  PROVE  \E x \in T : \A y \in T : x <= y
<1>1. PICK x \in T : \A y \in T : ~ (<<y, x>> \in OpToRel(<, Nat))
  BY WFMin, NatLessThanWellFounded
<1>2. \A y \in T : ~ (y < x)
  BY <1>1, Zenon DEF OpToRel
<1> QED BY <1>2

\* Induction, over a set of numbers.
LEMMA SetInduction ==
  ASSUME NEW S, 0 \in S, \A n \in Nat : n \in S => n + 1 \in S
  PROVE  Nat \subseteq S
<1> DEFINE T == Nat \ S
<1> SUFFICES ASSUME T # {} PROVE FALSE
  OBVIOUS
<1>1. PICK x \in T : \A y \in T : x <= y
  <2>1. T \in SUBSET Nat
    OBVIOUS
  <2> HIDE DEF T
  <2> QED BY <2>1, LeastNumber
<1>2. x # 0 /\ x - 1 \in Nat
  OBVIOUS
<1>3. x - 1 \in S
  BY <1>1, <1>2
<1> QED BY <1>2, <1>3

\* The process above q.
UpOne(t, q) == IF q \in Alive(t) THEN t[q].parent ELSE 0

\* Above is what its recursive definition says.
LEMMA AboveRec ==
  ASSUME NEW t, NEW p
  PROVE  /\ Above(t, p)[0] = p
         /\ \A n \in Nat : Above(t, p)[n + 1] = UpOne(t, Above(t, p)[n])
<1> DEFINE Good(g, n) == /\ DOMAIN g = 0 .. n /\ g = [i \in 0 .. n |-> g[i]]
                         /\ g[0] = p
                         /\ \A i \in 0 .. n - 1 : g[i + 1] = UpOne(t, g[i])
           Has == {n \in Nat : \E g : Good(g, n)}
<1>1. Nat \subseteq Has
  <2>1. 0 \in Has
    <3>1. Good([i \in 0 .. 0 |-> p], 0)
      OBVIOUS
    <3> HIDE DEF Good
    <3> QED BY <3>1
  <2>2. ASSUME NEW n \in Nat, n \in Has PROVE n + 1 \in Has
    <3>1. PICK g : Good(g, n)
      BY <2>2
    <3> DEFINE h == [i \in 0 .. n + 1 |-> IF i = n + 1 THEN UpOne(t, g[n]) ELSE g[i]]
    <3>2. /\ DOMAIN h = 0 .. n + 1 /\ h = [i \in 0 .. n + 1 |-> h[i]]
          /\ h[0] = p
      BY <3>1
    <3>3. ASSUME NEW i \in 0 .. (n + 1) - 1 PROVE h[i + 1] = UpOne(t, h[i])
      <4>1. h[i] = g[i]
        BY <3>3
      <4>2. CASE i = n
        BY <4>1, <4>2
      <4>3. CASE i # n
        <5>1. i \in 0 .. n - 1 /\ i + 1 \in 0 .. n + 1 /\ i + 1 # n + 1
          BY <4>3
        <5>2. g[i + 1] = UpOne(t, g[i])
          BY <3>1, <5>1
        <5>3. h[i + 1] = g[i + 1]
          BY <5>1
        <5> HIDE DEF h
        <5> QED BY <4>1, <5>2, <5>3
      <4> QED BY <4>2, <4>3
    <3>4. Good(h, n + 1)
      <4> HIDE DEF h
      <4> QED BY <3>2, <3>3
    <3> HIDE DEF Good, h
    <3> QED BY <3>4
  <2> HIDE DEF Has
  <2> QED BY <2>1, <2>2, SetInduction
<1>2. ASSUME NEW n \in Nat, NEW m \in Nat, NEW g, NEW h, Good(g, n), Good(h, m)
      PROVE  \A i \in Nat : i <= n /\ i <= m => g[i] = h[i]
  <2> DEFINE Same == {i \in Nat : i <= n /\ i <= m => g[i] = h[i]}
  <2>1. 0 \in Same
    BY <1>2
  <2>2. ASSUME NEW i \in Nat, i \in Same PROVE i + 1 \in Same
    <3> SUFFICES ASSUME i + 1 <= n, i + 1 <= m PROVE g[i + 1] = h[i + 1]
      OBVIOUS
    <3>1. i \in 0 .. n - 1 /\ i \in 0 .. m - 1 /\ g[i] = h[i]
      BY <2>2
    <3>2. g[i + 1] = UpOne(t, g[i]) /\ h[i + 1] = UpOne(t, h[i])
      BY <1>2, <3>1
    <3> QED BY <3>1, <3>2
  <2>3. Nat \subseteq Same
    <3> HIDE DEF Same
    <3> QED BY <2>1, <2>2, SetInduction
  <2> QED BY <2>3
<1> DEFINE The(n) == CHOOSE g : Good(g, n)
           f == [n \in Nat |-> The(n)[n]]
<1>3. \A n \in Nat : Good(The(n), n)
  <2> TAKE n \in Nat
  <2> HIDE DEF Good
  <2>1. \E g : Good(g, n)
    BY <1>1
  <2> QED BY <2>1
<1>4. f[0] = p
  <2>1. Good(The(0), 0)
    BY <1>3
  <2> QED BY <2>1
<1>5. \A n \in Nat : f[n + 1] = UpOne(t, f[n])
  <2> TAKE n \in Nat
  <2> DEFINE g == The(n + 1)
             h == The(n)
  <2>1. Good(g, n + 1) /\ Good(h, n)
    <3> HIDE DEF Good, The
    <3> QED BY <1>3
  <2>2. f[n + 1] = g[n + 1] /\ f[n] = h[n]
    OBVIOUS
  <2> HIDE DEF g, h, f, The
  <2>3. g[n] = h[n]
    <3> HIDE DEF Good
    <3>1. \A i \in Nat : i <= n + 1 /\ i <= n => g[i] = h[i]
      BY <1>2, <2>1
    <3> QED BY <3>1
  <2>4. g[n + 1] = UpOne(t, g[n])
    <3>1. n \in 0 .. (n + 1) - 1
      OBVIOUS
    <3> QED BY <2>1, <3>1
  <2> QED BY <2>2, <2>3, <2>4
<1> DEFINE Eq(up) == up = [n \in Nat |-> IF n = 0 THEN p
                     ELSE IF up[n - 1] \in Alive(t) THEN t[up[n - 1]].parent ELSE 0]
<1>6. Eq(f)
  <2>1. \A n \in Nat : n # 0 => f[n] = UpOne(t, f[n - 1])
    <3> TAKE n \in Nat
    <3>1. CASE n # 0
      <4>1. n - 1 \in Nat /\ (n - 1) + 1 = n
        BY <3>1
      <4> HIDE DEF f
      <4> QED BY <1>5, <4>1
    <3> QED BY <3>1
  <2>2. f = [n \in Nat |-> f[n]]
    OBVIOUS
  <2> HIDE DEF f
  <2> QED BY <1>4, <2>1, <2>2 DEF UpOne
<1>7. Above(t, p) = CHOOSE up : Eq(up)
  BY DEF Above
<1>8. Eq(Above(t, p))
  <2> HIDE DEF Eq, f
  <2> QED BY <1>6, <1>7
<1> QED BY <1>8 DEF UpOne

\* A set the walk cannot leave holds everything above a process in it.
LEMMA StaysIn ==
  ASSUME NEW t, NEW p, NEW C, \A q \in C : UpOne(t, q) \in C,
         NEW k \in Nat, Above(t, p)[k] \in C
  PROVE  \A j \in Nat : j >= k => Above(t, p)[j] \in C
<1> DEFINE S == {j \in Nat : Above(t, p)[k + j] \in C}
<1>1. 0 \in S
  OBVIOUS
<1>2. ASSUME NEW j \in Nat, j \in S PROVE j + 1 \in S
  <2>1. k + j \in Nat /\ (k + j) + 1 = k + (j + 1)
    OBVIOUS
  <2>2. Above(t, p)[(k + j) + 1] = UpOne(t, Above(t, p)[k + j])
    BY <2>1, AboveRec
  <2>3. Above(t, p)[k + (j + 1)] \in C
    BY <1>2, <2>1, <2>2
  <2> QED BY <2>3
<1>3. Nat \subseteq S
  <2> HIDE DEF S
  <2> QED BY <1>1, <1>2, SetInduction
<1> SUFFICES ASSUME NEW j \in Nat, j >= k PROVE Above(t, p)[j] \in C
  OBVIOUS
<1>4. j - k \in Nat /\ k + (j - k) = j
  OBVIOUS
<1>5. j - k \in S
  BY <1>3, <1>4
<1> QED BY <1>4, <1>5

\* What is neither init nor above it.
LEMMA NoneAboveInit ==
  ASSUME NEW t PROVE 0 \notin AnyPid /\ 1 \notin AnyPid
                     /\ UpOne(t, 0) = 0 /\ UpOne(t, 1) = 0
BY TeardownAssumption DEF AnyPid, Session, UpOne, Alive

\* Above a process of another login come only its own and init; above one of
\* the session, those and the session.
LEMMA AboveTheOthers ==
  ASSUME NEW t, NEW others \in SUBSET Pid, TableOf(t, others), NEW p,
         NEW k \in Nat, NEW j \in Nat, j >= k
  PROVE  /\ Above(t, p)[k] \in others => Above(t, p)[j] \in others \cup {0, 1}
         /\ Above(t, p)[k] \in others \cup Session
              => Above(t, p)[j] \in others \cup Session \cup {0, 1}
<1> DEFINE C == others \cup {0, 1}
           D == others \cup Session \cup {0, 1}
<1>1. \A q \in C : UpOne(t, q) \in C
  BY NoneAboveInit DEF TableOf, UpOne
<1>2. \A q \in D : UpOne(t, q) \in D
  BY NoneAboveInit DEF TableOf, UpOne
<1>3. Above(t, p)[k] \in others => Above(t, p)[j] \in C
  <2> HIDE DEF C
  <2> SUFFICES ASSUME Above(t, p)[k] \in C PROVE Above(t, p)[j] \in C
    BY DEF C
  <2> QED BY <1>1, StaysIn
<1>4. Above(t, p)[k] \in others \cup Session => Above(t, p)[j] \in D
  <2> HIDE DEF D
  <2> SUFFICES ASSUME Above(t, p)[k] \in D PROVE Above(t, p)[j] \in D
    BY DEF D
  <2> QED BY <1>2, StaysIn
<1> QED BY <1>3, <1>4

\* application_root ends where the walk first may end.
LEMMA RootOfTheWalk ==
  ASSUME NEW t, NEW p
  PROVE  \E i \in 0..MaxDepth :
            /\ ApplicationRoot(t, p) = Above(t, p)[i]
            /\ \A k \in 0..(i - 1) : ~IsTop(t, p, Above(t, p)[k])
<1> DEFINE Ends(i) == i = MaxDepth \/ IsTop(t, p, Above(t, p)[i])
           First(i) == /\ Ends(i)
                       /\ \A k \in 0..(i - 1) : ~IsTop(t, p, Above(t, p)[k])
           n == CHOOSE i \in 0..MaxDepth : First(i)
<1>1. ApplicationRoot(t, p) = Above(t, p)[n]
  BY Zenon DEF ApplicationRoot
<1>2. \E i \in 0..MaxDepth : First(i)
  <2> DEFINE T == {i \in 0..MaxDepth : Ends(i)}
  <2>1. T \in SUBSET Nat /\ MaxDepth \in T
    BY TeardownAssumption
  <2>2. PICK i \in T : \A j \in T : i <= j
    <3> HIDE DEF T
    <3> QED BY <2>1, LeastNumber
  <2>3. \A k \in 0..(i - 1) : k \in 0..MaxDepth /\ k \notin T
    BY <2>2, TeardownAssumption
  <2>4. \A k \in 0..(i - 1) : ~Ends(k)
    BY <2>3
  <2>5. \A k \in 0..(i - 1) : ~IsTop(t, p, Above(t, p)[k])
    BY <2>4
  <2> QED BY <2>2, <2>5
<1>3. n \in 0..MaxDepth /\ First(n)
  <2> HIDE DEF First
  <2> QED BY <1>2
<1> HIDE DEF n
<1> QED BY <1>1, <1>3

\* The way from an application to the session runs over our processes only.
LEMMA WalkToTheSession ==
  ASSUME NEW t, NEW others \in SUBSET Pid, TableOf(t, others), NEW p \in Pid,
         InsideTheSession(t, p)
  PROVE  \E m \in 1..(MaxDepth - 1) :
            /\ Above(t, p)[m] \in Session
            /\ \A k \in 0..(m - 1) : Above(t, p)[k] \in Ours(t, others)
<1> DEFINE up == Above(t, p)
<1>1. PICK n \in 0..(MaxDepth - 1) :
        /\ up[n] \in Session
        /\ \A k \in 0..(n - 1) : up[k] \in Alive(t)
  BY DEF InsideTheSession
<1> HIDE DEF up
<1> DEFINE T == {k \in 0..n : up[k] \in Session}
<1>2. PICK m \in T : \A k \in T : m <= k
  <2>1. T \in SUBSET Nat /\ n \in T
    BY <1>1, TeardownAssumption
  <2> HIDE DEF T
  <2> QED BY <2>1, LeastNumber
<1>3. m \in 0..n /\ up[m] \in Session
  BY <1>2
<1>4. m # 0
  <2>1. up[0] = p BY AboveRec DEF up
  <2> QED BY <1>3, <2>1, TeardownAssumption DEF Session
<1>5. ASSUME NEW k \in 0..(m - 1) PROVE up[k] \in Ours(t, others)
  <2>1. k \in Nat /\ k <= m /\ k \in 0..n /\ k \in 0..(n - 1) /\ m \in Nat
    BY <1>1, <1>3, <1>5, TeardownAssumption
  <2>2. up[k] \in Alive(t)
    BY <1>1, <2>1
  <2>3. up[k] \notin Session
    BY <1>2, <1>5, <2>1
  <2>4. up[k] \notin others
    <3> SUFFICES ASSUME up[k] \in others PROVE FALSE
      OBVIOUS
    <3>1. up[m] \in others \cup {0, 1}
      BY <2>1, AboveTheOthers DEF up
    <3> QED BY <1>3, <3>1, TeardownAssumption DEF Session
  <2> QED BY <2>2, <2>3, <2>4 DEF Ours
<1>6. m \in 1..(MaxDepth - 1)
  BY <1>1, <1>3, <1>4, TeardownAssumption
<1> QED BY <1>3, <1>5, <1>6 DEF up

\* The application of one of our windows is ours, all the way from the window
\* up, and the walk passes nothing at which it might have ended.
LEMMA RootIsOurs ==
  ASSUME NEW t, NEW others \in SUBSET Pid, TableOf(t, others), NEW p \in Pid,
         InsideTheSession(t, p)
  PROVE  \E i \in Nat :
            /\ ApplicationRoot(t, p) = Above(t, p)[i]
            /\ \A k \in 0..i : Above(t, p)[k] \in Ours(t, others)
            /\ \A k \in 0..(i - 1) : ~IsTop(t, p, Above(t, p)[k])
<1>1. PICK m \in 1..(MaxDepth - 1) :
        /\ Above(t, p)[m] \in Session
        /\ \A k \in 0..(m - 1) : Above(t, p)[k] \in Ours(t, others)
  BY WalkToTheSession
<1>2. PICK i \in 0..MaxDepth :
        /\ ApplicationRoot(t, p) = Above(t, p)[i]
        /\ \A k \in 0..(i - 1) : ~IsTop(t, p, Above(t, p)[k])
  BY RootOfTheWalk
<1>3. m - 1 \in Nat /\ (m - 1) + 1 = m /\ m - 1 \in 0..(m - 1) /\ i \in Nat
  BY TeardownAssumption
<1>4. t[Above(t, p)[m - 1]].parent \in Session
  <2>1. Above(t, p)[(m - 1) + 1] = UpOne(t, Above(t, p)[m - 1])
    BY <1>3, AboveRec
  <2>2. Above(t, p)[m - 1] \in Alive(t)
    BY <1>1, <1>3 DEF Ours
  <2> QED BY <1>1, <1>3, <2>1, <2>2 DEF UpOne
<1>5. IsTop(t, p, Above(t, p)[m - 1])
  BY <1>4 DEF IsTop, StopsAt
<1>6. i <= m - 1
  <2> SUFFICES ASSUME ~(i <= m - 1) PROVE FALSE
    OBVIOUS
  <2>1. m - 1 \in 0..(i - 1)
    BY <1>3
  <2> QED BY <1>2, <1>5, <2>1
<1>7. \A k \in 0..i : k \in 0..(m - 1)
  BY <1>3, <1>6
<1> QED BY <1>1, <1>2, <1>3, <1>7

\* So is everything that is stopped or ended with it.
LEMMA TreeIsOurs ==
  ASSUME NEW t, NEW others \in SUBSET Pid, TableOf(t, others), NEW p \in Pid,
         InsideTheSession(t, p)
  PROVE  Application(t, ApplicationRoot(t, p)) \subseteq Ours(t, others)
<1> DEFINE root == ApplicationRoot(t, p)
<1>1. root \in Ours(t, others)
  <2>1. PICK i \in Nat :
          /\ ApplicationRoot(t, p) = Above(t, p)[i]
          /\ \A k \in 0..i : Above(t, p)[k] \in Ours(t, others)
    BY RootIsOurs
  <2>2. i \in 0..i
    OBVIOUS
  <2> QED BY <2>1, <2>2
<1> HIDE DEF root
<1> SUFFICES ASSUME NEW q \in Application(t, root)
             PROVE  q \in Ours(t, others)
  BY DEF root
<1>2. q \in Alive(t)
  BY DEF Application
<1>3. CASE t[root].group = root /\ t[q].group = root
  BY <1>1, <1>2, <1>3 DEF TableOf
<1>4. CASE \E n \in 0..Cardinality(AnyPid) : Above(t, q)[n] = root
  <2>1. PICK n \in 0..Cardinality(AnyPid) : Above(t, q)[n] = root
    BY <1>4
  <2>2. n \in Nat /\ n >= 0 /\ Above(t, q)[0] = q
    BY AboveRec
  <2>3. q \notin others \cup Session
    <3> SUFFICES ASSUME q \in others \cup Session PROVE FALSE
      OBVIOUS
    <3>1. Above(t, q)[n] \in others \cup Session \cup {0, 1}
      BY <2>2, AboveTheOthers
    <3> QED BY <1>1, <2>1, <3>1, NoneAboveInit DEF Ours, Alive
  <2> QED BY <1>2, <2>3 DEF Ours
<1> QED BY <1>3, <1>4 DEF Application

\* Whoever is above a process was started before it.
LEMMA AboveCameBefore ==
  ASSUME NEW t, NEW order \in [AnyPid -> Nat], Ordered(t, order), NEW p,
         NEW i \in Nat, NEW j \in Nat, j > i, Above(t, p)[j] \in Alive(t)
  PROVE  /\ Above(t, p)[i] \in Alive(t)
         /\ order[Above(t, p)[j]] < order[Above(t, p)[i]]
<1> DEFINE up == Above(t, p)
           S == {n \in Nat : up[i + (n + 1)] \in Alive(t) =>
                    /\ up[i] \in Alive(t)
                    /\ order[up[i + (n + 1)]] < order[up[i]]}
<1>1. ASSUME NEW n \in Nat, up[n + 1] \in Alive(t)
      PROVE  up[n] \in Alive(t) /\ order[up[n + 1]] < order[up[n]]
  <2>1. up[n + 1] = UpOne(t, up[n])
    BY AboveRec
  <2>2. up[n] \in Alive(t) /\ t[up[n]].parent = up[n + 1]
    BY <1>1, <2>1, NoneAboveInit DEF UpOne, Alive
  <2> HIDE DEF up
  <2> QED BY <1>1, <2>2 DEF Ordered
<1>2. 0 \in S
  <2> HIDE DEF up
  <2> QED BY <1>1
<1>3. ASSUME NEW n \in Nat, n \in S PROVE n + 1 \in S
  <2> HIDE DEF up
  <2> DEFINE m == i + (n + 1)
  <2>1. m \in Nat /\ i + ((n + 1) + 1) = m + 1
    OBVIOUS
  <2> SUFFICES ASSUME up[m + 1] \in Alive(t)
               PROVE  up[i] \in Alive(t) /\ order[up[m + 1]] < order[up[i]]
    BY <2>1
  <2>2. up[m] \in Alive(t) /\ order[up[m + 1]] < order[up[m]]
    BY <1>1, <2>1
  <2>3. up[i] \in Alive(t) /\ order[up[m]] < order[up[i]]
    BY <1>3, <2>2
  <2>4. order[up[m + 1]] \in Nat /\ order[up[m]] \in Nat /\ order[up[i]] \in Nat
    BY <2>2, <2>3, AliveType
  <2> QED BY <2>2, <2>3, <2>4
<1>4. Nat \subseteq S
  <2> HIDE DEF S
  <2> QED BY <1>2, <1>3, SetInduction
<1>5. j - i - 1 \in Nat /\ i + ((j - i - 1) + 1) = j
  OBVIOUS
<1>6. j - i - 1 \in S
  BY <1>4, <1>5
<1> HIDE DEF up
<1>7. up[j] \in Alive(t) => up[i] \in Alive(t) /\ order[up[j]] < order[up[i]]
  BY <1>5, <1>6
<1> QED BY <1>7 DEF up

\* No supervisor above the process of a window is in the tree that goes with
\* the window: the walk ends below it, and nothing above the root descends
\* from the root or joined the group it leads.
LEMMA SupervisorIsAbove ==
  ASSUME NEW t, NEW others \in SUBSET Pid, TableOf(t, others),
         NEW order \in [AnyPid -> Nat], Ordered(t, order),
         NEW p \in Pid, t[p].name \notin InterfaceName,
         InsideTheSession(t, p),
         NEW s \in Application(t, ApplicationRoot(t, p)),
         t[s].name \in SupervisorName,
         NEW n \in Nat, n > 0
  PROVE  Above(t, p)[n] # s
<1> SUFFICES ASSUME Above(t, p)[n] = s PROVE FALSE
  OBVIOUS
<1> DEFINE root == ApplicationRoot(t, p)
<1>1. PICK i \in Nat :
        /\ root = Above(t, p)[i]
        /\ \A k \in 0..i : Above(t, p)[k] \in Ours(t, others)
        /\ \A k \in 0..(i - 1) : ~IsTop(t, p, Above(t, p)[k])
  BY RootIsOurs
<1>2. s \in Alive(t) /\ s \in AnyPid
  BY AliveType DEF Application
<1>3. CASE n <= i
  <2>1. n - 1 \in Nat /\ (n - 1) + 1 = n /\ n - 1 \in 0..(i - 1) /\ n - 1 \in 0..i
    BY <1>3
  <2>2. s = UpOne(t, Above(t, p)[n - 1])
    BY <2>1, AboveRec
  <2>3. Above(t, p)[n - 1] \in Alive(t)
    BY <1>1, <2>1 DEF Ours
  <2>4. t[Above(t, p)[n - 1]].parent = s
    BY <2>2, <2>3 DEF UpOne
  <2>5. IsTop(t, p, Above(t, p)[n - 1])
    BY <2>4 DEF IsTop
  <2> QED BY <1>1, <2>1, <2>5
<1>4. CASE n > i
  <2>1. root \in Alive(t) /\ order[s] < order[root]
    BY <1>1, <1>2, <1>4, AboveCameBefore
  <2> HIDE DEF root
  <2>2. root \in AnyPid /\ order[root] \in Nat /\ order[s] \in Nat
    BY <1>2, <2>1, AliveType
  <2>3. CASE t[root].group = root /\ t[s].group = root
    <3>1. s = root \/ order[root] < order[s]
      BY <1>2, <2>1, <2>3 DEF Ordered
    <3> QED BY <2>1, <2>2, <3>1
  <2>4. CASE \E m \in 0..Cardinality(AnyPid) : Above(t, s)[m] = root
    <3>1. PICK m \in 0..Cardinality(AnyPid) : Above(t, s)[m] = root
      BY <2>4
    <3>2. m \in Nat /\ 0 \in Nat /\ Above(t, s)[0] = s
      BY AboveRec
    <3>3. CASE m = 0
      BY <2>1, <2>2, <3>1, <3>2, <3>3
    <3>4. CASE m > 0
      <4>1. order[root] < order[s]
        BY <2>1, <3>1, <3>2, <3>4, AboveCameBefore
      <4> QED BY <2>1, <2>2, <4>1
    <3> QED BY <3>2, <3>3, <3>4
  <2> QED BY <2>3, <2>4 DEF Application, root
<1> QED BY <1>3, <1>4

-----------------------------------------------------------------------------
(* Only our own processes are signalled *)

\* The inductive invariant behind the properties of signals: the table stays
\* a table of this machine, start times tell the processes apart, and what is
\* stopped or still to be killed is ours.
OwnInvariant ==
  /\ TableOf(proc, foreign)
  /\ \E order \in [AnyPid -> Nat] : Ordered(proc, order)
  /\ \A p \in Alive(proc) : proc[p].started < clock
  /\ \A d \in graces : \A i \in d : i.started < clock
  /\ stopped \subseteq Ours(proc, foreign)
  /\ \A d \in graces : Reached(proc, d) \subseteq Ours(proc, foreign)

\* What sleeping and ending answer reaches only processes of ours, that run.
LEMMA DoomedAreOurs ==
  ASSUME TypeOK, OwnInvariant, NEW p \in Pid,
         NEW d \in {Sleeping(proc, p), Ending(proc, p)}
  PROVE  /\ Reached(proc, d) \subseteq Ours(proc, foreign)
         /\ \A i \in d : i.started < clock
<1> DEFINE tree == Application(proc, ApplicationRoot(proc, p))
<1>1. CASE d = {}
  BY <1>1 DEF Reached
<1>2. CASE InsideTheSession(proc, p) /\ d = Identities(proc, tree)
  <2>1. tree \subseteq Ours(proc, foreign) /\ foreign \in SUBSET Pid
    BY <1>2, TreeIsOurs DEF OwnInvariant, TypeOK
  <2> HIDE DEF tree
  <2>2. \A q \in Reached(proc, d) : q \in tree
    BY <1>2 DEF Reached, Identities, IdentityOf
  <2>3. ASSUME NEW i \in d PROVE i.started < clock
    <3>1. PICK q \in tree : i = IdentityOf(proc, q)
      BY <1>2 DEF Identities
    <3>2. q \in Alive(proc) /\ i.started = proc[q].started
      BY <2>1, <3>1 DEF Ours, IdentityOf
    <3> QED BY <3>2 DEF OwnInvariant
  <2> QED BY <2>1, <2>2, <2>3
<1>3. d = {} \/ (InsideTheSession(proc, p) /\ d = Identities(proc, tree))
  BY DEF Sleeping, Ending
<1> QED BY <1>1, <1>2, <1>3

\* A step that leaves the table alone, stops only processes of ours and adds
\* only graces for such keeps the invariant.
LEMMA OwnFrame ==
  ASSUME OwnInvariant, proc' = proc, foreign' = foreign, clock' = clock,
         stopped' \subseteq Ours(proc, foreign),
         \A d \in graces' \ graces :
            /\ Reached(proc, d) \subseteq Ours(proc, foreign)
            /\ \A i \in d : i.started < clock
  PROVE  OwnInvariant'
<1>1. /\ TableOf(proc, foreign)' = TableOf(proc, foreign)
      /\ Ours(proc, foreign)' = Ours(proc, foreign)
      /\ Alive(proc)' = Alive(proc)
  BY DEF TableOf, Ours, Alive
<1>2. \A d : Reached(proc, d)' = Reached(proc, d)
  BY DEF Reached, Alive, IdentityOf
<1>3. (\E order \in [AnyPid -> Nat] : Ordered(proc, order))'
  BY DEF OwnInvariant, Ordered, Alive
<1>4. (\A p \in Alive(proc) : proc[p].started < clock)'
  BY <1>1 DEF OwnInvariant
<1>5. (\A d \in graces : \A i \in d : i.started < clock)'
  BY DEF OwnInvariant
<1>6. (\A d \in graces : Reached(proc, d) \subseteq Ours(proc, foreign))'
  BY <1>1, <1>2 DEF OwnInvariant
<1> QED BY <1>1, <1>3, <1>4, <1>5, <1>6 DEF OwnInvariant

\* What a pass stops is ours.
LEMMA RefreshStopsOurs ==
  ASSUME TypeOK, OwnInvariant, NEW music, RefreshApplicationSleep(music)
  PROVE  stopped' \subseteq Ours(proc, foreign)
<1> SUFFICES ASSUME NEW q \in stopped' PROVE q \in Ours(proc, foreign)
  OBVIOUS
<1>1. \/ q \in stopped
      \/ \E p \in Fresh(music) : q \in Signalled(Sleeping(proc, p))
  BY DEF RefreshApplicationSleep
<1>2. Fresh(music) \subseteq Pid
  BY DEF Fresh, Hidden
<1>3. \A p \in Pid : Reached(proc, Sleeping(proc, p)) \subseteq Ours(proc, foreign)
  BY DoomedAreOurs
<1> QED BY <1>1, <1>2, <1>3 DEF OwnInvariant, Signalled

\* What exits leaves a table without it and otherwise as it was.
LEMMA ExitsTable ==
  ASSUME TypeOK, NEW S \in SUBSET Pid, Exits(S)
  PROVE  /\ Alive(proc)' = Alive(proc) \ S
         /\ \A p \in Alive(proc)' :
              /\ proc'[p].parent =
                   (IF proc[p].parent \in S THEN 1 ELSE proc[p].parent)
              /\ proc'[p].group = proc[p].group
              /\ proc'[p].started = proc[p].started
              /\ proc'[p].name = proc[p].name
<1>1. \A p \in AnyPid : proc'[p] = IF p \in S THEN Gone
                ELSE IF proc[p].parent \in S THEN [proc[p] EXCEPT !.parent = 1]
                ELSE proc[p]
  BY DEF Exits
<1>2. Gone.parent = 0 /\ 0 \notin S
  BY TeardownAssumption DEF Gone
<1>3. ASSUME NEW p \in AnyPid, p \notin S, proc[p] # Gone
      PROVE  /\ proc'[p] # Gone
             /\ proc'[p].parent =
                   (IF proc[p].parent \in S THEN 1 ELSE proc[p].parent)
             /\ proc'[p].group = proc[p].group
             /\ proc'[p].started = proc[p].started
             /\ proc'[p].name = proc[p].name
  <2>1. proc[p] \in Process
    BY <1>3 DEF TypeOK
  <2>2. CASE proc[p].parent \in S
    <3>1. proc'[p] = [proc[p] EXCEPT !.parent = 1]
      BY <1>1, <1>3, <2>2
    <3>2. proc'[p].parent = 1
      BY <2>1, <3>1 DEF Process
    <3> QED BY <1>2, <2>1, <2>2, <3>1, <3>2 DEF Process
  <2>3. CASE proc[p].parent \notin S
    BY <1>1, <1>3, <2>3
  <2> QED BY <2>2, <2>3
<1>4. ASSUME NEW p \in AnyPid, proc[p] = Gone PROVE proc'[p] = Gone
  BY <1>1, <1>2, <1>4
<1>5. Alive(proc)' = Alive(proc) \ S
  BY <1>1, <1>3, <1>4 DEF Alive
<1> QED BY <1>3, <1>5 DEF Alive

\* An exit keeps the invariant.
LEMMA ExitsOwn ==
  ASSUME TypeOK, OwnInvariant, NEW S \in SUBSET Pid, Exits(S),
         clock' = clock, graces' \subseteq graces
  PROVE  OwnInvariant'
<1>1. /\ Alive(proc)' = Alive(proc) \ S /\ foreign' = foreign \ S
      /\ stopped' = stopped \ S
      /\ \A p \in Alive(proc)' :
           /\ proc'[p].parent =
                (IF proc[p].parent \in S THEN 1 ELSE proc[p].parent)
           /\ proc'[p].group = proc[p].group
           /\ proc'[p].started = proc[p].started
  BY ExitsTable DEF Exits
<1>2. Session \cap S = {} /\ 1 \notin S
  BY TeardownAssumption DEF Session
<1>3. Ours(proc, foreign)' = Ours(proc, foreign) \ S
  BY <1>1 DEF Ours
<1>4. TableOf(proc, foreign)'
  <2>1. (Session \cup foreign \subseteq Alive(proc))'
    BY <1>1, <1>2 DEF OwnInvariant, TableOf
  <2>2. (\A p \in Alive(proc) : proc[p].parent \in Alive(proc) \cup {1})'
    BY <1>1 DEF OwnInvariant, TableOf
  <2>3. (\A p \in foreign : proc[p].parent \in foreign \cup {1})'
    BY <1>1, <2>1 DEF OwnInvariant, TableOf
  <2>4. (\A p \in Session : proc[p].parent \in foreign \cup Session \cup {1})'
    BY <1>1, <1>2, <2>1 DEF OwnInvariant, TableOf
  <2>5. (\A p \in Ours(proc, foreign), q \in Alive(proc) :
          proc[p].group = p /\ proc[q].group = p => q \in Ours(proc, foreign))'
    <3> SUFFICES ASSUME NEW p \in Ours(proc, foreign)', NEW q \in Alive(proc)',
                        proc'[p].group = p, proc'[q].group = p
                 PROVE  q \in Ours(proc, foreign)'
      OBVIOUS
    <3>1. p \in Ours(proc, foreign) /\ p \in Alive(proc)'
      BY <1>1, <1>3 DEF Ours
    <3>2. proc[p].group = p /\ proc[q].group = p /\ q \in Alive(proc) \ S
      BY <1>1, <3>1
    <3>3. q \in Ours(proc, foreign)
      BY <3>1, <3>2 DEF OwnInvariant, TableOf
    <3> QED BY <1>3, <3>2, <3>3
  <2> QED BY <2>1, <2>2, <2>3, <2>4, <2>5 DEF TableOf
<1>5. (\E order \in [AnyPid -> Nat] : Ordered(proc, order))'
  <2>1. PICK order \in [AnyPid -> Nat] : Ordered(proc, order)
    BY DEF OwnInvariant
  <2>2. ASSUME NEW p \in Alive(proc)', NEW q \in Alive(proc)',
               \/ proc'[p].parent = q
               \/ proc'[p].group = q /\ proc'[q].group = q /\ p # q
        PROVE  order[q] < order[p]
    <3>1. p \in Alive(proc) /\ q \in Alive(proc) /\ q # 1
      BY <1>1, NoneAboveInit DEF Alive
    <3>2. \/ proc[p].parent = q
          \/ proc[p].group = q /\ proc[q].group = q /\ p # q
      BY <1>1, <2>2, <3>1
    <3> QED BY <2>1, <3>1, <3>2 DEF Ordered
  <2>3. Ordered(proc', order)
    BY <2>2 DEF Ordered, Alive
  <2> QED BY <2>3
<1>6. (\A p \in Alive(proc) : proc[p].started < clock)'
  BY <1>1 DEF OwnInvariant
<1>7. \A d : Reached(proc, d)' \subseteq Reached(proc, d) \ S
  BY <1>1 DEF Reached, IdentityOf
<1>8. (\A d \in graces : Reached(proc, d) \subseteq Ours(proc, foreign))'
  BY <1>3, <1>7 DEF OwnInvariant
<1>9. (\A d \in graces : \A i \in d : i.started < clock)'
  BY DEF OwnInvariant
<1>10. (stopped \subseteq Ours(proc, foreign))'
  BY <1>1, <1>3 DEF OwnInvariant
<1> QED BY <1>4, <1>5, <1>6, <1>8, <1>9, <1>10 DEF OwnInvariant

\* A start keeps the invariant: what it adds is younger than every process and
\* every identity still to be signalled.
LEMMA ForkOwn ==
  ASSUME TypeOK, OwnInvariant, NEW p \in AnyPid, NEW q \in Pid,
         NEW name \in Launched, NEW leads \in BOOLEAN, Fork(p, q, name, leads)
  PROVE  OwnInvariant'
<1> DEFINE child == [parent |-> p, name |-> name, started |-> clock,
                     group |-> IF leads THEN q ELSE proc[p].group]
<1>1. /\ p \in Alive(proc) /\ q \notin Alive(proc) /\ q # p
      /\ q \in AnyPid /\ q \notin Session /\ q # 1
  BY TeardownAssumption DEF Fork, Alive, AnyPid, Session
<1>2. /\ proc'[q] = child
      /\ \A r \in AnyPid : r # q => proc'[r] = proc[r] /\ proc[r].group # q
  BY <1>1 DEF Fork, TypeOK
<1>3. child.parent = p /\ child.started = clock
      /\ child.group = (IF leads THEN q ELSE proc[p].group)
  OBVIOUS
<1>4. child # Gone
  BY <1>1, NoneAboveInit DEF Gone, Alive
<1> HIDE DEF child
<1>5. Alive(proc)' = Alive(proc) \cup {q}
  BY <1>1, <1>2, <1>4 DEF Alive
<1>6. \A r \in Alive(proc) : r # q /\ proc'[r] = proc[r] /\ proc[r].group # q
  BY <1>1, <1>2 DEF Alive
<1>7. q \notin foreign
      /\ foreign' = (IF p \in foreign THEN foreign \cup {q} ELSE foreign)
      /\ stopped' = stopped /\ graces' = graces /\ clock' = clock + 1
      /\ clock \in Nat
  BY <1>1 DEF Fork, OwnInvariant, TableOf, TypeOK
<1>8. /\ Ours(proc, foreign) \subseteq Ours(proc, foreign)'
      /\ p \notin foreign => q \in Ours(proc, foreign)'
      /\ \A r \in Ours(proc, foreign)' : r = q \/ r \in Ours(proc, foreign)
      /\ q \in Ours(proc, foreign)' => p \notin foreign
  BY <1>1, <1>5, <1>7 DEF Ours
<1>9. TableOf(proc, foreign)'
  <2>1. (Session \cup foreign \subseteq Alive(proc))'
    BY <1>5, <1>7 DEF OwnInvariant, TableOf
  <2>2. (\A r \in Alive(proc) : proc[r].parent \in Alive(proc) \cup {1})'
    BY <1>1, <1>2, <1>3, <1>5, <1>6 DEF OwnInvariant, TableOf
  <2>3. (\A r \in foreign : proc[r].parent \in foreign \cup {1})'
    <3> SUFFICES ASSUME NEW r \in foreign'
                 PROVE  proc'[r].parent \in foreign' \cup {1}
      OBVIOUS
    <3>1. CASE r = q
      BY <1>2, <1>3, <1>7, <3>1
    <3>2. CASE r # q
      <4>1. r \in foreign /\ r \in Alive(proc)
        BY <1>7, <3>2 DEF OwnInvariant, TableOf
      <4> QED BY <1>6, <1>7, <4>1 DEF OwnInvariant, TableOf
    <3> QED BY <3>1, <3>2
  <2>4. (\A r \in Session : proc[r].parent \in foreign \cup Session \cup {1})'
    <3> SUFFICES ASSUME NEW r \in Session
                 PROVE  proc'[r].parent \in foreign' \cup Session \cup {1}
      OBVIOUS
    <3>1. r \in Alive(proc) /\ proc[r].parent \in foreign \cup Session \cup {1}
      BY DEF OwnInvariant, TableOf
    <3> QED BY <1>6, <1>7, <3>1
  <2>5. (\A r \in Ours(proc, foreign), s \in Alive(proc) :
          proc[r].group = r /\ proc[s].group = r => s \in Ours(proc, foreign))'
    <3> SUFFICES ASSUME NEW r \in Ours(proc, foreign)', NEW s \in Alive(proc)',
                        proc'[r].group = r, proc'[s].group = r
                 PROVE  s \in Ours(proc, foreign)'
      OBVIOUS
    <3>1. CASE r = q
      <4>1. s = q
        BY <1>5, <1>6, <3>1
      <4> QED BY <3>1, <4>1
    <3>2. CASE r # q
      <4>1. /\ r \in Ours(proc, foreign) /\ r \in Alive(proc)
            /\ proc[r].group = r
        BY <1>6, <1>8, <3>2 DEF Ours
      <4>2. CASE s # q
        <5>1. s \in Alive(proc) /\ proc[s].group = r
          BY <1>5, <1>6, <4>2
        <5> QED BY <1>8, <4>1, <5>1 DEF OwnInvariant, TableOf
      <4>3. CASE s = q
        <5>1. proc[p].group = r
          BY <1>2, <1>3, <3>2, <4>3
        <5>2. p \in Ours(proc, foreign)
          BY <1>1, <4>1, <5>1 DEF OwnInvariant, TableOf
        <5> QED BY <1>8, <4>3, <5>2 DEF Ours
      <4> QED BY <4>2, <4>3
    <3> QED BY <3>1, <3>2
  <2> QED BY <2>1, <2>2, <2>3, <2>4, <2>5 DEF TableOf
<1>10. (\E order \in [AnyPid -> Nat] : Ordered(proc, order))'
  <2>1. PICK order \in [AnyPid -> Nat] : Ordered(proc, order)
    BY DEF OwnInvariant
  <2> DEFINE later == [order EXCEPT ![q] = order[p] + 1]
  <2>2. /\ later \in [AnyPid -> Nat] /\ later[q] = order[p] + 1
        /\ \A r \in Alive(proc) : later[r] = order[r] /\ order[r] \in Nat
    BY <1>1, AliveType
  <2> HIDE DEF later
  <2>3. ASSUME NEW r \in Alive(proc)', NEW s \in Alive(proc)',
               \/ proc'[r].parent = s
               \/ proc'[r].group = s /\ proc'[s].group = s /\ r # s
        PROVE  later[s] < later[r]
    <3>1. s # q
      <4>1. CASE r = q
        BY <1>1, <1>2, <1>3, <2>3, <4>1
      <4>2. CASE r # q
        <5>1. r \in Alive(proc) /\ proc'[r] = proc[r] /\ proc[r].group # q
          BY <1>5, <1>6, <4>2
        <5>2. proc[r].parent # q
          BY <1>1, <5>1 DEF OwnInvariant, TableOf
        <5> QED BY <2>3, <5>1, <5>2
      <4> QED BY <4>1, <4>2
    <3>2. s \in Alive(proc) /\ proc'[s] = proc[s]
      BY <1>5, <1>6, <3>1
    <3>3. CASE r # q
      <4>1. r \in Alive(proc) /\ proc'[r] = proc[r]
        BY <1>5, <1>6, <3>3
      <4>2. order[s] < order[r]
        BY <2>1, <2>3, <3>2, <4>1 DEF Ordered
      <4> QED BY <2>2, <3>2, <4>1, <4>2
    <3>4. CASE r = q
      <4>1. s = p \/ (proc[p].group = s /\ proc[s].group = s)
        BY <1>2, <1>3, <2>3, <3>1, <3>2, <3>4
      <4>2. s = p \/ order[s] < order[p]
        BY <1>1, <2>1, <3>2, <4>1 DEF Ordered
      <4> QED BY <1>1, <2>2, <3>2, <3>4, <4>2
    <3> QED BY <3>3, <3>4
  <2>4. Ordered(proc', later)
    BY <2>3 DEF Ordered, Alive
  <2> QED BY <2>2, <2>4
<1>11. (\A r \in Alive(proc) : proc[r].started < clock)'
  <2> SUFFICES ASSUME NEW r \in Alive(proc)' PROVE proc'[r].started < clock'
    OBVIOUS
  <2>1. CASE r = q
    BY <1>2, <1>3, <1>7, <2>1
  <2>2. CASE r # q
    <3>1. /\ r \in Alive(proc) /\ proc'[r] = proc[r]
          /\ proc[r].started < clock
      BY <1>5, <1>6, <2>2 DEF OwnInvariant
    <3>2. proc[r].started \in Nat
      BY <3>1, TeardownAssumption DEF TypeOK, Alive, Process
    <3> QED BY <1>7, <3>1, <3>2
  <2> QED BY <2>1, <2>2
<1>12. (\A d \in graces : \A i \in d : i.started < clock)'
  <2> SUFFICES ASSUME NEW d \in graces, NEW i \in d PROVE i.started < clock + 1
    BY <1>7
  <2>1. i.started < clock /\ i.started \in Nat
    BY TeardownAssumption DEF OwnInvariant, TypeOK, Identity
  <2> QED BY <1>7, <2>1
<1>13. (\A d \in graces : Reached(proc, d) \subseteq Ours(proc, foreign))'
  <2> SUFFICES ASSUME NEW d \in graces, NEW r \in Reached(proc, d)'
               PROVE  r \in Ours(proc, foreign)'
    BY <1>7
  <2>1. r \in Alive(proc)' /\ [pid |-> r, started |-> proc'[r].started] \in d
    BY DEF Reached, IdentityOf
  <2>2. CASE r = q
    <3>1. proc'[r].started < clock
      BY <2>1 DEF OwnInvariant
    <3> QED BY <1>2, <1>3, <1>7, <2>2, <3>1
  <2>3. CASE r # q
    <3>1. r \in Alive(proc) /\ proc'[r] = proc[r]
      BY <1>5, <1>6, <2>1, <2>3
    <3>2. r \in Reached(proc, d)
      BY <2>1, <3>1 DEF Reached, IdentityOf
    <3> QED BY <1>8, <3>2 DEF OwnInvariant
  <2> QED BY <2>2, <2>3
<1> QED BY <1>7, <1>8, <1>9, <1>10, <1>11, <1>12, <1>13 DEF OwnInvariant

\* What may be running at first is such a table.
LEMMA OwnInit == Init => OwnInvariant
<1> SUFFICES ASSUME Init PROVE OwnInvariant
  OBVIOUS
<1>1. PICK start \in InitialTables :
        proc = start.proc /\ foreign = start.foreign /\ clock = start.clock
  BY DEF Init
<1>2. PICK order \in [AnyPid -> 0..Cardinality(AnyPid)] : Ordered(proc, order)
  BY <1>1, TableAssumption
<1>3. order \in [AnyPid -> Nat]
  OBVIOUS
<1>4. TableOf(proc, foreign) /\ \A p \in Alive(proc) : proc[p].started < clock
  BY <1>1, TableAssumption
<1> QED BY <1>2, <1>3, <1>4 DEF Init, OwnInvariant

\* A grace ends with the exit of processes that are ours.
LEMMA GraceIsOurs ==
  ASSUME TypeOK, OwnInvariant, NEW doomed \in graces
  PROVE  Signalled(doomed) \subseteq Ours(proc, foreign)
         /\ Signalled(doomed) \in SUBSET Pid
BY DEF OwnInvariant, Signalled, Ours, Alive, AnyPid

\* Every step keeps the invariant.
LEMMA OwnStep ==
  ASSUME TypeOK, OwnInvariant, [Next]_vars PROVE OwnInvariant'
<1>1. stopped \subseteq Ours(proc, foreign)
  BY DEF OwnInvariant
<1>2. CASE Pass
  BY <1>2, OwnFrame, RefreshStopsOurs DEF Pass
<1>3. CASE ShellGone
  <2>1. CASE playing = {}
    BY <1>1, <1>3, <2>1, OwnFrame DEF ShellGone
  <2>2. CASE playing # {}
    BY <1>3, <2>2, OwnFrame, RefreshStopsOurs DEF ShellGone
  <2> QED BY <2>1, <2>2
<1>4. CASE SessionEnds
  BY <1>1, <1>4, OwnFrame DEF SessionEnds
<1>5. ASSUME NEW name \in Spoken, NEW on \in BOOLEAN,
             KeepApplicationAwake(name, on)
      PROVE  OwnInvariant'
  BY <1>5, OwnFrame, RefreshStopsOurs DEF KeepApplicationAwake
<1>6. ASSUME NEW name \in Spoken, NEW on \in BOOLEAN, KeepOutOfSight(name, on)
      PROVE  OwnInvariant'
  BY <1>1, <1>6, OwnFrame DEF KeepOutOfSight
<1>7. ASSUME NEW p \in Pid, KillWindow(p) PROVE OwnInvariant'
  <2>1. /\ proc' = proc /\ foreign' = foreign /\ clock' = clock
        /\ stopped' \subseteq stopped
        /\ graces' \ graces \subseteq {Ending(proc, p)}
    BY <1>7 DEF KillWindow, WakeThisApplication
  <2>2. /\ Reached(proc, Ending(proc, p)) \subseteq Ours(proc, foreign)
        /\ \A i \in Ending(proc, p) : i.started < clock
    BY DoomedAreOurs
  <2> QED BY <1>1, <2>1, <2>2, OwnFrame
<1>8. ASSUME NEW p \in Pid, RequestWindowClose(p) PROVE OwnInvariant'
  BY <1>1, <1>8, OwnFrame DEF RequestWindowClose, WakeThisApplication
<1>9. ASSUME NEW p \in Pid, Exit(p) PROVE OwnInvariant'
  <2>1. Exits({p}) /\ clock' = clock /\ graces' = graces
    BY <1>9 DEF Exit
  <2>2. {p} \in SUBSET Pid
    OBVIOUS
  <2> QED BY <2>1, <2>2, ExitsOwn
<1>10. ASSUME NEW doomed \in graces, GraceOver(doomed) PROVE OwnInvariant'
  <2>1. Exits(Signalled(doomed)) /\ clock' = clock /\ graces' \subseteq graces
    BY <1>10 DEF GraceOver
  <2> QED BY <2>1, GraceIsOurs, ExitsOwn
<1>11. ASSUME NEW p \in AnyPid, NEW q \in Pid, NEW name \in Launched,
              NEW leads \in BOOLEAN, Fork(p, q, name, leads)
       PROVE  OwnInvariant'
  BY <1>11, ForkOwn
<1>12. ASSUME NEW p \in Pid, NEW place \in Placement, MoveWindow(p, place)
       PROVE  OwnInvariant'
  BY <1>1, <1>12, OwnFrame DEF MoveWindow
<1>13. CASE UNCHANGED vars
  BY <1>1, <1>13, OwnFrame DEF vars
<1> QED
  BY <1>2, <1>3, <1>4, <1>5, <1>6, <1>7, <1>8, <1>9, <1>10, <1>11, <1>12, <1>13
     DEF Next

\* The invariants together.
LEMMA AllInit == Init => TypeOK /\ OwnInvariant
BY TypeInit, OwnInit

LEMMA AllStep ==
  ASSUME TypeOK, OwnInvariant, [Next]_vars PROVE (TypeOK /\ OwnInvariant)'
BY TypeStep, OwnStep

\* Only the end of a grace changes both the graces and the table.
LEMMA GraceStep ==
  ASSUME [Next]_vars, graces' # graces, proc' # proc
  PROVE  \E doomed \in graces : GraceOver(doomed)
BY DEF Next, vars, sleepers, Pass, ShellGone, SessionEnds, KeepApplicationAwake,
       KeepOutOfSight, KillWindow, RequestWindowClose, Exit, Fork, MoveWindow

\* No step stops or kills the shell, the compositor or a process of another
\* login.
LEMMA OursStep ==
  ASSUME TypeOK, OwnInvariant, [Next]_vars
  PROVE  /\ stopped' \cap (foreign' \cup Session) = {}
         /\ graces' # graces /\ proc' # proc
              => foreign' = foreign /\ \A p \in Session : proc'[p] # Gone
<1>1. OwnInvariant'
  BY OwnStep
<1>2. stopped' \cap (foreign' \cup Session) = {}
  BY <1>1 DEF OwnInvariant, Ours
<1>3. ASSUME graces' # graces, proc' # proc
      PROVE  foreign' = foreign
  <2>1. PICK doomed \in graces : GraceOver(doomed)
    BY <1>3, GraceStep
  <2>2. foreign' = foreign \ Signalled(doomed)
    BY <2>1 DEF GraceOver, Exits
  <2> QED BY <2>2, GraceIsOurs DEF Ours
<1>4. \A p \in Session : proc'[p] # Gone
  BY <1>1 DEF OwnInvariant, TableOf, Alive
<1> QED BY <1>2, <1>3, <1>4

\* Stopping an application, and killing what survived a Close, reach only
\* processes this session started: never the shell, the compositor or another
\* login, whatever leads there (teardown.rs:173-194).
THEOREM SignalsOurOwn == Spec => OnlyOurOwn
<1>1. Init => TypeOK /\ OwnInvariant BY AllInit
<1>2. (TypeOK /\ OwnInvariant) /\ [Next]_vars => (TypeOK /\ OwnInvariant)'
  BY AllStep
<1>3. (TypeOK /\ OwnInvariant) /\ [Next]_vars
        => [/\ stopped' \cap (foreign' \cup Session) = {}
            /\ graces' # graces /\ proc' # proc
                 => foreign' = foreign /\ \A p \in Session : proc'[p] # Gone]_vars
  BY OursStep
<1> QED BY <1>1, <1>2, <1>3, PTL DEF Spec, OnlyOurOwn

\* Ending or stopping a game leaves the launcher above it alone
\* (teardown.rs:212-219, :228-232).
THEOREM SupervisorSpared == Spec => []SupervisorOutlivesItsApplications
<1>1. Init => TypeOK /\ OwnInvariant BY AllInit
<1>2. (TypeOK /\ OwnInvariant) /\ [Next]_vars => (TypeOK /\ OwnInvariant)'
  BY AllStep
<1>3. TypeOK /\ OwnInvariant => SupervisorOutlivesItsApplications
  <2> SUFFICES ASSUME TypeOK, OwnInvariant,
                      NEW p \in Alive(proc) \cap Pid,
                      proc[p].name \notin InterfaceName,
                      NEW d \in Sleeping(proc, p) \cup Ending(proc, p),
                      proc[d.pid].name \in SupervisorName,
                      NEW n \in 1..Cardinality(AnyPid)
               PROVE  Above(proc, p)[n] # d.pid
    BY DEF SupervisorOutlivesItsApplications
  <2>1. /\ InsideTheSession(proc, p)
        /\ d \in Identities(proc, Application(proc, ApplicationRoot(proc, p)))
    BY DEF Sleeping, Ending
  <2>2. d.pid \in Application(proc, ApplicationRoot(proc, p))
    BY <2>1 DEF Identities, IdentityOf
  <2>3. PICK order \in [AnyPid -> Nat] : Ordered(proc, order)
    BY DEF OwnInvariant
  <2>4. TableOf(proc, foreign) /\ foreign \in SUBSET Pid /\ n \in Nat /\ n > 0
    BY DEF OwnInvariant, TypeOK
  <2> QED BY <2>1, <2>2, <2>3, <2>4, SupervisorIsAbove
<1> QED BY <1>1, <1>2, <1>3, PTL DEF Spec

-----------------------------------------------------------------------------
(* Whom a grace reaches, and for what window a process is stopped *)

\* The end of a grace takes only the processes it was given, as they were.
LEMMA RecycledStep ==
  ASSUME TypeOK, [Next]_vars, NEW d \in graces \ graces', NEW p \in Pid,
         proc'[p] = Gone, proc[p] # Gone
  PROVE  IdentityOf(proc, p) \in d
<1>1. PICK doomed \in graces : GraceOver(doomed)
  BY GraceStep
<1>2. doomed = d
  BY <1>1 DEF GraceOver
<1>3. Exits(Signalled(d)) /\ p \in AnyPid
  BY <1>1, <1>2 DEF GraceOver, AnyPid
<1>4. p \in Signalled(d)
  <2> SUFFICES ASSUME p \notin Signalled(d) PROVE FALSE
    OBVIOUS
  <2>1. proc'[p] = IF proc[p].parent \in Signalled(d)
                   THEN [proc[p] EXCEPT !.parent = 1] ELSE proc[p]
    BY <1>3 DEF Exits
  <2>2. proc[p] \in Process /\ Gone.parent = 0
    BY <1>3 DEF TypeOK, Gone
  <2>3. proc'[p].parent # 0
    BY <2>1, <2>2, NoneAboveInit DEF Process
  <2> QED BY <2>2, <2>3
<1> QED BY <1>4, SignalledFacts

\* A number that was given out again since the grace began is left alone
\* (teardown.rs:394-399).
THEOREM RecycledLeft == Spec => RecycledIsLeftAlone
<1>1. Spec => []TypeOK
  BY TypeCorrect
<1>2. TypeOK /\ [Next]_vars
        => [\A d \in graces \ graces' : \A p \in Pid :
              proc'[p] = Gone /\ proc[p] # Gone => IdentityOf(proc, p) \in d]_vars
  BY RecycledStep
<1> QED BY <1>1, <1>2, PTL DEF Spec, RecycledIsLeftAlone

\* What a pass stops it stops for a hidden window that was not closed, and
\* writes down for it.
LEMMA RefreshStopsForWindow ==
  ASSUME TypeOK, NEW music, RefreshApplicationSleep(music),
         NEW p \in stopped' \ stopped
  PROVE  \E k \in Hidden(music) \ ending :
            /\ IdentityOf(proc, p) \in asleep'[k]
            /\ {d.pid : d \in asleep'[k]} \cap Shown = {}
<1>1. PICK k \in Fresh(music) :
        Stoppable(k) /\ p \in Signalled(Sleeping(proc, k))
  BY DEF RefreshApplicationSleep
<1>2. k \in Hidden(music) \ ending /\ k \in Pid
  BY DEF Fresh, Hidden
<1>3. asleep'[k] = Sleeping(proc, k)
  BY <1>1, <1>2 DEF RefreshApplicationSleep
<1> QED BY <1>1, <1>2, <1>3, SignalledFacts DEF Stoppable

\* Only a pass stops anything.
LEMMA StopStep ==
  ASSUME TypeOK, [Next]_vars, NEW p \in stopped' \ stopped
  PROVE  \E k \in Hidden(playing') \ ending :
            /\ IdentityOf(proc, p) \in asleep'[k]
            /\ {d.pid : d \in asleep'[k]} \cap Shown = {}
<1> USE DEF sleepers
<1>1. CASE Pass
  <2>1. RefreshApplicationSleep(playing) /\ playing' = playing
    BY <1>1 DEF Pass
  <2> QED BY <2>1, RefreshStopsForWindow
<1>2. CASE ShellGone
  <2>1. RefreshApplicationSleep({}) /\ playing' = {}
    BY <1>2 DEF ShellGone
  <2> QED BY <2>1, RefreshStopsForWindow
<1>3. ASSUME NEW name \in Spoken, NEW on \in BOOLEAN,
             KeepApplicationAwake(name, on)
      PROVE  \E k \in Hidden(playing') \ ending :
                /\ IdentityOf(proc, p) \in asleep'[k]
                /\ {d.pid : d \in asleep'[k]} \cap Shown = {}
  BY <1>3, RefreshStopsForWindow DEF KeepApplicationAwake
<1> QED
  BY <1>1, <1>2, <1>3
     DEF Next, vars, SessionEnds, KeepOutOfSight, KillWindow,
         RequestWindowClose, WakeThisApplication, Exit, GraceOver, Exits, Fork,
         MoveWindow

\* An application is stopped for a window of it that is hidden, and only when
\* nothing of its tree is on screen (sleep.rs:35-56, :89-95).
THEOREM StoppedWhenHidden == Spec => StoppedForAHiddenWindow
<1>1. Spec => []TypeOK
  BY TypeCorrect
<1>2. TypeOK /\ [Next]_vars
        => [\A p \in stopped' \ stopped : \E k \in Hidden(playing') \ ending :
              /\ IdentityOf(proc, p) \in asleep'[k]
              /\ {d.pid : d \in asleep'[k]} \cap Shown = {}]_vars
  BY StopStep
<1> QED BY <1>1, <1>2, PTL DEF Spec, StoppedForAHiddenWindow
=============================================================================
