------------------------------ MODULE Teardown ------------------------------
(***************************************************************************)
(* What one application is: lxb-compositor/src/teardown.rs.                *)
(*                                                                         *)
(* A table t stands for one reading of /proc: it gives each process number *)
(* either Gone or the parent, the process group, the name and the start    *)
(* time of the process that has it.  Everything here is a pure question    *)
(* asked of such a table.                                                  *)
(***************************************************************************)
EXTENDS Naturals, FiniteSets

CONSTANTS
  Pid,          \* the process numbers of applications and of strangers
  Shell,        \* the desktop shell, which launches applications
  Compositor,   \* the compositor itself
  Name,         \* what processes are called
  SupervisorName,   \* processes of an application that runs applications
  InterfaceName,    \* processes whose windows are that application's own
  RecipeName,       \* applications that are not ended by signals
  MaxStart,     \* start times run from 0 to MaxStart
  MaxDepth      \* MAX_DEPTH: how far a walk up the tree goes

ASSUME TeardownAssumption ==
  /\ Pid \subseteq Nat \ {0, 1}
  /\ Shell \in Nat \ {0, 1} /\ Compositor \in Nat \ {0, 1}
  /\ Shell # Compositor /\ {Shell, Compositor} \cap Pid = {}
  /\ MaxStart \in Nat /\ MaxDepth \in Nat \ {0}
  /\ SupervisorName \subseteq Name /\ InterfaceName \subseteq Name
  /\ RecipeName \subseteq Name

Session == {Shell, Compositor}
AnyPid == Pid \cup Session
Gone == [parent |-> 0, group |-> 0, name |-> "gone", started |-> 0]

Process == [parent : AnyPid \cup {1}, group : AnyPid,
            name : Name, started : 0..MaxStart]
Identity == [pid : AnyPid, started : 0..MaxStart]

Alive(t) == {p \in AnyPid : t[p] # Gone}
IdentityOf(t, p) == [pid |-> p, started |-> t[p].started]
StopsAt(p) == p <= 1 \/ p \in Session

\* The n-th process above p, 0 once the table knows no further.
Above(t, p) ==
  LET up[n \in Nat] ==
        IF n = 0 THEN p
        ELSE IF up[n - 1] \in Alive(t) THEN t[up[n - 1]].parent ELSE 0
  IN  up

\* Mutant: any process may be signalled.
InsideAnything(t, p) == p \in Alive(t)

\* The walk up from p reaches the shell or the compositor before init.
InsideTheSession(t, p) ==
  \E n \in 0..(MaxDepth - 1) :
     /\ Above(t, p)[n] \in Session
     /\ \A k \in 0..(n - 1) : Above(t, p)[k] \in Alive(t)

\* Mutant: the walk does not stop below a supervisor.
IsTopOfTheLaunch(t, p, q) ==
  t[q].parent \notin Alive(t) \/ StopsAt(t[q].parent)

\* Whether the walk that looks for the application of p ends at q.
IsTop(t, p, q) ==
  LET parent == t[q].parent IN
  \/ parent \notin Alive(t)
  \/ StopsAt(parent)
  \/ t[parent].name \in SupervisorName /\ t[p].name \notin InterfaceName

ApplicationRoot(t, p) ==
  LET up == Above(t, p)
      n  == CHOOSE i \in 0..MaxDepth :
               /\ i = MaxDepth \/ IsTop(t, p, up[i])
               /\ \A k \in 0..(i - 1) : ~IsTop(t, p, up[k])
  IN  up[n]

\* The root, all that descends from it, and the rest of its process group
\* when it leads one.
Application(t, root) ==
  {p \in Alive(t) :
     \/ \E n \in 0..Cardinality(AnyPid) : Above(t, p)[n] = root
     \/ t[root].group = root /\ t[p].group = root}

Identities(t, S) == {IdentityOf(t, p) : p \in S}

\* The processes to stop for the window of p, or {} when it has to go on.
Sleeping(t, p) ==
  IF \/ p \notin Alive(t)
     \/ t[p].name \in RecipeName
     \/ t[p].name \in InterfaceName
     \/ ~InsideTheSession(t, p)
     \/ StopsAt(ApplicationRoot(t, p))
  THEN {}
  ELSE Identities(t, Application(t, ApplicationRoot(t, p)))

\* The processes Close signals for the window of p, or {} when it only asks.
Ending(t, p) ==
  IF \/ p \notin Alive(t)
     \/ t[p].name \in RecipeName
     \/ ~InsideTheSession(t, p)
     \/ StopsAt(ApplicationRoot(t, p))
  THEN {}
  ELSE Identities(t, Application(t, ApplicationRoot(t, p)))

\* Mutant: the number alone is the process.
ReachedByNumber(t, doomed) == {p \in Alive(t) : \E d \in doomed : d.pid = p}

\* The pids a signal reaches: those that are still the process that was meant.
Reached(t, doomed) ==
  {p \in Alive(t) : IdentityOf(t, p) \in doomed}
=============================================================================
