---------------------------- MODULE SteamTurns ----------------------------
(* The turns that the sessions of one user take at Valve's client: a mutex   *)
(* inside the process and a file lock across processes for each of three     *)
(* things there is one of (lxb-steam, turns.rs), and the flows that hold     *)
(* them: a wake and a first setup with the debugging marker they put up and  *)
(* take back (client.rs, setup.rs, webui.rs), the install wizard, the two    *)
(* writers of the account list, and the tidying of a session that starts.    *)
EXTENDS Naturals, FiniteSets

CONSTANTS
  Sessions,    \* processes that use this crate: shells, probes
  Slots,       \* names of threads within one of them
  First,       \* the slot that Steam::start runs on
  Thread,      \* the threads there are: pairs of session and slot
  None,        \* nobody, nothing
  Somebody,    \* whoever made a marker that is not this crate's
  Machine,     \* what the state directory and its file locks are worth
  Asks,        \* the flows that are asked for in this instance
  Hands,       \* whether people and Valve's client touch marker and account list too
  MaxAsks,     \* bound on the flows asked for
  MaxLives     \* bound on the processes of one session, one after the other

What == {"TheClient", "TheWizard", "TheAccountList"}
Flows == {"online", "offline", "setup", "wizard", "signout", "giveback", "tidy"}
Wakes == {"online", "offline", "setup"}
Machines == {"locks",      \* file locks exclude
             "pretends",   \* flock succeeds and excludes nobody
             "refuses",    \* the files can be made and flock fails
             "readonly"}   \* nothing can be written under the state directory

ASSUME MachineAssumption == Machine \in Machines
ASSUME ThreadAssumption ==
  Sessions \X {First} \subseteq Thread /\ Thread \subseteq Sessions \X Slots
ASSUME AsksAssumption == Asks \subseteq Flows
ASSUME BoundsAssumption == MaxAsks \in Nat /\ MaxLives \in Nat \ {0}
ASSUME NoneAssumption ==
  /\ None \notin Slots /\ None \notin Thread
  /\ None \notin [session : Sessions, life : 1 .. MaxLives]
  /\ None \notin [by : Thread, life : 1 .. MaxLives]
  /\ Somebody \notin [by : Thread, life : 1 .. MaxLives]
  /\ Somebody # None

SessionOf(t) == t[1]
Maker == [by : Thread, life : 1 .. MaxLives]
Lease == [session : Sessions, life : 1 .. MaxLives]
AccountList == [offline : BOOLEAN, remembered : BOOLEAN]

VARIABLES
  pc,       \* where each thread is
  flow,     \* what it is doing
  goal,     \* the turn it waits for, holds last or gives back
  exposed,  \* a wake's `ours`: it made the marker, found one, or needed none
  copy,     \* the account list as a writer of it has read it
  local,    \* the mutex of each process and thing: the slot that holds it
  file,     \* the file lock of each thing: the thread that holds it
  life,     \* which process of the session this is
  marker,   \* the debugging marker: absent, somebody's, or its maker
  note,     \* steam-debugging-marker is there
  lease,    \* steam-debugging-marker.lease
  client,   \* Valve's client
  list,     \* config/loginusers.vdf
  claimed,  \* steam-offline-was-ours
  panel,    \* the diagnostics panel offers to close the interface
  asked     \* flows asked for, bounded by MaxAsks

locks == <<local, file>>
disk == <<marker, note, lease>>
account == <<list, claimed>>
vars == <<pc, flow, goal, exposed, copy, local, file, life, marker, note, lease,
          client, list, claimed, panel, asked>>

Excludes == Machine = "locks"
Opens == Machine # "readonly"
Locks == Machine \in {"locks", "pretends"}

Init ==
  /\ pc = [t \in Thread |-> "idle"]
  /\ flow = [t \in Thread |-> "online"]
  /\ goal = [t \in Thread |-> "TheClient"]
  /\ exposed = [t \in Thread |-> "no"]
  /\ copy = [t \in Thread |-> [offline |-> FALSE, remembered |-> TRUE]]
  /\ local = [s \in Sessions |-> [w \in What |-> None]]
  /\ file = [w \in What |-> None]
  /\ life = [s \in Sessions |-> 1]
  /\ marker \in IF Hands THEN {None, Somebody} ELSE {None}
  /\ note = FALSE
  /\ lease = None
  /\ client = "none"
  /\ list = [offline |-> FALSE, remembered |-> TRUE]
  /\ claimed = FALSE
  /\ panel = FALSE
  /\ asked = 0

---------------------------------------------------------------------------
(* turns.rs                                                                *)

Goto(t, stage) == pc' = [pc EXCEPT ![t] = stage]

\* What a flow takes first, and where it goes once it has it.
FirstTurn(f) ==
  CASE f \in Wakes -> "TheClient"
    [] f = "wizard" -> "TheWizard"
    [] OTHER -> "TheAccountList"

Having(w) ==
  CASE w = "TheClient" -> "Decide"
    [] w = "TheWizard" -> "Drive"
    [] OTHER -> "Read"

\* A press, a background job or a start asks for a flow.
Ask(t) ==
  /\ pc[t] = "idle" /\ asked < MaxAsks
  /\ \E f \in Asks :
       /\ flow' = [flow EXCEPT ![t] = f]
       /\ goal' = [goal EXCEPT ![t] = IF f = "tidy" THEN "TheClient" ELSE FirstTurn(f)]
       /\ Goto(t, IF f = "tidy" THEN "Look" ELSE "Queue")
  /\ exposed' = [exposed EXCEPT ![t] = "no"]
  /\ asked' = asked + 1
  /\ UNCHANGED <<copy, locks, life, disk, client, account, panel>>

\* take: the mutex of this process first.
TakeLocal(t) ==
  /\ pc[t] = "Queue"
  /\ local[SessionOf(t)][goal[t]] = None
  /\ local' = [local EXCEPT ![SessionOf(t)][goal[t]] = t[2]]
  /\ Goto(t, "Open")
  /\ UNCHANGED <<flow, goal, exposed, copy, file, life, disk, client, account, panel, asked>>

\* Mutant: a turn that would have to wait goes on as if there were no lock.
OpensWithoutWaiting(t) ==
  /\ pc[t] = "Open"
  /\ file' = IF Excludes /\ file[goal[t]] = None
             THEN [file EXCEPT ![goal[t]] = t] ELSE file
  /\ Goto(t, Having(goal[t]))
  /\ UNCHANGED <<flow, goal, exposed, copy, local, life, disk, client, account, panel, asked>>

\* take: then the file, waiting for it where locks exclude. Without a lock the
\* turn is held by the mutex alone.
TakeFile(t) ==
  /\ pc[t] = "Open"
  /\ \/ /\ Excludes
        /\ file[goal[t]] = None
        /\ file' = [file EXCEPT ![goal[t]] = t]
     \/ /\ ~Excludes
        /\ UNCHANGED file
  /\ Goto(t, Having(goal[t]))
  /\ UNCHANGED <<flow, goal, exposed, copy, local, life, disk, client, account, panel, asked>>

\* A turn is dropped: the file first, then the mutex.
DropFile(t) ==
  /\ pc[t] = "Drop"
  /\ file' = IF file[goal[t]] = t THEN [file EXCEPT ![goal[t]] = None] ELSE file
  /\ Goto(t, "Unlock")
  /\ UNCHANGED <<flow, goal, exposed, copy, local, life, disk, client, account, panel, asked>>

\* Mutant: the end of the inner turn gives the outer one back with it.
DropsBoth(t) ==
  /\ pc[t] = "Unlock"
  /\ local' = [local EXCEPT ![SessionOf(t)] =
                 [w \in What |-> IF @[w] = t[2] THEN None ELSE @[w]]]
  /\ IF flow[t] \in Wakes /\ goal[t] = "TheAccountList"
     THEN goal' = [goal EXCEPT ![t] = "TheClient"] /\ Goto(t, "Act")
     ELSE UNCHANGED goal /\ Goto(t, "idle")
  /\ UNCHANGED <<flow, exposed, copy, file, life, disk, client, account, panel, asked>>

\* The account list's turn ends inside a wake that still holds the client's.
DropLocal(t) ==
  /\ pc[t] = "Unlock"
  /\ local' = [local EXCEPT ![SessionOf(t)][goal[t]] = None]
  /\ IF flow[t] \in Wakes /\ goal[t] = "TheAccountList"
     THEN goal' = [goal EXCEPT ![t] = "TheClient"] /\ Goto(t, "Act")
     ELSE UNCHANGED goal /\ Goto(t, "idle")
  /\ UNCHANGED <<flow, exposed, copy, file, life, disk, client, account, panel, asked>>

---------------------------------------------------------------------------
(* client.rs, setup.rs and webui.rs: a wake and its marker                 *)

\* Mutant: the account list is edited without its turn.
EditsUnguarded(t) ==
  /\ goal' = [goal EXCEPT ![t] = "TheAccountList"]
  /\ Goto(t, "Read")

ToTheList(t) ==
  /\ goal' = [goal EXCEPT ![t] = "TheAccountList"]
  /\ Goto(t, "Queue")

\* What the client and the account say decides: nothing to do, the account
\* list first, or on to the marker.
Decide(t) ==
  /\ pc[t] = "Decide"
  /\ \/ /\ client # "none" \/ flow[t] = "setup"      \* met, refused, installed meanwhile
        /\ UNCHANGED goal /\ Goto(t, "Drop")
     \/ /\ \/ flow[t] = "offline"                    \* ask_for
           \/ flow[t] = "online" /\ client = "none"  \* give_back
        /\ ToTheList(t)
     \/ /\ flow[t] = "setup" \/ client # "none"
        /\ UNCHANGED goal /\ Goto(t, "Act")
  /\ UNCHANGED <<flow, exposed, copy, locks, life, disk, client, account, panel, asked>>

\* A client that is not there, or not one to keep, is started behind a marker;
\* Offline Mode restarts one without; any other is used as it is.
Act(t) ==
  /\ pc[t] = "Act"
  /\ \/ Goto(t, "Expose")
     \/ flow[t] = "offline" /\ client # "none" /\ Goto(t, "Start")
     \/ flow[t] # "setup" /\ client # "none" /\ Goto(t, "Drop")
  /\ UNCHANGED <<flow, goal, exposed, copy, locks, life, disk, client, account, panel, asked>>

MadeBy(t) == [by |-> t, life |-> life[SessionOf(t)]]

\* Mutant: the file is looked for and then written, and called ours either way.
ExposesAnyway(t) ==
  /\ pc[t] = "Expose"
  /\ \/ /\ marker' = IF marker = None THEN MadeBy(t) ELSE marker
        /\ exposed' = [exposed EXCEPT ![t] = "made"]
        /\ Goto(t, "Lease")
     \/ /\ UNCHANGED <<marker, exposed>> /\ Goto(t, "Drop")
  /\ UNCHANGED <<flow, goal, copy, locks, life, note, lease, client, account, panel, asked>>

\* expose: made exclusively, or found, or not to be made.
Expose(t) ==
  /\ pc[t] = "Expose"
  /\ \/ /\ marker = None
        /\ marker' = MadeBy(t)
        /\ exposed' = [exposed EXCEPT ![t] = "made"]
        /\ Goto(t, "Lease")
     \/ /\ marker # None
        /\ exposed' = [exposed EXCEPT ![t] = "found"]
        /\ UNCHANGED marker /\ Goto(t, "Start")
     \/ UNCHANGED <<marker, exposed>> /\ Goto(t, "Drop")
  /\ UNCHANGED <<flow, goal, copy, locks, life, note, lease, client, account, panel, asked>>

\* note: whose it is, and then that it is ours.
WriteLease(t) ==
  /\ pc[t] = "Lease"
  /\ lease' = IF Opens THEN [session |-> SessionOf(t), life |-> life[SessionOf(t)]] ELSE lease
  /\ Goto(t, "Note")
  /\ UNCHANGED <<flow, goal, exposed, copy, locks, life, marker, note, client, account, panel, asked>>

WriteNote(t) ==
  /\ pc[t] = "Note"
  /\ note' = (Opens \/ note)
  /\ Goto(t, "Start")
  /\ UNCHANGED <<flow, goal, exposed, copy, locks, life, marker, lease, client, account, panel, asked>>

\* Mutant: a wake whose client would not start returns on the spot.
ReturnsAtOnce(t) ==
  /\ pc[t] = "Start"
  /\ \/ client' = "starting" /\ Goto(t, "Watch")
     \/ UNCHANGED client /\ Goto(t, "Drop")
  /\ UNCHANGED <<flow, goal, exposed, copy, locks, life, disk, account, panel, asked>>

\* start or restart. A wake whose client would not start takes its marker back
\* all the same; a setup whose launcher would not start returns on the spot and
\* leaves it (setup.rs:265). A setup may find a client to watch instead.
Start(t) ==
  /\ pc[t] = "Start"
  /\ \/ client' = "starting" /\ Goto(t, "Watch")
     \/ flow[t] # "setup" /\ UNCHANGED client /\ Goto(t, "Withdraw")
     \/ flow[t] = "setup" /\ UNCHANGED client /\ Goto(t, "Watch")
     \/ flow[t] = "setup" /\ UNCHANGED client /\ Goto(t, "Drop")
  /\ UNCHANGED <<flow, goal, exposed, copy, locks, life, disk, account, panel, asked>>

\* The client reads its marker as it comes up, and never again.
ClientReads ==
  /\ client = "starting"
  /\ client' = IF marker # None THEN "exposed" ELSE "shut"
  /\ UNCHANGED <<pc, flow, goal, exposed, copy, locks, life, disk, account, panel, asked>>

ClientExits ==
  /\ client # "none"
  /\ client' = "none"
  /\ UNCHANGED <<pc, flow, goal, exposed, copy, locks, life, disk, account, panel, asked>>

\* It came up as needed, or the patience for it is over.
Watch(t) ==
  /\ pc[t] = "Watch"
  /\ Goto(t, "Withdraw")
  /\ UNCHANGED <<flow, goal, exposed, copy, locks, life, disk, client, account, panel, asked>>

\* withdraw, by the call that made the marker: the note, the lease, the marker.
Withdraw(t) ==
  /\ pc[t] = "Withdraw"
  /\ IF exposed[t] = "made"
     THEN note' = (note /\ ~Opens) /\ Goto(t, "Unlease")
     ELSE UNCHANGED note /\ Goto(t, "Drop")
  /\ UNCHANGED <<flow, goal, exposed, copy, locks, life, marker, lease, client, account, panel, asked>>

Unlease(t) ==
  /\ pc[t] = "Unlease"
  /\ lease' = IF Opens THEN None ELSE lease
  /\ Goto(t, "Unmark")
  /\ UNCHANGED <<flow, goal, exposed, copy, locks, life, marker, note, client, account, panel, asked>>

Unmark(t) ==
  /\ pc[t] = "Unmark"
  /\ marker' = None
  /\ Goto(t, "Drop")
  /\ UNCHANGED <<flow, goal, exposed, copy, locks, life, note, lease, client, account, panel, asked>>

\* A flow drives the install wizard, and is over in the end.
Drive(t) ==
  /\ pc[t] = "Drive"
  /\ Goto(t, "Drop")
  /\ UNCHANGED <<flow, goal, exposed, copy, locks, life, disk, client, account, panel, asked>>

WakeStep(t) ==
  \/ Decide(t) \/ Act(t) \/ Expose(t) \/ WriteLease(t) \/ WriteNote(t) \/ Start(t)
  \/ Watch(t) \/ Withdraw(t) \/ Unlease(t) \/ Unmark(t) \/ Drive(t)

---------------------------------------------------------------------------
(* client.rs: the two writers of the account list                          *)

Gives(t) == flow[t] \in {"online", "giveback"}

\* All of the list is read; a mode that is not this shell's to take back, or one
\* that is what it should be already, ends it here.  A sign-out writes the flags
\* that are there whatever they say.
ReadList(t) ==
  /\ pc[t] = "Read"
  /\ copy' = [copy EXCEPT ![t] = list]
  /\ \/ Gives(t) /\ claimed /\ Goto(t, "Forget")
     \/ Gives(t) /\ ~claimed /\ Goto(t, "Drop")
     \/ flow[t] = "offline" /\ Goto(t, IF list.offline THEN "Drop" ELSE "Write")
     \/ flow[t] = "signout" /\ Goto(t, "Write")
  /\ UNCHANGED <<flow, goal, exposed, locks, life, disk, client, account, panel, asked>>

Changed(t) ==
  IF flow[t] = "signout" THEN [copy[t] EXCEPT !.remembered = FALSE]
                         ELSE [copy[t] EXCEPT !.offline = (flow[t] = "offline")]

\* give_back forgets the claim before it changes the list.
ForgetClaim(t) ==
  /\ pc[t] = "Forget"
  /\ claimed' = FALSE
  /\ Goto(t, IF copy[t].offline THEN "Write" ELSE "Drop")
  /\ UNCHANGED <<flow, goal, exposed, copy, locks, life, disk, client, list, panel, asked>>

\* And puts all of it back.
WriteList(t) ==
  /\ pc[t] = "Write"
  /\ list' = Changed(t)
  /\ Goto(t, IF flow[t] = "offline" THEN "Claim" ELSE "Drop")
  /\ UNCHANGED <<flow, goal, exposed, copy, locks, life, disk, client, claimed, panel, asked>>

\* ask_for remembers afterwards that the mode is this shell's.
Claim(t) ==
  /\ pc[t] = "Claim"
  /\ claimed' = TRUE
  /\ Goto(t, "Drop")
  /\ UNCHANGED <<flow, goal, exposed, copy, locks, life, disk, client, list, panel, asked>>

EditStep(t) == ReadList(t) \/ ForgetClaim(t) \/ WriteList(t) \/ Claim(t)

---------------------------------------------------------------------------
(* webui.rs: what an earlier run left behind                               *)

\* The note is read before the turn is asked for.
Look(t) ==
  /\ pc[t] = "Look"
  /\ Goto(t, IF note THEN "Try" ELSE "idle")
  /\ UNCHANGED <<flow, goal, exposed, copy, locks, life, disk, client, account, panel, asked>>

\* Mutant: nobody is asked whether a wake is under way.
TidiesAtOnce(t) ==
  /\ pc[t] = "Try"
  /\ Goto(t, "Judge")
  /\ UNCHANGED <<flow, goal, exposed, copy, locks, life, disk, client, account, panel, asked>>

\* Mutant: the mutex stays held when the file is somebody else's.
KeepsTheMutex(t) ==
  /\ pc[t] = "Try"
  /\ IF local[SessionOf(t)]["TheClient"] = None
     THEN /\ local' = [local EXCEPT ![SessionOf(t)]["TheClient"] = t[2]]
          /\ IF Locks /\ file["TheClient"] = None
             THEN file' = (IF Excludes THEN [file EXCEPT !["TheClient"] = t] ELSE file)
                  /\ Goto(t, "Judge")
             ELSE UNCHANGED file /\ Goto(t, "idle")
     ELSE UNCHANGED locks /\ Goto(t, "idle")
  /\ UNCHANGED <<flow, goal, exposed, copy, life, disk, client, account, panel, asked>>

\* take_if_free: both halves this instant, or nothing.
Try(t) ==
  /\ pc[t] = "Try"
  /\ IF local[SessionOf(t)]["TheClient"] = None /\ Locks /\ file["TheClient"] = None
     THEN /\ local' = [local EXCEPT ![SessionOf(t)]["TheClient"] = t[2]]
          /\ file' = IF Excludes THEN [file EXCEPT !["TheClient"] = t] ELSE file
          /\ Goto(t, "Judge")
     ELSE UNCHANGED locks /\ Goto(t, "idle")
  /\ UNCHANGED <<flow, goal, exposed, copy, life, disk, client, account, panel, asked>>

\* Lease::alive: the process that is named is the one that runs now.
Lives(l) == l # None /\ life[l.session] = l.life

Judge(t) ==
  /\ pc[t] = "Judge"
  /\ Goto(t, IF Lives(lease) THEN "Drop" ELSE "Take")
  /\ UNCHANGED <<flow, goal, exposed, copy, locks, life, disk, client, account, panel, asked>>

TakeBack(t) ==
  /\ pc[t] = "Take"
  /\ marker' = None
  /\ Goto(t, "Unnote")
  /\ UNCHANGED <<flow, goal, exposed, copy, locks, life, note, lease, client, account, panel, asked>>

Unnote(t) ==
  /\ pc[t] = "Unnote"
  /\ note' = FALSE
  /\ Goto(t, "Forgotten")
  /\ UNCHANGED <<flow, goal, exposed, copy, locks, life, marker, lease, client, account, panel, asked>>

Forgotten(t) ==
  /\ pc[t] = "Forgotten"
  /\ lease' = None
  /\ Goto(t, "Drop")
  /\ UNCHANGED <<flow, goal, exposed, copy, locks, life, marker, note, client, account, panel, asked>>

TidyStep(t) == Look(t) \/ Try(t) \/ Judge(t) \/ TakeBack(t) \/ Unnote(t) \/ Forgotten(t)

---------------------------------------------------------------------------
(* The surroundings                                                        *)

\* A process dies wherever it is: the kernel drops its locks. The session is
\* started again, and its start begins with the tidying.
Kill(s) ==
  /\ life[s] < MaxLives
  /\ life' = [life EXCEPT ![s] = @ + 1]
  /\ pc' = [t \in Thread |-> IF SessionOf(t) # s THEN pc[t]
                             ELSE IF t[2] = First THEN "Look" ELSE "idle"]
  /\ flow' = [flow EXCEPT ![<<s, First>>] = "tidy"]
  /\ goal' = [goal EXCEPT ![<<s, First>>] = "TheClient"]
  /\ local' = [local EXCEPT ![s] = [w \in What |-> None]]
  /\ file' = [w \in What |-> IF file[w] # None /\ SessionOf(file[w]) = s THEN None ELSE file[w]]
  /\ exposed' = [t \in Thread |-> IF SessionOf(t) = s THEN "no" ELSE exposed[t]]
  /\ panel' = FALSE
  /\ UNCHANGED <<copy, disk, client, account, asked>>

\* Somebody makes or removes a marker of their own.
Touch ==
  /\ Hands
  /\ \/ marker = None /\ marker' = Somebody
     \/ marker = Somebody /\ marker' = None
  /\ UNCHANGED <<pc, flow, goal, exposed, copy, locks, life, note, lease, client, account, panel, asked>>

\* The diagnostics panel is raised, with the button where the marker is not ours.
Raise ==
  /\ Hands
  /\ panel' = (marker # None /\ ~note)
  /\ UNCHANGED <<pc, flow, goal, exposed, copy, locks, life, disk, client, account, asked>>

\* The button is pressed, and the panel comes up again.
Shut ==
  /\ panel
  /\ marker' = None
  /\ panel' = FALSE
  /\ UNCHANGED <<pc, flow, goal, exposed, copy, locks, life, note, lease, client, account, asked>>

\* Offline Mode in Valve's own menu, written by a client that runs.
Choose ==
  /\ Hands /\ client \in {"exposed", "shut"}
  /\ list' = [list EXCEPT !.offline = ~@]
  /\ UNCHANGED <<pc, flow, goal, exposed, copy, locks, life, disk, client, claimed, panel, asked>>

\* Every flow that was asked for is over.
Rest ==
  /\ asked = MaxAsks
  /\ \A t \in Thread : pc[t] = "idle"
  /\ UNCHANGED vars

Runs(t) ==
  \/ TakeLocal(t) \/ TakeFile(t) \/ DropFile(t) \/ DropLocal(t)
  \/ WakeStep(t) \/ EditStep(t) \/ TidyStep(t)

Next ==
  \/ \E t \in Thread : Ask(t) \/ Runs(t)
  \/ \E s \in Sessions : Kill(s)
  \/ ClientReads \/ ClientExits \/ Touch \/ Raise \/ Shut \/ Choose \/ Rest

Spec == Init /\ [][Next]_vars

FairSpec == Spec /\ \A t \in Thread : WF_vars(Runs(t))

---------------------------------------------------------------------------
(* What the turns are for                                                  *)

Stages == {"idle", "Queue", "Open", "Drop", "Unlock", "Decide", "Act", "Expose", "Lease",
           "Note", "Start", "Watch", "Withdraw", "Unlease", "Unmark", "Drive", "Read",
           "Forget", "Write", "Claim", "Look", "Try", "Judge", "Take", "Unnote", "Forgotten"}

TypeOK ==
  /\ pc \in [Thread -> Stages]
  /\ flow \in [Thread -> Flows]
  /\ goal \in [Thread -> What]
  /\ exposed \in [Thread -> {"no", "made", "found"}]
  /\ copy \in [Thread -> AccountList]
  /\ local \in [Sessions -> [What -> Slots \cup {None}]]
  /\ file \in [What -> Thread \cup {None}]
  /\ life \in [Sessions -> 1 .. MaxLives]
  /\ marker \in {None, Somebody} \cup Maker
  /\ note \in BOOLEAN
  /\ lease \in {None} \cup Lease
  /\ client \in {"none", "starting", "exposed", "shut"}
  /\ list \in AccountList
  /\ claimed \in BOOLEAN
  /\ panel \in BOOLEAN
  /\ asked \in 0 .. MaxAsks

\* Where a thread does something with the client, the wizard or the list.
AtTheClient == {"Decide", "Act", "Expose", "Lease", "Note", "Start", "Watch", "Withdraw",
                "Unlease", "Unmark", "Judge", "Take", "Unnote", "Forgotten"}
AtTheList == {"Read", "Forget", "Write", "Claim"}

\* A wake is at the client all the while it sees to the account list.
Inside(t, w) ==
  \/ /\ w = "TheClient"
     /\ \/ pc[t] \in AtTheClient
        \/ flow[t] \in Wakes /\ goal[t] = "TheAccountList" /\ pc[t] # "idle"
  \/ w = "TheWizard" /\ pc[t] = "Drive"
  \/ w = "TheAccountList" /\ pc[t] \in AtTheList

\* Two threads are never in the same thing at once, of one process or of two;
\* on a machine without file locks, not two threads of one process.
Exclusion ==
  \A t, u \in Thread, w \in What :
    t # u /\ Inside(t, w) /\ Inside(u, w) => ~Excludes /\ SessionOf(t) # SessionOf(u)

\* The client that a wake has started finds the marker it was promised when it
\* reads it, whoever is killed, starts, wakes or tidies up meanwhile.
MarkerStays ==
  \A t \in Thread : pc[t] = "Watch" /\ exposed[t] # "no" /\ client = "starting" => marker # None

\* From making its marker to having taken it back.
Behind == {"Lease", "Note", "Start", "Watch", "Withdraw", "Unlease", "Unmark"}

\* What a wake takes back is the marker it made and no other; and once it has
\* made one it does not give up its turn before the marker is gone, whatever
\* failed on the way.  Only a setup whose launcher would not start leaves its
\* marker behind (setup.rs:265), and a kill.
TakesBackItsOwn ==
  [][\A t \in Thread :
       /\ pc[t] = "Unmark" /\ pc'[t] = "Drop" => marker = MadeBy(t)
       /\ pc[t] \in Behind /\ pc'[t] = "Drop" /\ exposed[t] = "made"
          => \/ marker' # MadeBy(t)
             \/ flow[t] = "setup" /\ pc[t] = "Start"]_vars

\* Two writers of the account list do not lose each other's edit: a sign-out
\* leaves Offline Mode as it is, and Offline Mode the sign-out.
EditsItsOwnField ==
  [][\A t \in Thread : pc[t] = "Write" /\ pc'[t] # "Write" /\ list' # list
       => IF flow[t] = "signout" THEN list'.offline = list.offline
                                 ELSE list'.remembered = list.remembered]_vars

\* Who waits for a turn gets it, or dies: no order of flows and no kill leaves
\* everybody waiting on everybody.
EveryTurnComes ==
  \A t \in Thread : pc[t] \in {"Queue", "Open"} ~> pc[t] \notin {"Queue", "Open"}
=============================================================================
