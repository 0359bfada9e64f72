----------------------------- MODULE UpdateEvents -----------------------------
(***************************************************************************)
(* What the desktop is told of a job while nobody looks: the coordinator   *)
(* watches the output of native tools for questions (prompt.rs), queues an *)
(* event for a question and for the end of a job (service.rs), and the     *)
(* shell asks for the queue, shows what is new in the notification centre, *)
(* says so, and takes back what is obsolete (updates.rs of the shell).     *)
(*                                                                         *)
(* A line of output is where it stands, what it asks, and whether an       *)
(* answer was echoed behind it; all questions of a kind are worded alike.  *)
(***************************************************************************)
EXTENDS Integers, Sequences, FiniteSets, SequencesExt

CONSTANTS
  Kept,           \* the places of the queue, 32 in queue_event()
  MaxJobs, MaxTools, MaxQuestions,
  MaxLines,       \* bound: lines that the person types
  MaxTroubles,    \* bound: programs killed, failed saves and requests timed out
  MaxSpent        \* bound: lines and jobs but the first, together

ASSUME EventsAssumption ==
  /\ Kept \in Nat \ {0}
  /\ {MaxJobs, MaxTools, MaxQuestions} \subseteq Nat
  /\ {MaxLines, MaxTroubles, MaxSpent} \subseteq Nat

VARIABLES
  mode,       \* the coordinator: down, starting or serving
  job, phase, child, output, secret,   \* of its snapshot
  terminal,   \* State::terminal is the tool's
  active, answered,                    \* Tracker
  queue,      \* State::events
  number,     \* the revision that named the last question's event
  unfiled,    \* jobs whose threads have still to archive()
  file,       \* events.json
  asking,     \* what the tool waits for
  screen, noecho, input,               \* its terminal
  sent, replies,                       \* between the shell and its worker
  view, pending, notes, listed,        \* Updates, and the centre's list
  owed, rang, again, person, pushed, filed, \* history, for the properties
  tools, spent

snapshot == <<job, phase, child, output, secret>>
tracker == <<active, answered, number>>
tool == <<asking, screen, noecho, input>>
line == <<sent, replies>>
shell == <<view, pending, notes, listed>>
history == <<owed, rang, again, person, pushed, filed>>
bounds == <<tools, spent>>
vars == <<mode, snapshot, terminal, tracker, queue, unfiled, file, tool, line,
          shell, history, bounds>>

Limit == [job |-> MaxJobs, question |-> MaxQuestions, line |-> MaxLines,
          trouble |-> MaxTroubles]
Spend(kind) ==
  /\ spent[kind] < Limit[kind]
  /\ spent' = [spent EXCEPT ![kind] = @ + 1]
  /\ spent'["job"] - 1 + spent'["line"] <= MaxSpent
-----------------------------------------------------------------------------
(* prompt.rs *)

Line(at, asks) == [at |-> at, asks |-> asks, echoed |-> FALSE]
Blank == Line(0, "nothing")

NoQuestion == [kind |-> "none", pid |-> 0, at |-> 0, echoed |-> FALSE]
Secret(pid) == [NoQuestion EXCEPT !.kind = "secret", !.pid = pid]
Text(pid, out) ==
  [kind |-> "text", pid |-> pid, at |-> out.at, echoed |-> out.echoed]

\* The question that a snapshot shows; echo-off is no question by itself.
Question(ph, pid, out, sec) ==
  IF ph # "running" \/ pid = 0 THEN NoQuestion
  ELSE IF sec THEN IF out.asks = "password" THEN Secret(pid) ELSE NoQuestion
  ELSE IF out.asks = "yesno" THEN Text(pid, out) ELSE NoQuestion

\* Mutant: a text question of the same tool, wherever it stands.
SameWords(old, new) ==
  new # NoQuestion /\ (old = new \/
    (old.kind = "text" /\ new.kind = "text" /\ old.pid = new.pid))

\* The answered question with more behind it, such as the echo of the answer.
Answered(old, new) ==
  /\ new # NoQuestion
  /\ \/ old = new
     \/ /\ old.kind = "text" /\ new.kind = "text"
        /\ <<old.pid, old.at>> = <<new.pid, new.at>>
        /\ old.echoed => new.echoed
-----------------------------------------------------------------------------
(* The queue: queue_event(), clear_attention(), change() *)

Event(j, n) == [job |-> j, number |-> n, delivered |-> FALSE]
Attention(e) == e.number > 0
Id(e) == [job |-> e.job, number |-> e.number]
Ids(q) == {Id(q[i]) : i \in DOMAIN q}

\* The events of q at the places S, in their order.
Only(q, S) ==
  [n \in 1..Cardinality(S) |->
     q[CHOOSE i \in S : Cardinality({k \in S : k <= i}) = n]]

Cleared(q) == Only(q, {i \in DOMAIN q : ~Attention(q[i])})

\* The end of a job takes the questions of that job away.
Unasked(q, j) == Only(q, {i \in DOMAIN q : q[i].job # j \/ ~Attention(q[i])})

\* Without the limit.
Queued(q, e) ==
  IF Id(e) \in Ids(q) THEN q
  ELSE Append(IF Attention(e) THEN q ELSE Unasked(q, e.job), e)

Within(q) == IF Len(q) > Kept THEN Tail(q) ELSE q

\* The queue is saved when it changed; a save that fails is only a notice, and
\* may come after one that did not.
Save(q, between) ==
  /\ queue' = Within(q)
  /\ pushed' = pushed \cup (Ids(q) \ Ids(queue'))
  /\ \/ q = queue /\ UNCHANGED <<file, spent>>
     \/ q # queue /\ file' = queue' /\ UNCHANGED spent
     \/ /\ q # queue
        /\ Spend("trouble")
        /\ file' \in {file, between}

\* One change() of the snapshot: the tracker looks at it, the queue follows,
\* and the snapshot is saved.
Change(ph, pid, out, sec) ==
  LET new  == Question(ph, pid, out, sec)
      next == IF Answered(answered, new) THEN NoQuestion ELSE new
      asks == next # active /\ next # NoQuestion
  IN  /\ phase' = ph /\ child' = pid /\ output' = out /\ secret' = sec
      /\ active' = next
      /\ answered' = IF Answered(answered, new) THEN answered ELSE NoQuestion
      /\ number' = IF asks THEN number + 1 ELSE number
      /\ Save(IF asks THEN Queued(Cleared(queue), Event(job, number'))
              ELSE IF next # active THEN Cleared(queue) ELSE queue,
              Cleared(queue))
      /\ UNCHANGED job
Serving == mode = "serving"
-----------------------------------------------------------------------------
(* Requests, and what the coordinator makes of them (receive()) *)

Request(what, id) == [what |-> what, id |-> id]
Poll == Request("events", [job |-> 0, number |-> 0])

\* The shell's worker thread waits for each reply before it sends the next.
\* The answer does not come in time, or its coordinator is killed first; or no
\* coordinator can be started.  The error that is answered instead tells the
\* shell of no job and no event.
Unanswered ==
  /\ Spend("trouble")
  /\ \/ replies # <<>> /\ replies' = Front(replies) /\ UNCHANGED sent
     \/ mode = "down" /\ sent # <<>> /\ sent' = Tail(sent) /\ UNCHANGED replies
  /\ UNCHANGED <<mode, snapshot, terminal, tracker, queue, unfiled, file,
                 tool, shell, history, tools>>

\* The mark is made before the save, the removal only with it.
Delivered(id) ==
  /\ queue' = [i \in DOMAIN queue |->
                 IF Id(queue[i]) = id THEN [queue[i] EXCEPT !.delivered = TRUE]
                                      ELSE queue[i]]
  /\ \/ file' = queue' /\ UNCHANGED spent
     \/ Spend("trouble") /\ UNCHANGED file

Acknowledge(id) ==
  \/ /\ queue' = Only(queue, {i \in DOMAIN queue : Id(queue[i]) # id})
     /\ file' = queue' /\ UNCHANGED spent
  \/ Spend("trouble") /\ UNCHANGED <<queue, file>>

\* What was typed goes to the terminal of the running job's tool, whatever that
\* asks by then; the terminal echoes it behind the last line.
Accepts(j) == j = job /\ phase = "running" /\ terminal /\ asking # "ended"
Typed ==
  /\ input' = input + 1
  /\ screen' = IF noecho THEN screen ELSE [screen EXCEPT !.echoed = TRUE]
  /\ answered' = active /\ active' = NoQuestion
  /\ Save(Cleared(queue), Cleared(queue))

Receive ==
  /\ Serving /\ sent # <<>>
  /\ LET r == Head(sent) IN
       \/ /\ r.what = "events" \/ (r.what = "input" /\ ~Accepts(r.id.job))
          /\ UNCHANGED <<tracker, queue, file, pushed, screen, input, spent>>
       \/ /\ r.what = "delivered" /\ Delivered(r.id)
          /\ UNCHANGED <<tracker, pushed, screen, input>>
       \/ /\ r.what = "acknowledge" /\ Acknowledge(r.id)
          /\ UNCHANGED <<tracker, pushed, screen, input>>
       \/ /\ r.what = "input" /\ Accepts(r.id.job) /\ Typed
          /\ UNCHANGED number
  /\ sent' = Tail(sent)
  /\ replies' = Append(replies, [job |-> job, phase |-> phase,
                                 events |-> queue'])
  /\ UNCHANGED <<mode, snapshot, terminal, unfiled, asking, noecho, shell,
                 owed, rang, again, person, filed, tools>>
-----------------------------------------------------------------------------
(* The life of a job, as far as events depend on it *)

\* A check, up to its review: a snapshot of its own, which the tracker has not
\* seen.
Check ==
  /\ Serving /\ phase # "running" /\ Spend("job")
  /\ job' = job + 1 /\ phase' = "reviewing"
  /\ child' = 0 /\ output' = Blank /\ secret' = FALSE
  /\ UNCHANGED <<mode, terminal, tracker, queue, unfiled, file, tool, line,
                 shell, history, tools>>

Install ==
  /\ Serving /\ phase = "reviewing"
  /\ Change("running", child, output, secret)
  /\ UNCHANGED <<mode, terminal, unfiled, tool, line, shell, owed, rang,
                 again, person, filed, tools>>

\* A native tool is started and its process named.
BeginTool ==
  /\ Serving /\ phase = "running" /\ child = 0 /\ ~terminal
  /\ tools < MaxTools /\ tools' = tools + 1
  /\ terminal' = TRUE
  /\ asking' = "nothing" /\ screen' = Line(output.at + 1, "nothing")
  /\ noecho' = FALSE /\ input' = 0
  /\ Change(phase, tools', output, secret)
  /\ UNCHANGED <<mode, unfiled, line, shell, owed, rang, again, person,
                 filed>>

\* The thread that reads the terminal, and the one that looks at its echo.
Watched == UNCHANGED <<mode, terminal, unfiled, tool, line, shell, owed, rang,
                       again, person, filed, tools>>
Read ==
  /\ Serving /\ child # 0 /\ output # screen
  /\ Change(phase, child, screen, secret)
  /\ Watched
Sample ==
  /\ Serving /\ child # 0 /\ terminal /\ secret # noecho
  /\ Change(phase, child, output, noecho)
  /\ Watched

\* The tool has ended: its terminal goes first, then its process.
Detach ==
  /\ Serving /\ terminal /\ asking = "ended"
  /\ terminal' = FALSE
  /\ UNCHANGED <<mode, snapshot, tracker, queue, unfiled, file, tool, line,
                 shell, history, bounds>>
Settle ==
  /\ Serving /\ child # 0 /\ ~terminal /\ output = screen
  /\ Change(phase, 0, output, FALSE)
  /\ Watched

Finish ==
  /\ Serving /\ phase = "running" /\ child = 0
  /\ Change("ended", 0, output, FALSE)
  /\ unfiled' = unfiled \cup {job}
  /\ UNCHANGED <<mode, terminal, tool, line, shell, owed, rang, again, person,
                 filed, tools>>

\* archive() files, and tells of, whatever job the snapshot has by then.
Archive ==
  /\ mode # "down"
  /\ \E j \in unfiled : unfiled' = unfiled \ {j}
  /\ Save(Queued(queue, Event(job, 0)), queue)
  /\ filed' = [filed EXCEPT ![job] = @ + 1]
  /\ owed' = IF filed[job] > 0 THEN owed
             ELSE owed \cup ({Id(Event(job, 0))} \cap (Ids(file') \ Ids(queue)))
  /\ mode' = "serving"
  /\ UNCHANGED <<snapshot, terminal, tracker, tool, line, shell, rang, again,
                 person, tools>>

\* What a coordinator has in memory when it has nothing.
Forgotten ==
  /\ child' = 0 /\ output' = Blank /\ secret' = FALSE
  /\ active' = NoQuestion /\ answered' = NoQuestion
  /\ queue' = <<>>

\* The kill of a coordinator takes its terminals with it; a request it had
\* received is never answered.
Kill ==
  /\ mode # "down" /\ Spend("trouble")
  /\ mode' = "down"
  /\ terminal' = FALSE /\ asking' = "ended" /\ noecho' = FALSE /\ input' = 0
  /\ unfiled' = {}
  /\ Forgotten
  /\ UNCHANGED <<job, phase, number, file, screen, line, shell, history,
                 tools>>

\* The shell's next request starts another, with a tracker that knows nothing.
\* What was running was interrupted, and is filed before anybody is served.
Start ==
  /\ mode = "down" /\ sent # <<>>
  /\ queue' = file
  /\ IF phase = "running"
     THEN phase' = "ended" /\ unfiled' = {job} /\ mode' = "starting"
     ELSE mode' = "serving" /\ UNCHANGED <<phase, unfiled>>
  /\ UNCHANGED <<job, child, output, secret, terminal, tracker, file, tool,
                 line, shell, history, bounds>>
-----------------------------------------------------------------------------
(* Native tools and their terminal *)

Untouched == UNCHANGED <<mode, snapshot, terminal, tracker, queue, unfiled,
                         file, line, shell, history>>

Ask(kind) ==
  /\ terminal /\ asking = "nothing"
  /\ Spend("question")
  /\ screen' = Line(screen.at + 1, kind)
  /\ noecho' = (kind = "password")
  /\ asking' = kind
  /\ Untouched /\ UNCHANGED <<input, tools>>

\* It takes a line that was typed for it, whatever that was the answer to.
Take ==
  /\ terminal /\ asking \in {"yesno", "password"} /\ input > 0
  /\ input' = input - 1
  /\ asking' = "nothing" /\ noecho' = FALSE
  /\ Untouched /\ UNCHANGED <<screen, bounds>>

Say ==
  /\ terminal /\ asking = "nothing" /\ screen.asks # "nothing"
  /\ screen' = Line(screen.at + 1, "nothing")
  /\ Untouched /\ UNCHANGED <<asking, noecho, input, bounds>>

End ==
  /\ terminal /\ asking = "nothing"
  /\ asking' = "ended"
  /\ Untouched /\ UNCHANGED <<screen, noecho, input, bounds>>
-----------------------------------------------------------------------------
(* The shell: Updates::poll() and sync_updates(), once per turn of its loop *)

\* The events that are on disk as shown.
Shown == {Id(file[i]) : i \in {i \in DOMAIN file : file[i].delivered}}

\* Mutant: what was seen before is new again.
EveryEvent ==
  UNION {{replies[k].events[i] : i \in DOMAIN replies[k].events} :
           k \in DOMAIN replies}

\* What is new in each reply since the one before.  After every reply
\* seen_events is pending_events: the one set stands for both.
Arrived ==
  UNION {{replies[k].events[i] :
            i \in {i \in DOMAIN replies[k].events :
                     Id(replies[k].events[i]) \notin
                       (IF k = 1 THEN pending ELSE Ids(replies[k - 1].events))}} :
           k \in DOMAIN replies}

\* Mutant: one that is no longer pending does for as long as its job runs.
OutlivesItsQuestion(id, v, p) ==
  id.number > 0 /\ (v.job # id.job \/ v.phase # "running")

\* Mutant: so does one about the end of a job, when another follows.
EndsAreObsolete(id, v, p) ==
  \/ v.job # id.job
  \/ id.number > 0 /\ (id \notin p \/ v.phase # "running")

\* A note about a question goes when the question does, or its job.
Obsolete(id, v, p) ==
  id.number > 0 /\ (id \notin p \/ v.job # id.job \/ v.phase # "running")

Pass(asks) ==
  LET fresh   == Arrived
      shown   == {e \in fresh : ~Obsolete(Id(e), view', pending')}
      centre  == listed \cup {Id(e) : e \in shown}
      kept    == {id \in centre : ~Obsolete(id, view', pending')}
      held    == notes \cup {Id(e) : e \in shown}
      gone    == (held \ kept) \cup {Id(e) : e \in fresh \ shown}
      rung    == {Id(e) : e \in {e \in shown : ~e.delivered}}
  IN  /\ asks \/ replies # <<>> \/ listed # notes
      /\ asks => sent = <<>>
      /\ view' = IF replies = <<>> THEN view
                 ELSE [job |-> Last(replies).job, phase |-> Last(replies).phase]
      /\ pending' = IF replies = <<>> THEN pending
                    ELSE Ids(Last(replies).events)
      /\ replies' = <<>>
      /\ listed' = kept /\ notes' = held \cap kept
      /\ owed' = owed \ {Id(e) : e \in shown}
      /\ rang' = rang \cup rung
      /\ again' = again \cup (rung \cap (rang \cup Shown))
      /\ sent' = sent \o (IF asks THEN <<Poll>> ELSE <<>>)
                      \o SetToSeq({Request("delivered", Id(e)) : e \in shown})
                      \o SetToSeq({Request("acknowledge", id) : id \in gone})
      /\ UNCHANGED <<mode, snapshot, terminal, tracker, queue, unfiled, file,
                     tool, person, pushed, filed, bounds>>

\* The person answers what the panel shows, or puts a note away.
Type ==
  /\ view.phase = "running"
  /\ Spend("line")
  /\ sent' = Append(sent, Request("input", [job |-> view.job, number |-> 0]))
  /\ UNCHANGED <<mode, snapshot, terminal, tracker, queue, unfiled, file,
                 tool, replies, view, pending, notes, listed, history, tools>>

PutAway(id) ==
  /\ listed' = listed \ {id}
  /\ person' = person \cup {id}
  /\ UNCHANGED <<mode, snapshot, terminal, tracker, queue, unfiled, file,
                 tool, line, view, pending, notes, owed, rang, again, pushed,
                 filed, bounds>>

\* Another shell starts with nothing of the old one's.
ShellKilled ==
  /\ Spend("trouble")
  /\ view' = [job |-> 0, phase |-> "idle"]
  /\ pending' = {} /\ notes' = {} /\ listed' = {}
  /\ sent' = <<>> /\ replies' = <<>>
  /\ rang' = {}
  /\ UNCHANGED <<mode, snapshot, terminal, tracker, queue, unfiled, file,
                 tool, owed, again, person, pushed, filed, tools>>
-----------------------------------------------------------------------------
Init ==
  /\ mode = "down"
  /\ job = 0 /\ phase = "idle" /\ child = 0 /\ output = Blank /\ secret = FALSE
  /\ terminal = FALSE
  /\ active = NoQuestion /\ answered = NoQuestion /\ number = 0
  /\ queue = <<>> /\ file = <<>>
  /\ unfiled = {}
  /\ asking = "ended" /\ screen = Blank /\ noecho = FALSE /\ input = 0
  /\ sent = <<>> /\ replies = <<>>
  /\ view = [job |-> 0, phase |-> "idle"]
  /\ pending = {} /\ notes = {} /\ listed = {}
  /\ owed = {} /\ rang = {} /\ again = {} /\ person = {} /\ pushed = {}
  /\ filed = [j \in 1..MaxJobs |-> 0]
  /\ tools = 0 /\ spent = [k \in DOMAIN Limit |-> 0]

Coordinator ==
  \/ Start \/ Read \/ Sample \/ Detach \/ Settle \/ Finish \/ Archive
  \/ Receive
Tool == Ask("yesno") \/ Ask("password") \/ Take \/ Say \/ End
Shell == \E asks \in BOOLEAN : Pass(asks)
Person == Type \/ \E id \in listed : PutAway(id)

Next ==
  \/ Check \/ Install \/ BeginTool \/ Coordinator
  \/ Tool \/ Shell \/ Person
  \/ Unanswered \/ Kill \/ ShellKilled

Spec == Init /\ [][Next]_vars

\* The shell's loop turns and asks every three seconds; its worker starts a
\* coordinator when there is none, and a coordinator serves, reads and files.
Fairness ==
  /\ WF_vars(Shell)
  /\ WF_vars(Start) /\ WF_vars(Receive) /\ WF_vars(Archive)
FairSpec == Spec /\ Fairness
-----------------------------------------------------------------------------
(* What must hold *)

\* A question that a tool waits with, and that its coordinator has read, is in
\* the queue until the person answers or puts its note away; but for a password
\* that is asked again before anything else was read (Secret() is its process),
\* and for the note that a thread files late.
QuestionIsTold ==
  (/\ Serving /\ phase = "running" /\ terminal /\ child # 0
   /\ output = screen /\ secret = noecho
   /\ asking = "yesno" \/ (asking = "password" /\ answered = NoQuestion)
   /\ input = 0 /\ filed[job] = 0)
    => /\ active # NoQuestion
       /\ [job |-> job, number |-> number] \in Ids(queue) \cup person

\* A note about a question goes away once the tracker has dropped that question:
\* it was answered, its tool or its job has ended, or its coordinator is gone
\* (docs/updates.md, step 6).  What the tool waits with in truth is not asked.
Obsoletes == {id \in listed : id.number > 0 /\
                (active = NoQuestion \/ id # [job |-> job, number |-> number])}
NoObsoletePrompt == Obsoletes # {} ~> Obsoletes = {}

\* The end of a job that was queued and saved reaches the notification centre,
\* whoever is killed, unless 32 later events pushed it out; the event of a job
\* that is filed twice does so once.
FinishedIsTold == owed \ pushed # {} ~> owed \subseteq pushed

\* No shell rings twice for an event, and none for one that is on disk as shown;
\* but for the event of a job that is filed twice, and for one that a full queue
\* had pushed out and a failed save kept.
RingsOnce == \A id \in again : id \in pushed \/ filed[id.job] > 1
=============================================================================
