--------------------------- MODULE JobAuthorization ---------------------------
(***************************************************************************)
(* One authorization of an update job (crates/lxb-updates,                 *)
(* authorization.rs): the coordinator's Session, the root worker that      *)
(* pkexec starts for it, and the socket pair between them.  Requests to    *)
(* start a step, the request to finish, and what the user types for a      *)
(* native tool all go to the worker through the same stream; the reader    *)
(* there takes a request while it serves and a typed line while it         *)
(* forwards, whichever frame it finds.                                     *)
(*                                                                         *)
(* The frames carry the step they are about as a note to the properties;   *)
(* the worker's answers in the code name no step.                          *)
(***************************************************************************)
EXTENDS Naturals, Sequences

CONSTANTS
  Step,     \* (source, index) pairs a Session may be asked to run
  Granted,  \* those that the grant has an operation for
  NoStep,
  MaxAsks, MaxInputs, MaxFaults   \* bounds of the model

ASSUME GrantAssumption == Granted \subseteq Step /\ NoStep \notin Step
ASSUME BoundAssumption ==
  MaxAsks \in Nat /\ MaxInputs \in Nat /\ MaxFaults \in Nat

VARIABLES
  \* --- the coordinator ---
  session,    \* where the job's thread is with its Session
  asked,      \* the step it attends to
  verdict,    \* what run() returned for it, and the step of that answer
  broken,     \* Session::broken
  terminal,   \* State::terminal is this session's stream
  \* --- the root worker ---
  worker,     \* where the worker is
  held,       \* it holds grant and protection
  consumed,   \* the steps it has tried
  tool, alive,   \* the step it forwards, and whether its tool still runs
  connected,  \* forward() still speaks to the session
  \* --- the stream, and what went wrong ---
  requests,   \* frames for the worker that it has not read
  events,     \* events for the session that it has not read
  typed,      \* the kinds of frames that native tools were given to read
  asks, inputs, faults   \* counted for the bounds

coordinator == <<session, asked, verdict, broken, terminal>>
root    == <<worker, held, consumed, tool, alive, connected>>
counted == <<asks, inputs, faults>>
vars    == <<coordinator, root, requests, events, typed, counted>>
-----------------------------------------------------------------------------
(* Data *)

Frame == [kind : {"start", "finish", "input"}, step : Step \union {NoStep}]
Event == [kind : {"ready", "started", "done", "failed", "error", "closed"},
          step : Step \union {NoStep}]
NoVerdict == [result |-> "none", step |-> NoStep]

\* The session's end of the stream is open.
Open == session \notin {"closed", "dropped"}

Fault == faults < MaxFaults /\ faults' = faults + 1

\* A frame for the worker, written while the worker's end is open.
Sent(kind, step) ==
  /\ worker # "gone"
  /\ requests' = Append(requests, [kind |-> kind, step |-> step])
  /\ UNCHANGED faults
\* A write that failed: nobody is there, or it timed out with the frame
\* delivered or not.
Unsent(kind, step) ==
  \/ worker = "gone" /\ UNCHANGED <<requests, faults>>
  \/ /\ worker # "gone"
     /\ Fault
     /\ requests' \in {requests, Append(requests, [kind |-> kind, step |-> step])}

\* An event for the session; the write fails when its end is closed, or times
\* out while the session is busy.
Told(kind) ==
  /\ Open
  /\ events' = Append(events, [kind |-> kind, step |-> tool'])
  /\ UNCHANGED faults
Untold ==
  /\ IF Open THEN Fault ELSE UNCHANGED faults
  /\ UNCHANGED events
-----------------------------------------------------------------------------
(* The session *)

\* Session::drop: both directions are shut down.
Dropped ==
  /\ session' = "dropped"
  /\ terminal' = FALSE
  /\ events' = <<>>
  /\ UNCHANGED <<asked, verdict, broken>>

\* open(): Ready, and the descriptor of the root lock right after it.
Opened ==
  /\ session = "opening"
  /\ events # <<>> /\ Head(events).kind = "ready"
  /\ session' = "idle"
  /\ events' = Tail(events)
  /\ UNCHANGED <<asked, verdict, broken, terminal, root, requests, typed, counted>>

NotOpened ==
  /\ session = "opening"
  /\ \/ events # <<>> /\ Head(events).kind # "ready"
     \/ events = <<>> /\ worker = "gone"
  /\ Dropped
  /\ UNCHANGED <<root, requests, typed, counted>>

\* execute(): the stream becomes the terminal that answers are written to,
\* before the step is asked for.
Attend(s) ==
  /\ session = "idle"
  /\ asks < MaxAsks
  /\ asks' = asks + 1
  /\ asked' = s
  /\ terminal' = TRUE
  /\ session' = "attending"
  /\ UNCHANGED <<verdict, broken, root, requests, events, typed, inputs, faults>>

\* Mutant: after a failed write the stream is trusted again.
TrustedAfterFailure == UNCHANGED broken
BrokenByFailure == broken' = TRUE

\* run(), up to the Start request.
Ask ==
  /\ session = "attending"
  /\ \/ /\ broken
        /\ session' = "answered"
        /\ verdict' = [result |-> "lost", step |-> asked]
        /\ UNCHANGED <<broken, requests, faults>>
     \/ /\ ~broken
        /\ Sent("start", asked)
        /\ session' = "asked"
        /\ UNCHANGED <<broken, verdict>>
     \/ /\ ~broken
        /\ Unsent("start", asked)
        /\ BrokenByFailure
        /\ session' = "answered"
        /\ verdict' = [result |-> "lost", step |-> asked]
  /\ UNCHANGED <<asked, terminal, root, events, typed, asks, inputs>>

\* run(): one event.
Hear ==
  /\ session = "asked"
  /\ events # <<>>
  /\ events' = Tail(events)
  /\ LET e == Head(events) IN
       \/ /\ e.kind = "started"
          /\ UNCHANGED <<session, verdict, broken>>
       \/ /\ e.kind \in {"done", "failed", "error"}
          /\ session' = "answered"
          /\ verdict' = [result |-> e.kind, step |-> e.step]
          /\ UNCHANGED broken
       \/ /\ e.kind \in {"ready", "closed"}
          /\ session' = "answered"
          /\ verdict' = [result |-> "lost", step |-> asked]
          /\ broken' = TRUE
  /\ UNCHANGED <<asked, terminal, root, requests, typed, counted>>

\* run(): the end of the stream.
HearEnd ==
  /\ session = "asked"
  /\ events = <<>>
  /\ worker = "gone"
  /\ session' = "answered"
  /\ verdict' = [result |-> "lost", step |-> asked]
  /\ broken' = TRUE
  /\ UNCHANGED <<asked, terminal, root, requests, events, typed, counted>>

Settle ==
  /\ session = "answered"
  /\ session' = "idle"
  /\ terminal' = FALSE
  /\ UNCHANGED <<asked, verdict, broken, root, requests, events, typed, counted>>

\* The main thread passes on what the user typed for the running job.
Input ==
  /\ terminal
  /\ worker # "gone"
  /\ inputs < MaxInputs
  /\ inputs' = inputs + 1
  /\ Sent("input", asked)
  /\ UNCHANGED <<coordinator, root, events, typed, asks>>

\* Mutant: a broken session is finished like any other.
FinishAnyway == TRUE
MayFinish == ~broken

\* close(), up to the Finish request.
Close ==
  /\ session = "idle"
  /\ \/ /\ MayFinish
        /\ Sent("finish", NoStep)
        /\ session' = "closing"
        /\ UNCHANGED <<asked, verdict, broken, terminal, events>>
     \/ /\ MayFinish
        /\ Unsent("finish", NoStep)
        /\ Dropped
     \/ /\ ~MayFinish
        /\ Dropped
        /\ UNCHANGED <<requests, faults>>
  /\ UNCHANGED <<root, typed, asks, inputs>>

\* close() hears Closed, waits for the worker to be gone, and returns.
Closed ==
  /\ session = "closing"
  /\ events # <<>> /\ Head(events).kind = "closed"
  /\ worker = "gone"
  /\ session' = "closed"
  /\ events' = <<>>
  /\ UNCHANGED <<asked, verdict, broken, terminal, root, requests, typed, counted>>

\* close() hears something else, the end, or nothing for five seconds.
NotClosed ==
  /\ session = "closing"
  /\ \/ /\ events # <<>> /\ Head(events).kind # "closed"
        /\ UNCHANGED faults
     \/ events = <<>> /\ worker = "gone" /\ UNCHANGED faults
     \/ events = <<>> /\ worker # "gone" /\ Fault
  /\ Dropped
  /\ UNCHANGED <<root, requests, typed, asks, inputs>>

\* The coordinator is killed, or open() ran out of time.
Crash ==
  /\ Open
  /\ Fault
  /\ Dropped
  /\ UNCHANGED <<root, requests, typed, asks, inputs>>
-----------------------------------------------------------------------------
(* The worker *)

Leave == worker' = "gone" /\ held' = FALSE /\ connected' = FALSE

\* serve(): polkit starts the worker, which takes the root lock and says so.
Authorize ==
  /\ worker = "authorizing"
  /\ UNCHANGED tool
  /\ \/ /\ Told("ready")
        /\ worker' = "serving"
        /\ held' = TRUE
        /\ UNCHANGED connected
     \/ /\ Told("error")
        /\ Leave
     \/ /\ UNCHANGED <<events, faults>>
        /\ Leave
  /\ UNCHANGED <<coordinator, consumed, alive, requests, typed, asks, inputs>>

Request(kind) ==
  /\ worker = "serving"
  /\ requests # <<>> /\ Head(requests).kind = kind
  /\ requests' = Tail(requests)

\* A step that may be tried.
Allowed(s) == s \in Granted \ consumed

\* A Start request that is not carried out: attempted before, not granted (or
\* no longer, when policy or provider changed), or its tool could not be started.
ServeRefused ==
  /\ Request("start")
  /\ LET s == Head(requests).step IN
       \/ UNCHANGED consumed
       \/ Allowed(s) /\ consumed' = consumed \union {s}
  /\ tool' = Head(requests).step
  /\ worker' = "refusing"
  /\ UNCHANGED <<coordinator, held, alive, connected, events, typed, counted>>

\* Mutant: nothing is said.
RefusedSilently ==
  /\ worker = "refusing"
  /\ worker' = "serving"
  /\ UNCHANGED <<coordinator, held, consumed, tool, alive, connected, requests,
                 events, typed, counted>>

\* Its Error event; the worker serves on if that could be sent.
SayRefused ==
  /\ worker = "refusing"
  /\ UNCHANGED tool
  /\ \/ Told("error") /\ worker' = "serving" /\ UNCHANGED <<held, connected>>
     \/ Untold /\ Leave
  /\ UNCHANGED <<coordinator, consumed, alive, requests, typed, asks, inputs>>

ServeStart ==
  /\ Request("start")
  /\ LET s == Head(requests).step IN
       /\ Allowed(s)
       /\ consumed' = consumed \union {s}
       /\ tool' = s
  /\ alive' = TRUE
  /\ worker' = "running"
  /\ \/ Told("started") /\ connected' = TRUE
     \/ Untold /\ connected' = FALSE
  /\ UNCHANGED <<coordinator, held, typed, asks, inputs>>

\* A typed line is no request: the reader fails and the worker leaves.
ServeInput ==
  /\ Request("input")
  /\ Leave
  /\ UNCHANGED <<coordinator, consumed, tool, alive, events, typed, counted>>

\* Mutant: Closed is said before grant and protection are dropped.
ClosedFirst ==
  /\ Request("finish")
  /\ worker' = "leaving"
  /\ UNCHANGED <<held, tool>>
  /\ Told("closed")
  /\ UNCHANGED <<coordinator, consumed, alive, connected, typed, asks, inputs>>

ServeFinish ==
  /\ Request("finish")
  /\ worker' = "leaving"
  /\ held' = FALSE
  /\ UNCHANGED <<coordinator, consumed, tool, alive, connected, events, typed, counted>>

SayClosed ==
  /\ worker = "leaving"
  /\ UNCHANGED tool
  /\ Told("closed") \/ Untold
  /\ Leave
  /\ UNCHANGED <<coordinator, consumed, alive, requests, typed, asks, inputs>>

\* Mutant: the end of the stream is taken for an empty read.
EndRetried ==
  /\ worker = "serving"
  /\ requests = <<>>
  /\ ~Open
  /\ UNCHANGED vars

ServeEnd ==
  /\ worker = "serving"
  /\ requests = <<>>
  /\ ~Open
  /\ Leave
  /\ UNCHANGED <<coordinator, consumed, tool, alive, requests, events, typed, counted>>

\* forward(): whatever frame comes next is a line for the tool.  A tool that has
\* closed its terminal cannot be given one, and the session counts as gone.
ForwardInput ==
  /\ worker = "running"
  /\ connected
  /\ requests # <<>>
  /\ requests' = Tail(requests)
  /\ typed' = typed \union {Head(requests).kind}
  /\ connected' \in (IF alive THEN {TRUE} ELSE BOOLEAN)
  /\ UNCHANGED <<coordinator, worker, held, consumed, tool, alive, events, counted>>

\* forward(): the session is gone, or a write to it timed out.
Disconnect ==
  /\ worker = "running"
  /\ connected
  /\ IF Open THEN Fault ELSE UNCHANGED faults
  /\ connected' = FALSE
  /\ UNCHANGED <<coordinator, worker, held, consumed, tool, alive, requests,
                 events, typed, asks, inputs>>

ToolExits ==
  /\ alive
  /\ alive' = FALSE
  /\ UNCHANGED <<coordinator, worker, held, consumed, tool, connected, requests,
                 events, typed, counted>>

\* Mutant: a worker whose session is gone does not wait for its tool.
OverWhenDisconnected == ~alive \/ ~connected
ToolOver == ~alive

\* forward() after the tool has ended: its exit is reported, and the worker
\* serves on; a worker that can no longer report leaves.
Report ==
  /\ worker = "running"
  /\ ToolOver
  /\ UNCHANGED tool
  /\ \/ /\ connected
        /\ \E kind \in {"done", "failed", "error"} : Told(kind)
        /\ worker' = "serving"
        /\ UNCHANGED <<held, connected>>
     \/ /\ connected
        /\ Untold
        /\ Leave
     \/ /\ ~connected
        /\ UNCHANGED <<events, faults>>
        /\ Leave
  /\ UNCHANGED <<coordinator, consumed, alive, requests, typed, asks, inputs>>
-----------------------------------------------------------------------------
(* The specification *)

Init ==
  /\ session = "opening"
  /\ asked = NoStep
  /\ verdict = NoVerdict
  /\ broken = FALSE
  /\ terminal = FALSE
  /\ worker = "authorizing"
  /\ held = FALSE
  /\ consumed = {}
  /\ tool = NoStep
  /\ alive = FALSE
  /\ connected = FALSE
  /\ requests = <<>>
  /\ events = <<>>
  /\ typed = {}
  /\ asks = 0
  /\ inputs = 0
  /\ faults = 0

\* What the session does by itself once it has been asked for something.
SessionRuns ==
  Opened \/ NotOpened \/ Ask \/ Hear \/ HearEnd \/ Settle \/ Closed \/ NotClosed

WorkerRuns ==
  \/ Authorize \/ ServeRefused \/ SayRefused \/ ServeStart \/ ServeInput
  \/ ServeFinish \/ SayClosed \/ ServeEnd \/ ForwardInput \/ Disconnect \/ Report

\* Both programs are through; nothing is left that could happen.
Over == ~Open /\ worker = "gone" /\ UNCHANGED vars

Next ==
  \/ Over
  \/ SessionRuns
  \/ (\E s \in Step : Attend(s)) \/ Close \/ Input \/ Crash
  \/ WorkerRuns \/ ToolExits

Spec == Init /\ [][Next]_vars

\* Both programs are scheduled, polkit's question is answered one way or the
\* other, and a native tool ends.
Fairness == WF_vars(SessionRuns) /\ WF_vars(WorkerRuns) /\ WF_vars(ToolExits)

FairSpec == Spec /\ Fairness
-----------------------------------------------------------------------------
(* Properties *)

SessionTypes ==
  /\ session \in {"opening", "idle", "attending", "asked", "answered",
                  "closing", "closed", "dropped"}
  /\ asked \in Step \union {NoStep}
  /\ verdict \in [result : {"none", "done", "failed", "error", "lost"},
                  step : Step \union {NoStep}]
  /\ broken \in BOOLEAN /\ terminal \in BOOLEAN
WorkerTypes ==
  /\ worker \in {"authorizing", "serving", "refusing", "running", "leaving",
                 "gone"}
  /\ held \in BOOLEAN /\ alive \in BOOLEAN /\ connected \in BOOLEAN
  /\ consumed \subseteq Granted
  /\ tool \in Step \union {NoStep}
StreamTypes ==
  /\ requests \in Seq(Frame) /\ events \in Seq(Event)
  /\ typed \subseteq {"start", "finish", "input"}
  /\ asks \in 0 .. MaxAsks /\ inputs \in 0 .. MaxInputs /\ faults \in 0 .. MaxFaults

\* The types of session, worker and stream; the worker has tried granted steps
\* only.
TypeOK == SessionTypes /\ WorkerTypes /\ StreamTypes

\* An answer to run() is the worker's answer to the very step that was asked,
\* although the events of the stream name none: a late event of an earlier
\* step is never taken for it, whatever was lost before.
AnswersMatch ==
  /\ session = "answered" => verdict.step = asked
  /\ session = "answered" /\ verdict.result = "done" => asked \in consumed

\* A native tool is only ever given lines that somebody typed, never a request
\* of the coordinator that reached the worker while it forwards.
OnlyTypedLines == typed \subseteq {"input"}

\* Why both hold, part by part: the stream carries one request at a time, the
\* worker takes no second one while it is busy with a step, and an unbroken
\* session that waits for nothing has nothing left to read.
TypedOnly(q) == \A i \in DOMAIN q : q[i].kind = "input"
Single(q) ==
  \A i, j \in DOMAIN q : q[i].kind # "input" /\ q[j].kind # "input" => i = j
Settled == worker \in {"serving", "gone"}

OneRequest == Single(requests)
BusyWithOne ==
  worker \in {"refusing", "running", "leaving"} => TypedOnly(requests)
NotYetOpen ==
  session = "opening" =>
    /\ ~broken /\ ~terminal
    /\ requests = <<>>
    /\ worker \in {"authorizing", "serving", "gone"}
    /\ Len(events) <= 1
    /\ worker = "authorizing" => events = <<>>
NothingPending ==
  session \in {"idle", "attending", "answered"} /\ ~broken =>
    Settled /\ TypedOnly(requests) /\ events = <<>>
AskedOfWorker ==
  session = "asked" =>
    /\ ~broken
    /\ worker \in {"serving", "refusing", "running", "gone"}
    /\ worker \in {"refusing", "running"} => tool = asked
OnlyItsRequest ==
  session = "asked" =>
    \A i \in DOMAIN requests :
      requests[i].kind # "input" =>
        requests[i].kind = "start" /\ requests[i].step = asked
OnlyItsEvents ==
  session = "asked" =>
    \A i \in DOMAIN events :
      /\ events[i].kind \in {"started", "done", "failed", "error"}
      /\ events[i].step = asked
      /\ events[i].kind # "started" =>
           i = Len(events) /\ Settled /\ TypedOnly(requests)
      /\ events[i].kind = "done" => asked \in consumed
WorkerHolds ==
  /\ held <=> worker \in {"serving", "refusing", "running"}
  /\ alive => worker = "running"
  /\ worker = "running" => tool \in consumed

\* The parts together, an inductive invariant of run(), close(), serve_grant()
\* and forward().
StreamInvariant ==
  /\ OneRequest /\ BusyWithOne /\ NotYetOpen /\ NothingPending
  /\ AskedOfWorker /\ OnlyItsRequest /\ OnlyItsEvents /\ WorkerHolds
  /\ AnswersMatch /\ OnlyTypedLines

\* Once the session can read that the authorization is closed, the worker has
\* let go of the root lock and no tool of it is alive.
ReleasedBeforeClosed ==
  (\E i \in DOMAIN events : events[i].kind = "closed") => ~held /\ ~alive

\* What the worker's state says of its authority.
Root == INSTANCE RootAuthority
  WITH held    <- held,
       over    <- worker \in {"leaving", "gone"},
       running <- IF alive THEN tool ELSE NoStep,
       tried   <- consumed

\* The authority of the worker is what was granted, once and in turn, and ends
\* for good but never under a running tool.
ImplementsAuthority == Root!Spec

\* A step that was asked for is answered, by the worker or by the end of its
\* stream.
StepAnswered == session = "asked" ~> session # "asked"

\* Without a session the worker leaves and its authority with it.
WorkerLeaves == ~Open ~> worker = "gone" /\ ~alive
=============================================================================
