------------------------ MODULE JobAuthorization_proofs ------------------------
(***************************************************************************)
(* Theorems about one authorization: its types, that it gives the root     *)
(* worker no more than RootAuthority allows, and that neither an answer    *)
(* nor a typed line is ever taken for something else.                      *)
(***************************************************************************)
EXTENDS JobAuthorization, TLAPS

\* What Append and Tail do to a queue, index by index.
LEMMA Appended ==
  ASSUME NEW S, NEW q \in Seq(S), NEW e \in S
  PROVE  /\ Append(q, e) \in Seq(S)
         /\ Len(Append(q, e)) = Len(q) + 1
         /\ DOMAIN Append(q, e) = 1 .. Len(q) + 1
         /\ DOMAIN q = 1 .. Len(q)
         /\ Len(q) \in Nat
         /\ \A i \in DOMAIN q : Append(q, e)[i] = q[i]
         /\ Append(q, e)[Len(q) + 1] = e
OBVIOUS

\* What Head and Tail give of a queue, index by index.
LEMMA Taken ==
  ASSUME NEW S, NEW q \in Seq(S), q # <<>>
  PROVE  /\ Tail(q) \in Seq(S)
         /\ Head(q) = q[1] /\ q[1] \in S
         /\ Len(q) \in Nat \ {0}
         /\ DOMAIN q = 1 .. Len(q)
         /\ Len(Tail(q)) = Len(q) - 1
         /\ DOMAIN Tail(q) = 1 .. Len(q) - 1
         /\ \A i \in DOMAIN Tail(q) : i + 1 \in DOMAIN q /\ Tail(q)[i] = q[i + 1]
OBVIOUS
-----------------------------------------------------------------------------
(* Types *)

\* A frame that is written, or may have been, keeps the types of the stream.
LEMMA SentType ==
  ASSUME TypeOK, NEW kind \in {"start", "finish", "input"},
         NEW step \in Step \union {NoStep}, Sent(kind, step) \/ Unsent(kind, step)
  PROVE  requests' \in Seq(Frame) /\ faults' \in 0 .. MaxFaults
<1>1. [kind |-> kind, step |-> step] \in Frame
  BY DEF Frame
<1>2. requests \in Seq(Frame)
      /\ Append(requests, [kind |-> kind, step |-> step]) \in Seq(Frame)
  BY <1>1, Appended DEF TypeOK, StreamTypes
<1>3. requests' \in Seq(Frame)
  BY <1>2 DEF Sent, Unsent
<1>4. faults' \in 0 .. MaxFaults
  BY BoundAssumption DEF TypeOK, StreamTypes, Sent, Unsent, Fault
<1> QED BY <1>3, <1>4

\* So does an event.
LEMMA ToldType ==
  ASSUME TypeOK, NEW kind \in {"ready", "started", "done", "failed", "error", "closed"},
         tool' \in Step \union {NoStep}, Told(kind) \/ Untold
  PROVE  events' \in Seq(Event) /\ faults' \in 0 .. MaxFaults
<1>1. [kind |-> kind, step |-> tool'] \in Event
  BY DEF Event
<1>2. events' \in Seq(Event)
  BY <1>1, Appended DEF TypeOK, StreamTypes, Told, Untold
<1>3. faults' \in 0 .. MaxFaults
  BY BoundAssumption DEF TypeOK, StreamTypes, Told, Untold, Fault
<1> QED BY <1>2, <1>3

\* One action of the session.
LEMMA SessionStepType ==
  ASSUME TypeOK,
         \/ SessionRuns \/ (\E s \in Step : Attend(s)) \/ Close \/ Input
         \/ Crash \/ Over
  PROVE  TypeOK'
<1> USE BoundAssumption, GrantAssumption
<1>1. CASE Opened
  <2>1. Tail(events) \in Seq(Event)
    BY <1>1, Taken DEF TypeOK, StreamTypes, Opened
  <2>2. SessionTypes'
    BY <1>1 DEF TypeOK, SessionTypes, Opened
  <2>3. WorkerTypes'
    BY <1>1 DEF TypeOK, WorkerTypes, Opened, root
  <2>4. StreamTypes'
    BY <1>1, <2>1 DEF TypeOK, StreamTypes, Opened, counted
  <2> QED BY <2>2, <2>3, <2>4 DEF TypeOK
<1>2. CASE NotOpened
  <2>1. SessionTypes'
    BY <1>2 DEF TypeOK, SessionTypes, NotOpened, Dropped
  <2>2. WorkerTypes'
    BY <1>2 DEF TypeOK, WorkerTypes, NotOpened, root
  <2>3. StreamTypes'
    BY <1>2 DEF TypeOK, StreamTypes, NotOpened, Dropped, counted
  <2> QED BY <2>1, <2>2, <2>3 DEF TypeOK
<1>3. CASE \E s \in Step : Attend(s)
  <2>1. SessionTypes'
    BY <1>3 DEF TypeOK, SessionTypes, Attend
  <2>2. WorkerTypes'
    BY <1>3 DEF TypeOK, WorkerTypes, Attend, root
  <2>3. StreamTypes'
    BY <1>3 DEF TypeOK, StreamTypes, Attend
  <2> QED BY <2>1, <2>2, <2>3 DEF TypeOK
<1>4. CASE Ask
  <2>1. requests' \in Seq(Frame) /\ faults' \in 0 .. MaxFaults
    <3>1. \/ Sent("start", asked) \/ Unsent("start", asked)
          \/ UNCHANGED <<requests, faults>>
      BY <1>4, Zenon DEF Ask
    <3>2. asked \in Step \union {NoStep}
      BY DEF TypeOK, SessionTypes
    <3> QED BY <3>1, <3>2, SentType DEF TypeOK, StreamTypes
  <2>2. verdict' \in [result : {"none", "done", "failed", "error", "lost"},
                     step : Step \union {NoStep}]
    BY <1>4 DEF TypeOK, SessionTypes, Ask
  <2>3. broken' \in BOOLEAN
    BY <1>4, Zenon DEF TypeOK, SessionTypes, Ask, BrokenByFailure
  <2>4. SessionTypes'
    BY <1>4, <2>2, <2>3 DEF TypeOK, SessionTypes, Ask
  <2>5. WorkerTypes'
    BY <1>4 DEF TypeOK, WorkerTypes, Ask, root
  <2>6. StreamTypes'
    BY <1>4, <2>1 DEF TypeOK, StreamTypes, Ask
  <2> QED BY <2>4, <2>5, <2>6 DEF TypeOK
<1>5. CASE Hear
  <2>1. events[1] \in Event /\ Head(events) = events[1] /\ Tail(events) \in Seq(Event)
    BY <1>5, Taken DEF TypeOK, StreamTypes, Hear
  <2>2. verdict' \in [result : {"none", "done", "failed", "error", "lost"},
                     step : Step \union {NoStep}]
    BY <1>5, <2>1 DEF TypeOK, SessionTypes, Hear, Event
  <2>3. broken' \in BOOLEAN
    BY <1>5, Zenon DEF TypeOK, SessionTypes, Hear
  <2>4. SessionTypes'
    BY <1>5, <2>2, <2>3 DEF TypeOK, SessionTypes, Hear
  <2>5. WorkerTypes'
    BY <1>5 DEF TypeOK, WorkerTypes, Hear, root
  <2>6. StreamTypes'
    BY <1>5, <2>1 DEF TypeOK, StreamTypes, Hear, counted
  <2> QED BY <2>4, <2>5, <2>6 DEF TypeOK
<1>6. CASE HearEnd
  <2>1. SessionTypes'
    BY <1>6 DEF TypeOK, SessionTypes, HearEnd
  <2>2. WorkerTypes'
    BY <1>6 DEF TypeOK, WorkerTypes, HearEnd, root
  <2>3. StreamTypes'
    BY <1>6 DEF TypeOK, StreamTypes, HearEnd, counted
  <2> QED BY <2>1, <2>2, <2>3 DEF TypeOK
<1>7. CASE Settle
  <2>1. SessionTypes'
    BY <1>7 DEF TypeOK, SessionTypes, Settle
  <2>2. WorkerTypes'
    BY <1>7 DEF TypeOK, WorkerTypes, Settle, root
  <2>3. StreamTypes'
    BY <1>7 DEF TypeOK, StreamTypes, Settle, counted
  <2> QED BY <2>1, <2>2, <2>3 DEF TypeOK
<1>8. CASE Input
  <2>1. requests' \in Seq(Frame) /\ faults' \in 0 .. MaxFaults
    BY <1>8, SentType DEF TypeOK, SessionTypes, Input
  <2>2. SessionTypes'
    BY <1>8 DEF TypeOK, SessionTypes, Input, coordinator
  <2>3. WorkerTypes'
    BY <1>8 DEF TypeOK, WorkerTypes, Input, root
  <2>4. StreamTypes'
    BY <1>8, <2>1 DEF TypeOK, StreamTypes, Input
  <2> QED BY <2>2, <2>3, <2>4 DEF TypeOK
<1>9. CASE Close
  <2>1. requests' \in Seq(Frame) /\ faults' \in 0 .. MaxFaults
    BY <1>9, SentType DEF TypeOK, StreamTypes, Close
  <2>2. events' \in Seq(Event)
    <3>1. events' = events \/ events' = <<>>
      BY <1>9, Zenon DEF Close, Dropped
    <3>2. events \in Seq(Event)
      BY DEF TypeOK, StreamTypes
    <3>3. <<>> \in Seq(Event)
      OBVIOUS
    <3> QED BY <3>1, <3>2, <3>3
  <2>3. SessionTypes'
    BY <1>9 DEF TypeOK, SessionTypes, Close, Dropped
  <2>4. WorkerTypes'
    BY <1>9 DEF TypeOK, WorkerTypes, Close, root
  <2>5. StreamTypes'
    BY <1>9, <2>1, <2>2 DEF TypeOK, StreamTypes, Close
  <2> QED BY <2>3, <2>4, <2>5 DEF TypeOK
<1>10. CASE Closed
  <2>1. SessionTypes'
    BY <1>10 DEF TypeOK, SessionTypes, Closed
  <2>2. WorkerTypes'
    BY <1>10 DEF TypeOK, WorkerTypes, Closed, root
  <2>3. StreamTypes'
    BY <1>10 DEF TypeOK, StreamTypes, Closed, counted
  <2> QED BY <2>1, <2>2, <2>3 DEF TypeOK
<1>11. CASE NotClosed
  <2>1. faults' \in 0 .. MaxFaults
    BY <1>11 DEF TypeOK, StreamTypes, NotClosed, Fault
  <2>2. SessionTypes'
    BY <1>11 DEF TypeOK, SessionTypes, NotClosed, Dropped
  <2>3. WorkerTypes'
    BY <1>11 DEF TypeOK, WorkerTypes, NotClosed, root
  <2>4. StreamTypes'
    BY <1>11, <2>1 DEF TypeOK, StreamTypes, NotClosed, Dropped
  <2> QED BY <2>2, <2>3, <2>4 DEF TypeOK
<1>12. CASE Crash
  <2>1. faults' \in 0 .. MaxFaults
    BY <1>12 DEF TypeOK, StreamTypes, Crash, Fault
  <2>2. SessionTypes'
    BY <1>12 DEF TypeOK, SessionTypes, Crash, Dropped
  <2>3. WorkerTypes'
    BY <1>12 DEF TypeOK, WorkerTypes, Crash, root
  <2>4. StreamTypes'
    BY <1>12, <2>1 DEF TypeOK, StreamTypes, Crash, Dropped
  <2> QED BY <2>2, <2>3, <2>4 DEF TypeOK
<1>13. CASE Over
  <2>1. SessionTypes'
    BY <1>13 DEF TypeOK, SessionTypes, Over, vars, coordinator
  <2>2. WorkerTypes'
    BY <1>13 DEF TypeOK, WorkerTypes, Over, vars, root
  <2>3. StreamTypes'
    BY <1>13 DEF TypeOK, StreamTypes, Over, vars, counted
  <2> QED BY <2>1, <2>2, <2>3 DEF TypeOK
<1> QED
  BY <1>1, <1>2, <1>3, <1>4, <1>5, <1>6, <1>7, <1>8, <1>9, <1>10, <1>11,
     <1>12, <1>13 DEF SessionRuns

\* One action of the worker or of its tool.
LEMMA WorkerStepType ==
  ASSUME TypeOK, WorkerRuns \/ ToolExits
  PROVE  TypeOK'
<1> USE BoundAssumption, GrantAssumption
<1>1. CASE Authorize
  <2>1. events' \in Seq(Event) /\ faults' \in 0 .. MaxFaults
    BY <1>1, ToldType DEF TypeOK, WorkerTypes, StreamTypes, Authorize
  <2>2. SessionTypes'
    BY <1>1 DEF TypeOK, SessionTypes, Authorize, coordinator
  <2>3. WorkerTypes'
    BY <1>1 DEF TypeOK, WorkerTypes, Authorize, Leave
  <2>4. StreamTypes'
    BY <1>1, <2>1 DEF TypeOK, StreamTypes, Authorize
  <2> QED BY <2>2, <2>3, <2>4 DEF TypeOK
<1>2. ASSUME NEW kind, Request(kind)
      PROVE  /\ Tail(requests) \in Seq(Frame)
             /\ Head(requests).step \in Step \union {NoStep}
             /\ Head(requests).kind \in {"start", "finish", "input"}
  <2>1. requests \in Seq(Frame) /\ requests # <<>>
    BY <1>2 DEF TypeOK, StreamTypes, Request
  <2>2. Tail(requests) \in Seq(Frame) /\ Head(requests) \in Frame
    BY <2>1, Taken
  <2> QED BY <2>2 DEF Frame
<1>3. CASE ServeRefused
  <2>1. requests' \in Seq(Frame)
    BY <1>2, <1>3 DEF ServeRefused, Request
  <2>2. consumed' \subseteq Granted
    BY <1>3 DEF TypeOK, WorkerTypes, ServeRefused, Allowed
  <2>3. tool' \in Step \union {NoStep}
    BY <1>2, <1>3 DEF ServeRefused, Request
  <2>4. SessionTypes'
    BY <1>3 DEF TypeOK, SessionTypes, ServeRefused, coordinator
  <2>5. WorkerTypes'
    BY <1>3, <2>2, <2>3 DEF TypeOK, WorkerTypes, ServeRefused
  <2>6. StreamTypes'
    BY <1>3, <2>1 DEF TypeOK, StreamTypes, ServeRefused, counted
  <2> QED BY <2>4, <2>5, <2>6 DEF TypeOK
<1>4. CASE SayRefused
  <2>1. events' \in Seq(Event) /\ faults' \in 0 .. MaxFaults
    BY <1>4, ToldType DEF TypeOK, WorkerTypes, StreamTypes, SayRefused
  <2>2. SessionTypes'
    BY <1>4 DEF TypeOK, SessionTypes, SayRefused, coordinator
  <2>3. WorkerTypes'
    BY <1>4 DEF TypeOK, WorkerTypes, SayRefused, Leave
  <2>4. StreamTypes'
    BY <1>4, <2>1 DEF TypeOK, StreamTypes, SayRefused
  <2> QED BY <2>2, <2>3, <2>4 DEF TypeOK
<1>5. CASE ServeStart
  <2>1. requests' \in Seq(Frame)
    BY <1>2, <1>5 DEF ServeStart, Request
  <2>2. consumed' \subseteq Granted
    BY <1>5 DEF TypeOK, WorkerTypes, ServeStart, Allowed
  <2>3. tool' \in Step \union {NoStep}
    BY <1>2, <1>5 DEF ServeStart, Request
  <2>4. events' \in Seq(Event) /\ faults' \in 0 .. MaxFaults
    BY <1>5, <2>3, ToldType DEF ServeStart
  <2>5. SessionTypes'
    BY <1>5 DEF TypeOK, SessionTypes, ServeStart, coordinator
  <2>6. WorkerTypes'
    BY <1>5, <2>2, <2>3 DEF TypeOK, WorkerTypes, ServeStart
  <2>7. StreamTypes'
    BY <1>5, <2>1, <2>4 DEF TypeOK, StreamTypes, ServeStart
  <2> QED BY <2>5, <2>6, <2>7 DEF TypeOK
<1>6. CASE ServeInput
  <2>1. requests' \in Seq(Frame)
    BY <1>2, <1>6 DEF ServeInput, Request
  <2>2. SessionTypes'
    BY <1>6 DEF TypeOK, SessionTypes, ServeInput, coordinator
  <2>3. WorkerTypes'
    BY <1>6 DEF TypeOK, WorkerTypes, ServeInput, Leave
  <2>4. StreamTypes'
    BY <1>6, <2>1 DEF TypeOK, StreamTypes, ServeInput, counted
  <2> QED BY <2>2, <2>3, <2>4 DEF TypeOK
<1>7. CASE ServeFinish
  <2>1. requests' \in Seq(Frame)
    BY <1>2, <1>7 DEF ServeFinish, Request
  <2>2. SessionTypes'
    BY <1>7 DEF TypeOK, SessionTypes, ServeFinish, coordinator
  <2>3. WorkerTypes'
    BY <1>7 DEF TypeOK, WorkerTypes, ServeFinish
  <2>4. StreamTypes'
    BY <1>7, <2>1 DEF TypeOK, StreamTypes, ServeFinish, counted
  <2> QED BY <2>2, <2>3, <2>4 DEF TypeOK
<1>8. CASE SayClosed
  <2>1. events' \in Seq(Event) /\ faults' \in 0 .. MaxFaults
    BY <1>8, ToldType DEF TypeOK, WorkerTypes, StreamTypes, SayClosed
  <2>2. SessionTypes'
    BY <1>8 DEF TypeOK, SessionTypes, SayClosed, coordinator
  <2>3. WorkerTypes'
    BY <1>8 DEF TypeOK, WorkerTypes, SayClosed, Leave
  <2>4. StreamTypes'
    BY <1>8, <2>1 DEF TypeOK, StreamTypes, SayClosed
  <2> QED BY <2>2, <2>3, <2>4 DEF TypeOK
<1>9. CASE ServeEnd
  <2>1. SessionTypes'
    BY <1>9 DEF TypeOK, SessionTypes, ServeEnd, coordinator
  <2>2. WorkerTypes'
    BY <1>9 DEF TypeOK, WorkerTypes, ServeEnd, Leave
  <2>3. StreamTypes'
    BY <1>9 DEF TypeOK, StreamTypes, ServeEnd, counted
  <2> QED BY <2>1, <2>2, <2>3 DEF TypeOK
<1>10. CASE ForwardInput
  <2>1. requests \in Seq(Frame) /\ requests # <<>>
    BY <1>10 DEF TypeOK, StreamTypes, ForwardInput
  <2>2. Tail(requests) \in Seq(Frame) /\ Head(requests) \in Frame
    BY <2>1, Taken
  <2>3. Head(requests).kind \in {"start", "finish", "input"}
    BY <2>2 DEF Frame
  <2>4. SessionTypes'
    BY <1>10 DEF TypeOK, SessionTypes, ForwardInput, coordinator
  <2>5. WorkerTypes'
    BY <1>10 DEF TypeOK, WorkerTypes, ForwardInput
  <2>6. StreamTypes'
    BY <1>10, <2>2, <2>3 DEF TypeOK, StreamTypes, ForwardInput, counted
  <2> QED BY <2>4, <2>5, <2>6 DEF TypeOK
<1>11. CASE Disconnect
  <2>1. faults' \in 0 .. MaxFaults
    BY <1>11 DEF TypeOK, StreamTypes, Disconnect, Fault
  <2>2. SessionTypes'
    BY <1>11 DEF TypeOK, SessionTypes, Disconnect, coordinator
  <2>3. WorkerTypes'
    BY <1>11 DEF TypeOK, WorkerTypes, Disconnect
  <2>4. StreamTypes'
    BY <1>11, <2>1 DEF TypeOK, StreamTypes, Disconnect
  <2> QED BY <2>2, <2>3, <2>4 DEF TypeOK
<1>12. CASE Report
  <2>1. events' \in Seq(Event) /\ faults' \in 0 .. MaxFaults
    BY <1>12, ToldType DEF TypeOK, WorkerTypes, StreamTypes, Report
  <2>2. SessionTypes'
    BY <1>12 DEF TypeOK, SessionTypes, Report, coordinator
  <2>3. WorkerTypes'
    BY <1>12 DEF TypeOK, WorkerTypes, Report, Leave
  <2>4. StreamTypes'
    BY <1>12, <2>1 DEF TypeOK, StreamTypes, Report
  <2> QED BY <2>2, <2>3, <2>4 DEF TypeOK
<1>13. CASE ToolExits
  <2>1. SessionTypes'
    BY <1>13 DEF TypeOK, SessionTypes, ToolExits, coordinator
  <2>2. WorkerTypes'
    BY <1>13 DEF TypeOK, WorkerTypes, ToolExits
  <2>3. StreamTypes'
    BY <1>13 DEF TypeOK, StreamTypes, ToolExits, counted
  <2> QED BY <2>1, <2>2, <2>3 DEF TypeOK
<1> QED
  BY <1>1, <1>3, <1>4, <1>5, <1>6, <1>7, <1>8, <1>9, <1>10, <1>11, <1>12,
     <1>13 DEF WorkerRuns

\* Every step of session, worker and tool keeps the types.
LEMMA ChannelStep ==
  ASSUME TypeOK, [Next]_vars
  PROVE  TypeOK'
<1>1. CASE UNCHANGED vars
  BY <1>1 DEF TypeOK, SessionTypes, WorkerTypes, StreamTypes, vars,
              coordinator, root, counted
<1> QED BY <1>1, SessionStepType, WorkerStepType DEF Next

\* Every variable of session, worker and stream keeps its type; in particular
\* the worker only ever tries steps that were granted.
THEOREM ChannelTypes == Spec => []TypeOK
<1>1. Init => TypeOK
  <2> SUFFICES ASSUME Init PROVE TypeOK
    OBVIOUS
  <2>1. SessionTypes
    BY DEF Init, SessionTypes, NoVerdict
  <2>2. WorkerTypes
    BY DEF Init, WorkerTypes
  <2>3. StreamTypes
    BY BoundAssumption DEF Init, StreamTypes
  <2> QED BY <2>1, <2>2, <2>3 DEF TypeOK
<1>2. TypeOK /\ [Next]_vars => TypeOK'
  BY ChannelStep
<1> QED BY <1>1, <1>2, PTL DEF Spec
-----------------------------------------------------------------------------
(* The worker and its authority *)

\* The session's own steps leave the worker alone.
LEMMA SessionKeepsRoot ==
  ASSUME \/ SessionRuns \/ (\E s \in Step : Attend(s)) \/ Close \/ Input
         \/ Crash \/ Over
  PROVE  UNCHANGED root
BY Zenon DEF SessionRuns, Opened, NotOpened, Attend, Ask, Hear, HearEnd, Settle,
   Input, Close, Closed, NotClosed, Crash, Over, vars

\* Where the worker is decides what it holds and whether its tool can be alive.
LEMMA WorkerHoldsStep ==
  ASSUME TypeOK, WorkerHolds, [Next]_vars
  PROVE  WorkerHolds'
<1>1. CASE UNCHANGED root
  BY <1>1 DEF WorkerHolds, root
<1>2. CASE Authorize
  BY <1>2 DEF WorkerHolds, Authorize, Leave
<1>3. CASE ServeRefused
  BY <1>3 DEF WorkerHolds, ServeRefused, Request
<1>4. CASE SayRefused
  BY <1>4 DEF WorkerHolds, SayRefused, Leave
<1>5. CASE ServeStart
  BY <1>5 DEF WorkerHolds, ServeStart, Request
<1>6. CASE ServeInput
  BY <1>6 DEF WorkerHolds, ServeInput, Request, Leave
<1>7. CASE ServeFinish
  BY <1>7 DEF WorkerHolds, ServeFinish, Request
<1>8. CASE SayClosed
  BY <1>8 DEF WorkerHolds, SayClosed, Leave
<1>9. CASE ServeEnd
  BY <1>9 DEF WorkerHolds, ServeEnd, Leave
<1>10. CASE ForwardInput
  BY <1>10 DEF WorkerHolds, ForwardInput
<1>11. CASE Disconnect
  BY <1>11 DEF WorkerHolds, Disconnect
<1>12. CASE Report
  <2>1. ~alive /\ ~alive' /\ held /\ UNCHANGED <<tool, consumed>>
    BY <1>12 DEF WorkerHolds, Report, ToolOver
  <2>2. (worker' = "serving" /\ held' = held) \/ Leave
    BY <1>12, Zenon DEF Report
  <2> QED BY <2>1, <2>2 DEF WorkerHolds, Leave
<1>13. CASE ToolExits
  BY <1>13 DEF WorkerHolds, ToolExits
<1>14. CASE UNCHANGED vars
  BY <1>14, <1>1 DEF vars
<1> QED
  BY <1>1, <1>2, <1>3, <1>4, <1>5, <1>6, <1>7, <1>8, <1>9, <1>10, <1>11,
     <1>12, <1>13, <1>14, SessionKeepsRoot DEF Next, WorkerRuns

\* One step of the channel is one step of the authority, or none.
LEMMA AuthorityStep ==
  ASSUME TypeOK, WorkerHolds, [Next]_vars
  PROVE  [Root!Next]_(Root!authority)
<1> USE DEF Root!Next, Root!authority, Root!Take, Root!Try, Root!ToolExits,
            Root!End
<1>0. /\ consumed \subseteq Granted /\ NoStep \notin Granted
      /\ alive => tool \in Granted
  BY GrantAssumption DEF TypeOK, WorkerTypes, WorkerHolds
<1>1. CASE UNCHANGED root
  BY <1>1 DEF root
<1>2. CASE Authorize
  BY <1>2 DEF WorkerHolds, Authorize, Leave
<1>3. CASE ServeRefused
  <2>1. ~alive /\ held
    BY <1>3 DEF WorkerHolds, ServeRefused, Request
  <2>2. PICK s : \/ UNCHANGED consumed
                 \/ Allowed(s) /\ consumed' = consumed \union {s}
    BY <1>3 DEF ServeRefused
  <2> QED BY <1>3, <2>1, <2>2 DEF ServeRefused, Request, Allowed
<1>4. CASE SayRefused
  <2>1. ~alive /\ ~alive' /\ held /\ UNCHANGED <<tool, consumed>>
    BY <1>4 DEF WorkerHolds, SayRefused
  <2>2. (worker' = "serving" /\ held' = held) \/ Leave
    BY <1>4, Zenon DEF SayRefused
  <2>3. worker = "refusing"
    BY <1>4 DEF SayRefused
  <2>4. CASE worker' = "serving" /\ held' = held
    <3>1. (worker' \in {"leaving", "gone"}) = (worker \in {"leaving", "gone"})
      BY <2>3, <2>4
    <3> QED BY <2>1, <2>4, <3>1
  <2>5. CASE Leave
    BY <2>1, <2>5 DEF Leave
  <2> QED BY <2>2, <2>4, <2>5
<1>5. CASE ServeStart
  <2>1. ~alive /\ held
    BY <1>5 DEF WorkerHolds, ServeStart, Request
  <2>2. Allowed(tool') /\ consumed' = consumed \union {tool'}
    BY <1>5 DEF ServeStart
  <2> QED BY <1>5, <2>1, <2>2 DEF ServeStart, Request, Allowed
<1>6. CASE ServeInput
  BY <1>6 DEF WorkerHolds, ServeInput, Request, Leave
<1>7. CASE ServeFinish
  BY <1>7 DEF WorkerHolds, ServeFinish, Request
<1>8. CASE SayClosed
  BY <1>8 DEF WorkerHolds, SayClosed, Leave
<1>9. CASE ServeEnd
  BY <1>9 DEF WorkerHolds, ServeEnd, Leave
<1>10. CASE ForwardInput
  BY <1>10 DEF WorkerHolds, ForwardInput
<1>11. CASE Disconnect
  BY <1>11 DEF Disconnect
<1>12. CASE Report
  <2>1. ~alive /\ ~alive' /\ held /\ UNCHANGED <<tool, consumed>>
    BY <1>12 DEF WorkerHolds, Report, ToolOver
  <2>2. (worker' = "serving" /\ held' = held) \/ Leave
    BY <1>12, Zenon DEF Report
  <2>3. worker = "running"
    BY <1>12 DEF Report
  <2>4. CASE worker' = "serving" /\ held' = held
    <3>1. (worker' \in {"leaving", "gone"}) = (worker \in {"leaving", "gone"})
      BY <2>3, <2>4
    <3> QED BY <2>1, <2>4, <3>1
  <2>5. CASE Leave
    BY <2>1, <2>5 DEF Leave
  <2> QED BY <2>2, <2>4, <2>5
<1>13. CASE ToolExits
  BY <1>0, <1>13 DEF WorkerHolds, ToolExits
<1>14. CASE UNCHANGED vars
  BY <1>14, <1>1 DEF vars
<1> QED
  BY <1>1, <1>2, <1>3, <1>4, <1>5, <1>6, <1>7, <1>8, <1>9, <1>10, <1>11,
     <1>12, <1>13, <1>14, SessionKeepsRoot DEF Next, WorkerRuns

\* The root worker does what RootAuthority allows and nothing else: granted
\* steps, each once, one after the other, and never less than the root lock
\* around a running tool.
THEOREM Authority == Spec => ImplementsAuthority
<1>1. Init => WorkerHolds /\ Root!Init
  BY DEF Init, WorkerHolds, Root!Init
<1>2. TypeOK /\ WorkerHolds /\ [Next]_vars => WorkerHolds'
  BY WorkerHoldsStep
<1>3. TypeOK /\ WorkerHolds /\ [Next]_vars => [Root!Next]_(Root!authority)
  BY AuthorityStep
<1> QED
  BY <1>1, <1>2, <1>3, ChannelTypes, PTL DEF Spec, ImplementsAuthority, Root!Spec
-----------------------------------------------------------------------------
(* Answers and typed lines *)

\* What a frame does to the order of requests when it is written at the end,
LEMMA FrameAppended ==
  ASSUME NEW q \in Seq(Frame), NEW f \in Frame
  PROVE  /\ Len(q) \in Nat
         /\ DOMAIN q = 1 .. Len(q) /\ DOMAIN Append(q, f) = 1 .. Len(q) + 1
         /\ \A i \in DOMAIN q : Append(q, f)[i] = q[i]
         /\ Append(q, f)[Len(q) + 1] = f
         /\ f.kind = "input" /\ TypedOnly(q) => TypedOnly(Append(q, f))
         /\ f.kind = "input" /\ Single(q) => Single(Append(q, f))
         /\ TypedOnly(q) => Single(Append(q, f))
<1> DEFINE r == Append(q, f)
<1>1. /\ Len(q) \in Nat
      /\ DOMAIN q = 1 .. Len(q) /\ DOMAIN r = 1 .. Len(q) + 1
      /\ \A i \in DOMAIN q : r[i] = q[i]
      /\ r[Len(q) + 1] = f
  BY Appended
<1> HIDE DEF r
<1>2. \A i \in DOMAIN r : i \in DOMAIN q \/ i = Len(q) + 1
  BY <1>1
<1>3. f.kind = "input" /\ TypedOnly(q) => TypedOnly(r)
  BY <1>1, <1>2 DEF TypedOnly
<1>4. f.kind = "input" /\ Single(q) => Single(r)
  BY <1>1, <1>2 DEF Single
<1>5. TypedOnly(q) => Single(r)
  BY <1>1, <1>2 DEF Single, TypedOnly
<1> QED BY <1>1, <1>3, <1>4, <1>5 DEF r

\* and when the first one is read.
LEMMA FrameTaken ==
  ASSUME NEW q \in Seq(Frame), q # <<>>, NEW r, r = Tail(q)
  PROVE  /\ Head(q) = q[1] /\ 1 \in DOMAIN q
         /\ r \in Seq(Frame)
         /\ \A i \in DOMAIN r : i + 1 \in DOMAIN q /\ r[i] = q[i + 1]
         /\ TypedOnly(q) => TypedOnly(r)
         /\ Single(q) => Single(r)
         /\ Single(q) /\ Head(q).kind # "input" => TypedOnly(r)
<1>1. /\ Head(q) = q[1] /\ 1 \in DOMAIN q
      /\ r \in Seq(Frame)
      /\ DOMAIN r \subseteq Nat \ {0}
      /\ \A i \in DOMAIN r : i + 1 \in DOMAIN q /\ r[i] = q[i + 1]
  BY Taken
<1>2. TypedOnly(q) => TypedOnly(r)
  BY <1>1 DEF TypedOnly
<1>3. Single(q) => Single(r)
  <2> SUFFICES ASSUME Single(q), NEW i \in DOMAIN r, NEW j \in DOMAIN r,
                      r[i].kind # "input", r[j].kind # "input"
               PROVE  i = j
    BY DEF Single
  <2>1. i + 1 = j + 1
    BY <1>1 DEF Single
  <2> QED BY <2>1, <1>1
<1>4. Single(q) /\ Head(q).kind # "input" => TypedOnly(r)
  <2> SUFFICES ASSUME Single(q), q[1].kind # "input", NEW i \in DOMAIN r
               PROVE  r[i].kind = "input"
    BY <1>1 DEF TypedOnly
  <2>1. i + 1 # 1
    BY <1>1
  <2> QED BY <1>1, <2>1 DEF Single
<1> QED BY <1>1, <1>2, <1>3, <1>4

\* The part of the invariant that is about the stream.
StreamParts ==
  /\ OneRequest /\ BusyWithOne /\ NotYetOpen /\ NothingPending
  /\ AskedOfWorker /\ OnlyItsRequest /\ OnlyItsEvents
  /\ AnswersMatch /\ OnlyTypedLines

\* A step of the session, or none.
LEMMA SessionKeepsStream ==
  ASSUME TypeOK, StreamParts,
         \/ SessionRuns \/ (\E s \in Step : Attend(s)) \/ Close \/ Input
         \/ Crash \/ Over \/ UNCHANGED vars
  PROVE  StreamParts'
<1>0. /\ requests \in Seq(Frame)
      /\ \A kind \in {"start", "finish", "input"} :
           [kind |-> kind, step |-> asked] \in Frame /\ [kind |-> kind, step |-> NoStep] \in Frame
  BY DEF TypeOK, SessionTypes, StreamTypes, Frame
<1>1. CASE Opened
  <2>1. session = "opening" /\ session' = "idle" /\ events # <<>>
      /\ UNCHANGED <<worker, tool, consumed, broken, requests, typed>>
    BY <1>1 DEF Opened, root
  <2>2. events' = <<>>
    BY <1>1, Taken DEF TypeOK, StreamTypes, StreamParts, NotYetOpen, Opened
  <2>3. Settled /\ requests = <<>>
    BY <2>1 DEF StreamParts, NotYetOpen, Settled
  <2>4. TypedOnly(requests')
    BY <2>1, <2>3 DEF TypedOnly
  <2>5. OneRequest' /\ BusyWithOne' /\ OnlyTypedLines'
    BY <2>1, <2>2, <2>3, <2>4
       DEF StreamParts, OneRequest, BusyWithOne, TypedOnly, OnlyTypedLines
  <2>6. NotYetOpen' /\ NothingPending'
    BY <2>1, <2>2, <2>3, <2>4
       DEF StreamParts, NotYetOpen, NothingPending, Settled, TypedOnly
  <2>7. AskedOfWorker' /\ OnlyItsRequest' /\ OnlyItsEvents' /\ AnswersMatch'
    BY <2>1, <2>2, <2>3, <2>4
       DEF StreamParts, AskedOfWorker, OnlyItsRequest, OnlyItsEvents, Settled, TypedOnly, AnswersMatch
  <2> QED BY <2>5, <2>6, <2>7 DEF StreamParts
<1>2. CASE NotOpened
  <2>1. session' = "dropped" /\ UNCHANGED <<worker, tool, consumed, requests, typed>>
    BY <1>2 DEF NotOpened, Dropped, root
  <2>2. OneRequest' /\ BusyWithOne' /\ OnlyTypedLines'
    BY <2>1
       DEF StreamParts, OneRequest, BusyWithOne, TypedOnly, OnlyTypedLines
  <2>3. NotYetOpen' /\ NothingPending'
    BY <2>1
       DEF StreamParts, NotYetOpen, NothingPending, Settled, TypedOnly
  <2>4. AskedOfWorker' /\ OnlyItsRequest' /\ OnlyItsEvents' /\ AnswersMatch'
    BY <2>1
       DEF StreamParts, AskedOfWorker, OnlyItsRequest, OnlyItsEvents, Settled, TypedOnly, AnswersMatch
  <2> QED BY <2>2, <2>3, <2>4 DEF StreamParts
<1>3. CASE \E s \in Step : Attend(s)
  <2>1. session = "idle" /\ session' = "attending"
      /\ UNCHANGED <<worker, tool, consumed, broken, requests, events, typed>>
    BY <1>3 DEF Attend, root
  <2>2. OneRequest' /\ BusyWithOne' /\ OnlyTypedLines'
    BY <2>1
       DEF StreamParts, OneRequest, BusyWithOne, TypedOnly, OnlyTypedLines
  <2>3. NotYetOpen' /\ NothingPending'
    BY <2>1
       DEF StreamParts, NotYetOpen, NothingPending, Settled, TypedOnly
  <2>4. AskedOfWorker' /\ OnlyItsRequest' /\ OnlyItsEvents' /\ AnswersMatch'
    BY <2>1
       DEF StreamParts, AskedOfWorker, OnlyItsRequest, OnlyItsEvents, Settled, TypedOnly, AnswersMatch
  <2> QED BY <2>2, <2>3, <2>4 DEF StreamParts
<1>4. CASE Ask
  <2>1. /\ session = "attending"
        /\ UNCHANGED <<worker, tool, consumed, asked, events, typed>>
    BY <1>4 DEF Ask, root
  <2>2. CASE /\ session' = "answered" /\ broken' /\ verdict' = [result |-> "lost", step |-> asked]
             /\ requests' = requests
    <3>1. OneRequest' /\ BusyWithOne' /\ NotYetOpen' /\ NothingPending' /\ OnlyTypedLines'
      BY <2>1, <2>2 DEF StreamParts, OneRequest, BusyWithOne, NotYetOpen, NothingPending,
                        OnlyTypedLines, TypedOnly
    <3>2. AskedOfWorker' /\ OnlyItsRequest' /\ OnlyItsEvents'
      BY <2>2 DEF AskedOfWorker, OnlyItsRequest, OnlyItsEvents
    <3>3. AnswersMatch'
      BY <2>1, <2>2 DEF AnswersMatch
    <3> QED BY <3>1, <3>2, <3>3 DEF StreamParts
  <2>3. ASSUME ~broken,
               requests' = Append(requests, [kind |-> "start", step |-> asked])
        PROVE  /\ OneRequest' /\ BusyWithOne' /\ OnlyTypedLines'
               /\ Settled /\ events = <<>>
               /\ \A i \in DOMAIN requests' : requests'[i].kind # "input" =>
                    requests'[i].kind = "start" /\ requests'[i].step = asked
    <3>1. Settled /\ TypedOnly(requests) /\ events = <<>>
      BY <2>1, <2>3 DEF StreamParts, NothingPending
    <3>2. /\ Single(requests')
          /\ DOMAIN requests = 1 .. Len(requests) /\ Len(requests) \in Nat
          /\ DOMAIN requests' = 1 .. Len(requests) + 1
          /\ \A i \in DOMAIN requests : requests'[i] = requests[i]
          /\ requests'[Len(requests) + 1].kind = "start"
          /\ requests'[Len(requests) + 1].step = asked
      BY <2>3, <3>1, <1>0, FrameAppended
    <3>3. \A i \in DOMAIN requests' : i \in DOMAIN requests \/ i = Len(requests) + 1
      BY <3>2
    <3> QED BY <2>1, <3>1, <3>2, <3>3
            DEF StreamParts, OneRequest, BusyWithOne, OnlyTypedLines, Settled, TypedOnly
  <2>4. CASE ~broken /\ Sent("start", asked) /\ session' = "asked" /\ ~broken'
    <3>1. requests' = Append(requests, [kind |-> "start", step |-> asked])
      BY <2>4 DEF Sent
    <3>2. NotYetOpen' /\ NothingPending' /\ AnswersMatch'
      BY <2>4 DEF NotYetOpen, NothingPending, AnswersMatch
    <3>3. AskedOfWorker' /\ OnlyItsRequest' /\ OnlyItsEvents'
      BY <2>1, <2>3, <2>4, <3>1
         DEF AskedOfWorker, OnlyItsRequest, OnlyItsEvents, Settled
    <3> QED BY <2>3, <2>4, <3>1, <3>2, <3>3 DEF StreamParts
  <2>5. CASE /\ ~broken /\ Unsent("start", asked) /\ broken' /\ session' = "answered"
             /\ verdict' = [result |-> "lost", step |-> asked]
    <3>1. CASE requests' = requests
      BY <2>2, <2>5, <3>1
    <3>2. CASE requests' = Append(requests, [kind |-> "start", step |-> asked])
      <4>1. NotYetOpen' /\ NothingPending' /\ AskedOfWorker' /\ OnlyItsRequest'
            /\ OnlyItsEvents'
        BY <2>5 DEF NotYetOpen, NothingPending, AskedOfWorker, OnlyItsRequest,
                    OnlyItsEvents
      <4>2. AnswersMatch'
        BY <2>1, <2>5 DEF AnswersMatch
      <4> QED BY <2>3, <2>5, <3>2, <4>1, <4>2 DEF StreamParts
    <3> QED BY <2>5, <3>1, <3>2 DEF Unsent
  <2>6. \/ /\ broken /\ session' = "answered" /\ requests' = requests /\ broken' = broken
           /\ verdict' = [result |-> "lost", step |-> asked]
        \/ ~broken /\ Sent("start", asked) /\ session' = "asked" /\ broken' = broken
        \/ /\ ~broken /\ Unsent("start", asked) /\ broken' = TRUE /\ session' = "answered"
           /\ verdict' = [result |-> "lost", step |-> asked]
    BY <1>4, Zenon DEF Ask, BrokenByFailure
  <2> QED BY <2>2, <2>4, <2>5, <2>6
<1>5. CASE Hear
  <2>1. /\ session = "asked" /\ events # <<>>
        /\ UNCHANGED <<worker, tool, consumed, asked, requests, typed>>
    BY <1>5 DEF Hear, root
  <2>2. /\ Head(events) = events[1] /\ Len(events) \in Nat \ {0} /\ 1 \in DOMAIN events
        /\ events' = Tail(events) /\ Len(events') = Len(events) - 1
        /\ DOMAIN events' = 1 .. Len(events) - 1
        /\ \A i \in DOMAIN events' : i + 1 \in DOMAIN events /\ events'[i] = events[i + 1]
    BY <1>5, <2>1, Taken DEF TypeOK, StreamTypes, Hear
  <2>3. OneRequest' /\ BusyWithOne' /\ OnlyTypedLines'
    BY <2>1 DEF StreamParts, OneRequest, BusyWithOne, OnlyTypedLines, TypedOnly
  <2>4. CASE session' = "asked" /\ UNCHANGED broken
    <3>1. NotYetOpen' /\ NothingPending' /\ AnswersMatch'
      BY <2>4 DEF NotYetOpen, NothingPending, AnswersMatch
    <3>2. AskedOfWorker'
      BY <2>1, <2>4 DEF StreamParts, AskedOfWorker
    <3>3. OnlyItsRequest'
      BY <2>1, <2>4 DEF StreamParts, OnlyItsRequest
    <3>4. OnlyItsEvents'
      <4> SUFFICES ASSUME NEW i \in DOMAIN events'
                   PROVE  /\ events'[i].kind \in {"started", "done", "failed", "error"}
                          /\ events'[i].step = asked
                          /\ events'[i].kind # "started" =>
                               i = Len(events') /\ Settled' /\ TypedOnly(requests')
                          /\ events'[i].kind = "done" => asked \in consumed
        BY <2>1 DEF OnlyItsEvents
      <4>1. i \in Nat /\ (i + 1 = Len(events) => i = Len(events'))
        BY <2>2
      <4> QED BY <2>1, <2>2, <4>1 DEF StreamParts, OnlyItsEvents, Settled, TypedOnly
    <3> QED BY <2>3, <3>1, <3>2, <3>3, <3>4 DEF StreamParts
  <2>5. CASE /\ events[1].kind \in {"done", "failed", "error"}
             /\ session' = "answered" /\ UNCHANGED broken
             /\ verdict' = [result |-> events[1].kind, step |-> events[1].step]
    <3>1. /\ 1 = Len(events) /\ Settled /\ TypedOnly(requests)
          /\ events[1].step = asked
          /\ events[1].kind = "done" => asked \in consumed
      BY <2>1, <2>2, <2>5 DEF StreamParts, OnlyItsEvents
    <3>2. events' = <<>>
      BY <2>1, <2>2, <3>1, Taken DEF TypeOK, StreamTypes
    <3>3. NotYetOpen' /\ AskedOfWorker' /\ OnlyItsRequest' /\ OnlyItsEvents'
      BY <2>5 DEF NotYetOpen, AskedOfWorker, OnlyItsRequest, OnlyItsEvents
    <3>4. NothingPending'
      BY <2>1, <3>1, <3>2 DEF NothingPending, Settled, TypedOnly
    <3>5. AnswersMatch'
      BY <2>1, <2>5, <3>1 DEF AnswersMatch
    <3> QED BY <2>3, <3>3, <3>4, <3>5 DEF StreamParts
  <2>6. events[1].kind \notin {"ready", "closed"}
    BY <2>1, <2>2 DEF StreamParts, OnlyItsEvents
  <2>7. \/ session' = "asked" /\ UNCHANGED broken
        \/ /\ events[1].kind \in {"done", "failed", "error"}
           /\ session' = "answered" /\ UNCHANGED broken
           /\ verdict' = [result |-> events[1].kind, step |-> events[1].step]
    BY <1>5, <2>2, <2>6 DEF Hear
  <2> QED BY <2>4, <2>5, <2>7
<1>6. CASE HearEnd
  <2>1. session = "asked" /\ session' = "answered" /\ broken'
      /\ verdict' = [result |-> "lost", step |-> asked]
      /\ UNCHANGED <<worker, tool, consumed, asked, requests, events, typed>>
    BY <1>6 DEF HearEnd, root
  <2>2. OneRequest' /\ BusyWithOne' /\ OnlyTypedLines'
    BY <2>1
       DEF StreamParts, OneRequest, BusyWithOne, TypedOnly, OnlyTypedLines
  <2>3. NotYetOpen' /\ NothingPending'
    BY <2>1
       DEF StreamParts, NotYetOpen, NothingPending, Settled, TypedOnly
  <2>4. AskedOfWorker' /\ OnlyItsRequest' /\ OnlyItsEvents' /\ AnswersMatch'
    BY <2>1
       DEF StreamParts, AskedOfWorker, OnlyItsRequest, OnlyItsEvents, Settled, TypedOnly, AnswersMatch
  <2> QED BY <2>2, <2>3, <2>4 DEF StreamParts
<1>7. CASE Settle
  <2>1. session = "answered" /\ session' = "idle"
      /\ UNCHANGED <<worker, tool, consumed, broken, requests, events, typed>>
    BY <1>7 DEF Settle, root
  <2>2. OneRequest' /\ BusyWithOne' /\ OnlyTypedLines'
    BY <2>1
       DEF StreamParts, OneRequest, BusyWithOne, TypedOnly, OnlyTypedLines
  <2>3. NotYetOpen' /\ NothingPending'
    BY <2>1
       DEF StreamParts, NotYetOpen, NothingPending, Settled, TypedOnly
  <2>4. AskedOfWorker' /\ OnlyItsRequest' /\ OnlyItsEvents' /\ AnswersMatch'
    BY <2>1
       DEF StreamParts, AskedOfWorker, OnlyItsRequest, OnlyItsEvents, Settled, TypedOnly, AnswersMatch
  <2> QED BY <2>2, <2>3, <2>4 DEF StreamParts
<1>8. CASE Input
  <2>1. /\ terminal /\ UNCHANGED <<coordinator, worker, tool, consumed, events, typed>>
        /\ requests' = Append(requests, [kind |-> "input", step |-> asked])
    BY <1>8 DEF Input, Sent, root
  <2>2. /\ DOMAIN requests = 1 .. Len(requests) /\ Len(requests) \in Nat
        /\ DOMAIN requests' = 1 .. Len(requests) + 1
        /\ \A i \in DOMAIN requests : requests'[i] = requests[i]
        /\ requests'[Len(requests) + 1].kind = "input"
        /\ TypedOnly(requests) => TypedOnly(requests')
        /\ Single(requests) => Single(requests')
    BY <2>1, <1>0, FrameAppended
  <2>3. \A i \in DOMAIN requests' : i \in DOMAIN requests \/ i = Len(requests) + 1
    BY <2>2
  <2>4. OneRequest' /\ BusyWithOne'
    BY <2>1, <2>2 DEF StreamParts, OneRequest, BusyWithOne
  <2>5. NotYetOpen'
    BY <2>1 DEF StreamParts, NotYetOpen, coordinator
  <2>6. NothingPending'
    BY <2>1, <2>2 DEF StreamParts, NothingPending, Settled, coordinator
  <2>7. AskedOfWorker'
    BY <2>1 DEF StreamParts, AskedOfWorker, coordinator
  <2>8. OnlyItsRequest'
    BY <2>1, <2>2, <2>3 DEF StreamParts, OnlyItsRequest, coordinator
  <2>9. OnlyItsEvents'
    BY <2>1, <2>2 DEF StreamParts, OnlyItsEvents, Settled, coordinator
  <2>10. AnswersMatch' /\ OnlyTypedLines'
    BY <2>1 DEF StreamParts, AnswersMatch, OnlyTypedLines, coordinator
  <2> QED BY <2>4, <2>5, <2>6, <2>7, <2>8, <2>9, <2>10 DEF StreamParts
<1>9. CASE Close
  <2>1. session = "idle" /\ UNCHANGED <<worker, tool, consumed, typed>>
    BY <1>9 DEF Close, root
  <2>2. session' \in {"closing", "dropped"}
    BY <1>9 DEF Close, Dropped
  <2>3. \/ requests' = requests
        \/ ~broken /\ requests' = Append(requests, [kind |-> "finish", step |-> NoStep])
    BY <1>9 DEF Close, MayFinish, Sent, Unsent
  <2>4. OneRequest' /\ BusyWithOne'
    <3>1. CASE requests' = requests
      BY <2>1, <3>1 DEF StreamParts, OneRequest, BusyWithOne, TypedOnly
    <3>2. CASE ~broken /\ requests' = Append(requests, [kind |-> "finish", step |-> NoStep])
      <4>1. Settled /\ TypedOnly(requests)
        BY <2>1, <3>2 DEF StreamParts, NothingPending
      <4>2. Single(requests')
        BY <3>2, <4>1, <1>0, FrameAppended
      <4> QED BY <2>1, <4>1, <4>2 DEF OneRequest, BusyWithOne, Settled
    <3> QED BY <2>3, <3>1, <3>2
  <2>5. NotYetOpen' /\ NothingPending' /\ AskedOfWorker' /\ OnlyItsRequest'
        /\ OnlyItsEvents' /\ AnswersMatch' /\ OnlyTypedLines'
    BY <2>1, <2>2 DEF StreamParts, NotYetOpen, NothingPending, AskedOfWorker, OnlyItsRequest,
                      OnlyItsEvents, AnswersMatch, OnlyTypedLines
  <2> QED BY <2>4, <2>5 DEF StreamParts
<1>10. CASE Closed \/ NotClosed \/ Crash
  <2>1. session' \in {"closed", "dropped"} /\ UNCHANGED <<worker, tool, consumed, requests, typed>>
    BY <1>10 DEF Closed, NotClosed, Crash, Dropped, root
  <2>2. OneRequest' /\ BusyWithOne' /\ OnlyTypedLines'
    BY <2>1
       DEF StreamParts, OneRequest, BusyWithOne, TypedOnly, OnlyTypedLines
  <2>3. NotYetOpen' /\ NothingPending'
    BY <2>1
       DEF StreamParts, NotYetOpen, NothingPending, Settled, TypedOnly
  <2>4. AskedOfWorker' /\ OnlyItsRequest' /\ OnlyItsEvents' /\ AnswersMatch'
    BY <2>1
       DEF StreamParts, AskedOfWorker, OnlyItsRequest, OnlyItsEvents, Settled, TypedOnly, AnswersMatch
  <2> QED BY <2>2, <2>3, <2>4 DEF StreamParts
<1>11. CASE UNCHANGED vars \/ Over
  <2>1. UNCHANGED <<session, worker, tool, consumed, broken, terminal, verdict, asked,
                   requests, events, typed>>
    BY <1>11 DEF Over, vars, coordinator, root
  <2>2. OneRequest' /\ BusyWithOne' /\ OnlyTypedLines'
    BY <2>1
       DEF StreamParts, OneRequest, BusyWithOne, TypedOnly, OnlyTypedLines
  <2>3. NotYetOpen' /\ NothingPending'
    BY <2>1
       DEF StreamParts, NotYetOpen, NothingPending, Settled, TypedOnly
  <2>4. AskedOfWorker' /\ OnlyItsRequest' /\ OnlyItsEvents' /\ AnswersMatch'
    BY <2>1
       DEF StreamParts, AskedOfWorker, OnlyItsRequest, OnlyItsEvents, Settled, TypedOnly, AnswersMatch
  <2> QED BY <2>2, <2>3, <2>4 DEF StreamParts
<1> QED BY <1>1, <1>2, <1>3, <1>4, <1>5, <1>6, <1>7, <1>8, <1>9, <1>10, <1>11
       DEF SessionRuns

\* What the session may read and has asked for, when the worker takes a frame.
LEMMA FrameLeaves ==
  ASSUME TypeOK, StreamParts, requests # <<>>, requests' = Tail(requests),
         UNCHANGED <<session, asked>>
  PROVE  /\ OneRequest' /\ OnlyItsRequest'
         /\ TypedOnly(requests) => TypedOnly(requests')
         /\ Head(requests).kind # "input" => TypedOnly(requests')
         /\ TypedOnly(requests) => Head(requests).kind = "input"
         /\ session # "opening"
         /\ session = "asked" /\ Head(requests).kind # "input" =>
              /\ Head(requests).kind = "start" /\ Head(requests).step = asked
              /\ \A i \in DOMAIN events : events[i].kind = "started"
         /\ session \in {"idle", "attending", "answered"} /\ ~broken =>
              Head(requests).kind = "input"
<1>1. requests \in Seq(Frame)
  BY DEF TypeOK, StreamTypes
<1>2. /\ Head(requests) = requests[1] /\ 1 \in DOMAIN requests
      /\ \A i \in DOMAIN requests' : i + 1 \in DOMAIN requests /\ requests'[i] = requests[i + 1]
      /\ TypedOnly(requests) => TypedOnly(requests')
      /\ Single(requests')
      /\ Head(requests).kind # "input" => TypedOnly(requests')
  BY <1>1, FrameTaken DEF StreamParts, OneRequest
<1>3. OnlyItsRequest'
  BY <1>2 DEF StreamParts, OnlyItsRequest
<1>4. TypedOnly(requests) => Head(requests).kind = "input"
  BY <1>2 DEF TypedOnly
<1>5. session # "opening"
  BY DEF StreamParts, NotYetOpen
<1>6. session = "asked" /\ Head(requests).kind # "input" =>
        Head(requests).kind = "start" /\ Head(requests).step = asked
  BY <1>2 DEF StreamParts, OnlyItsRequest
<1>7. session = "asked" /\ Head(requests).kind # "input" =>
        \A i \in DOMAIN events : events[i].kind = "started"
  BY <1>4 DEF StreamParts, OnlyItsEvents
<1>8. session \in {"idle", "attending", "answered"} /\ ~broken =>
        Head(requests).kind = "input"
  BY <1>4 DEF StreamParts, NothingPending
<1> QED BY <1>2, <1>3, <1>4, <1>5, <1>6, <1>7, <1>8 DEF OneRequest

\* An event about the step in hand, seen from the session that asked for it.
LEMMA EventSaid ==
  ASSUME TypeOK, NEW k \in {"ready", "started", "done", "failed", "error", "closed"},
         tool' \in Step \union {NoStep},
         events' = Append(events, [kind |-> k, step |-> tool'])
  PROVE  /\ events' # <<>> /\ Len(events') = Len(events) + 1
         /\ \A i \in DOMAIN events' :
              \/ i \in DOMAIN events /\ events'[i] = events[i] /\ i # Len(events')
              \/ i = Len(events') /\ events'[i].kind = k /\ events'[i].step = tool'
<1>1. events \in Seq(Event) /\ [kind |-> k, step |-> tool'] \in Event
  BY DEF TypeOK, StreamTypes, Event
<1>2. /\ Len(events') = Len(events) + 1
      /\ DOMAIN events' = 1 .. Len(events) + 1
      /\ DOMAIN events = 1 .. Len(events)
      /\ Len(events) \in Nat
      /\ \A i \in DOMAIN events : events'[i] = events[i]
      /\ events'[Len(events) + 1] = [kind |-> k, step |-> tool']
  BY <1>1, Appended
<1>3. events' # <<>>
  BY <1>2
<1>4. ASSUME NEW i \in DOMAIN events'
      PROVE  \/ i \in DOMAIN events /\ events'[i] = events[i] /\ i # Len(events')
             \/ i = Len(events') /\ events'[i].kind = k /\ events'[i].step = tool'
  <2>1. CASE i = Len(events) + 1
    BY <1>2, <2>1
  <2>2. CASE i # Len(events) + 1
    <3>1. i \in DOMAIN events
      BY <1>2, <2>2
    <3> QED BY <1>2, <2>2, <3>1
  <2> QED BY <2>1, <2>2
<1> QED BY <1>2, <1>3, <1>4

\* The worker's answer to the step in hand, or its end without one.
LEMMA AnswerKeepsStream ==
  ASSUME TypeOK, StreamParts, worker \in {"refusing", "running"},
         UNCHANGED <<session, asked, verdict, broken, terminal, tool, consumed, requests, typed>>,
         \/ worker' = "gone" /\ events' = events
         \/ /\ worker' = "serving"
            /\ \E k \in {"done", "failed", "error"} :
                 /\ k = "done" => tool \in consumed
                 /\ events' = Append(events, [kind |-> k, step |-> tool])
  PROVE  StreamParts'
<1>1. ~Settled /\ Settled' /\ TypedOnly(requests')
  BY DEF StreamParts, BusyWithOne, Settled
<1>2. OneRequest' /\ BusyWithOne' /\ OnlyTypedLines' /\ AnswersMatch'
  BY <1>1 DEF StreamParts, OneRequest, BusyWithOne, OnlyTypedLines, AnswersMatch
<1>3. session' # "opening" /\ (session' \in {"idle", "attending", "answered"} => broken')
  BY <1>1 DEF StreamParts, NotYetOpen, NothingPending
<1>4. NotYetOpen' /\ NothingPending'
  BY <1>3 DEF NotYetOpen, NothingPending
<1>5. AskedOfWorker' /\ OnlyItsRequest'
  BY DEF StreamParts, AskedOfWorker, OnlyItsRequest
<1>6. ASSUME session = "asked", NEW i \in DOMAIN events'
      PROVE  /\ events'[i].kind \in {"started", "done", "failed", "error"}
             /\ events'[i].step = asked'
             /\ events'[i].kind # "started" =>
                  i = Len(events') /\ Settled' /\ TypedOnly(requests')
             /\ events'[i].kind = "done" => asked' \in consumed'
  <2>1. tool = asked /\ tool' = asked
    BY <1>6 DEF StreamParts, AskedOfWorker
  <2>2. \A j \in DOMAIN events : events[j].kind = "started" /\ events[j].step = asked
    BY <1>1, <1>6 DEF StreamParts, OnlyItsEvents
  <2>3. CASE events' = events
    BY <1>6, <2>2, <2>3
  <2>4. CASE events' # events
    <3>1. PICK k \in {"done", "failed", "error"} :
            /\ k = "done" => tool \in consumed
            /\ events' = Append(events, [kind |-> k, step |-> tool'])
      BY <2>1, <2>4
    <3>2. tool' \in Step \union {NoStep}
      BY DEF TypeOK, WorkerTypes
    <3>3. \/ i \in DOMAIN events /\ events'[i] = events[i]
          \/ i = Len(events') /\ events'[i].kind = k /\ events'[i].step = tool'
      BY <1>6, <3>1, <3>2, EventSaid
    <3> QED BY <1>1, <2>1, <2>2, <3>1, <3>3
  <2> QED BY <2>3, <2>4
<1>7. OnlyItsEvents'
  BY <1>6 DEF OnlyItsEvents
<1> QED BY <1>2, <1>4, <1>5, <1>7 DEF StreamParts

\* The worker takes a step in hand.
LEMMA StartKeepsStream ==
  ASSUME TypeOK, StreamParts, Request("start"),
         UNCHANGED <<session, asked, verdict, broken, terminal, typed>>,
         consumed \subseteq consumed',
         tool' = Head(requests).step, tool' \in Step \union {NoStep},
         worker' \in {"refusing", "running"},
         events' = events \/ events' = Append(events, [kind |-> "started", step |-> tool'])
  PROVE  StreamParts'
<1>1. /\ OneRequest' /\ OnlyItsRequest' /\ TypedOnly(requests')
      /\ session # "opening"
      /\ session \in {"idle", "attending", "answered"} => broken
      /\ session = "asked" =>
           /\ tool' = asked
           /\ \A i \in DOMAIN events : events[i].kind = "started"
  BY FrameLeaves DEF Request
<1>2. BusyWithOne' /\ NotYetOpen' /\ NothingPending'
  BY <1>1 DEF BusyWithOne, NotYetOpen, NothingPending
<1>3. AskedOfWorker' /\ AnswersMatch' /\ OnlyTypedLines'
  BY <1>1 DEF StreamParts, AskedOfWorker, AnswersMatch, OnlyTypedLines
<1>4. ASSUME session = "asked", NEW i \in DOMAIN events'
      PROVE  events'[i].kind = "started" /\ events'[i].step = asked
  <2>1. \A j \in DOMAIN events : events[j].kind = "started" /\ events[j].step = asked
    BY <1>1, <1>4 DEF StreamParts, OnlyItsEvents
  <2>2. CASE events' = events
    BY <1>4, <2>1, <2>2
  <2>3. CASE events' = Append(events, [kind |-> "started", step |-> tool'])
    <3>1. \/ i \in DOMAIN events /\ events'[i] = events[i]
          \/ i = Len(events') /\ events'[i].kind = "started" /\ events'[i].step = tool'
      BY <1>4, <2>3, EventSaid
    <3> QED BY <1>1, <1>4, <2>1, <3>1
  <2> QED BY <2>2, <2>3
<1>5. OnlyItsEvents'
  BY <1>4 DEF OnlyItsEvents
<1> QED BY <1>1, <1>2, <1>3, <1>5 DEF StreamParts

\* A step of the worker or of its tool.
LEMMA WorkerKeepsStream ==
  ASSUME TypeOK, StreamParts, WorkerHolds, WorkerRuns \/ ToolExits
  PROVE  StreamParts'
<1>1. CASE Authorize
  <2>1. /\ worker = "authorizing" /\ worker' \in {"serving", "gone"}
        /\ UNCHANGED <<session, asked, verdict, broken, terminal, tool, consumed, requests, typed>>
    BY <1>1 DEF Authorize, Leave, coordinator
  <2>2. /\ events' = events
        \/ \E k \in {"ready", "error"} : events' = Append(events, [kind |-> k, step |-> tool'])
    BY <1>1 DEF Authorize, Told
  <2>3. /\ session \notin {"asked"}
        /\ session \in {"idle", "attending", "answered"} => broken
    BY <2>1 DEF StreamParts, AskedOfWorker, NothingPending, Settled
  <2>4. session = "opening" => Len(events') <= 1
    <3>1. ASSUME session = "opening" PROVE Len(events) = 0
      BY <2>1, <3>1 DEF StreamParts, NotYetOpen
    <3>2. tool' \in Step \union {NoStep}
      BY <2>1 DEF TypeOK, WorkerTypes
    <3>3. ASSUME NEW k \in {"ready", "error"},
                 events' = Append(events, [kind |-> k, step |-> tool'])
          PROVE  Len(events') = Len(events) + 1
      BY <3>2, <3>3, EventSaid
    <3>4. CASE events' = events
      BY <3>1, <3>4
    <3>5. CASE events' # events
      <4>1. PICK k \in {"ready", "error"} :
              events' = Append(events, [kind |-> k, step |-> tool'])
        BY <2>2, <3>5
      <4> QED BY <3>1, <3>3, <4>1
    <3> QED BY <3>4, <3>5
  <2>5. OneRequest' /\ BusyWithOne' /\ OnlyTypedLines'
    BY <2>1 DEF StreamParts, OneRequest, BusyWithOne, OnlyTypedLines
  <2>6. NotYetOpen' /\ NothingPending'
    BY <2>1, <2>3, <2>4 DEF StreamParts, NotYetOpen, NothingPending
  <2>7. AskedOfWorker' /\ OnlyItsRequest' /\ OnlyItsEvents' /\ AnswersMatch'
    BY <2>1, <2>3 DEF StreamParts, AskedOfWorker, OnlyItsRequest, OnlyItsEvents, AnswersMatch
  <2> QED BY <2>5, <2>6, <2>7 DEF StreamParts
<1>2. CASE ServeRefused
  <2>1. /\ Request("start") /\ tool' = Head(requests).step /\ worker' = "refusing"
        /\ UNCHANGED <<session, asked, verdict, broken, terminal, typed, events>>
        /\ consumed \subseteq consumed'
    BY <1>2 DEF ServeRefused, coordinator
  <2>2. tool' \in Step \union {NoStep}
    <3>1. Head(requests) \in Frame
      BY <2>1, Taken DEF TypeOK, StreamTypes, Request
    <3> QED BY <2>1, <3>1 DEF Frame
  <2> QED BY <2>1, <2>2, StartKeepsStream
<1>3. CASE SayRefused
  <2>1. /\ worker = "refusing"
        /\ UNCHANGED <<session, asked, verdict, broken, terminal, tool, consumed, requests, typed>>
    BY <1>3 DEF SayRefused, coordinator
  <2>2. \/ worker' = "gone" /\ events' = events
        \/ worker' = "serving" /\ events' = Append(events, [kind |-> "error", step |-> tool])
    BY <1>3, <2>1 DEF SayRefused, Told, Untold, Leave
  <2> QED BY <2>1, <2>2, AnswerKeepsStream
<1>4. CASE ServeStart
  <2>1. /\ Request("start") /\ tool' = Head(requests).step /\ worker' = "running"
        /\ UNCHANGED <<session, asked, verdict, broken, terminal, typed>>
        /\ consumed \subseteq consumed'
    BY <1>4 DEF ServeStart, coordinator
  <2>2. tool' \in Step \union {NoStep}
    <3>1. Head(requests) \in Frame
      BY <2>1, Taken DEF TypeOK, StreamTypes, Request
    <3> QED BY <2>1, <3>1 DEF Frame
  <2>3. events' = events \/ events' = Append(events, [kind |-> "started", step |-> tool'])
    BY <1>4 DEF ServeStart, Told, Untold
  <2> QED BY <2>1, <2>2, <2>3, StartKeepsStream
<1>5. CASE ServeInput
  <2>1. /\ worker = "serving" /\ worker' = "gone" /\ requests # <<>> /\ requests' = Tail(requests)
        /\ UNCHANGED <<session, asked, verdict, broken, terminal, tool, consumed, events, typed>>
    BY <1>5 DEF ServeInput, Request, Leave, coordinator
  <2>2. /\ OneRequest' /\ OnlyItsRequest' /\ session # "opening"
        /\ TypedOnly(requests) => TypedOnly(requests')
    BY <2>1, FrameLeaves
  <2>3. BusyWithOne' /\ NotYetOpen' /\ NothingPending'
    BY <2>1, <2>2 DEF StreamParts, BusyWithOne, NotYetOpen, NothingPending, Settled
  <2>4. AskedOfWorker' /\ OnlyItsEvents' /\ AnswersMatch' /\ OnlyTypedLines'
    BY <2>1, <2>2 DEF StreamParts, AskedOfWorker, OnlyItsEvents, AnswersMatch,
                      OnlyTypedLines, Settled
  <2> QED BY <2>2, <2>3, <2>4 DEF StreamParts
<1>6. CASE ServeFinish
  <2>1. /\ worker = "serving" /\ worker' = "leaving"
        /\ requests # <<>> /\ requests' = Tail(requests) /\ Head(requests).kind = "finish"
        /\ UNCHANGED <<session, asked, verdict, broken, terminal, tool, consumed, events, typed>>
    BY <1>6 DEF ServeFinish, Request, coordinator
  <2>2. /\ OneRequest' /\ TypedOnly(requests')
        /\ session \notin {"opening", "asked"}
        /\ session \in {"idle", "attending", "answered"} => broken
    BY <2>1, FrameLeaves
  <2>3. BusyWithOne' /\ NotYetOpen' /\ NothingPending'
    BY <2>1, <2>2 DEF BusyWithOne, NotYetOpen, NothingPending
  <2>4. AskedOfWorker' /\ OnlyItsRequest' /\ OnlyItsEvents' /\ AnswersMatch' /\ OnlyTypedLines'
    BY <2>1, <2>2 DEF StreamParts, AskedOfWorker, OnlyItsRequest, OnlyItsEvents,
                      AnswersMatch, OnlyTypedLines
  <2> QED BY <2>2, <2>3, <2>4 DEF StreamParts
<1>7. CASE SayClosed
  <2>1. /\ worker = "leaving" /\ worker' = "gone"
        /\ UNCHANGED <<session, asked, verdict, broken, terminal, tool, consumed, requests, typed>>
    BY <1>7 DEF SayClosed, Leave, coordinator
  <2>2. /\ session \notin {"opening", "asked"}
        /\ session \in {"idle", "attending", "answered"} => broken
    BY <2>1 DEF StreamParts, NotYetOpen, AskedOfWorker, NothingPending, Settled
  <2>3. OneRequest' /\ BusyWithOne' /\ NotYetOpen' /\ NothingPending'
    BY <2>1, <2>2 DEF StreamParts, OneRequest, BusyWithOne, NotYetOpen, NothingPending
  <2>4. AskedOfWorker' /\ OnlyItsRequest' /\ OnlyItsEvents' /\ AnswersMatch' /\ OnlyTypedLines'
    BY <2>1, <2>2 DEF StreamParts, AskedOfWorker, OnlyItsRequest, OnlyItsEvents,
                      AnswersMatch, OnlyTypedLines
  <2> QED BY <2>3, <2>4 DEF StreamParts
<1>8. CASE ServeEnd
  <2>1. /\ session \in {"closed", "dropped"} /\ worker' = "gone"
        /\ UNCHANGED <<session, asked, verdict, broken, terminal, tool, consumed,
                       requests, events, typed>>
    BY <1>8 DEF ServeEnd, Open, Leave, coordinator
  <2>2. OneRequest' /\ BusyWithOne' /\ NotYetOpen' /\ NothingPending'
    BY <2>1 DEF StreamParts, OneRequest, BusyWithOne, NotYetOpen, NothingPending
  <2>3. AskedOfWorker' /\ OnlyItsRequest' /\ OnlyItsEvents' /\ AnswersMatch' /\ OnlyTypedLines'
    BY <2>1 DEF StreamParts, AskedOfWorker, OnlyItsRequest, OnlyItsEvents,
                AnswersMatch, OnlyTypedLines
  <2> QED BY <2>2, <2>3 DEF StreamParts
<1>9. CASE ForwardInput
  <2>1. /\ worker = "running" /\ requests # <<>> /\ requests' = Tail(requests)
        /\ typed' = typed \union {Head(requests).kind}
        /\ UNCHANGED <<session, asked, verdict, broken, terminal, worker, tool, consumed, events>>
    BY <1>9 DEF ForwardInput, coordinator
  <2>2. TypedOnly(requests) /\ ~Settled
    BY <2>1 DEF StreamParts, BusyWithOne, Settled
  <2>3. /\ OneRequest' /\ OnlyItsRequest' /\ TypedOnly(requests') /\ session # "opening"
        /\ Head(requests).kind = "input"
    BY <2>1, <2>2, FrameLeaves
  <2>4. BusyWithOne' /\ NotYetOpen' /\ NothingPending' /\ OnlyTypedLines'
    BY <2>1, <2>2, <2>3
       DEF StreamParts, BusyWithOne, NotYetOpen, NothingPending, OnlyTypedLines
  <2>5. AskedOfWorker' /\ OnlyItsEvents' /\ AnswersMatch'
    BY <2>1, <2>2 DEF StreamParts, AskedOfWorker, OnlyItsEvents, AnswersMatch
  <2> QED BY <2>3, <2>4, <2>5 DEF StreamParts
<1>10. CASE Disconnect \/ ToolExits
  <2>1. UNCHANGED <<session, asked, verdict, broken, terminal, worker, tool, consumed,
                    requests, events, typed>>
    BY <1>10 DEF Disconnect, ToolExits, coordinator
  <2>2. OneRequest' /\ BusyWithOne' /\ OnlyTypedLines'
    BY <2>1 DEF StreamParts, OneRequest, BusyWithOne, OnlyTypedLines
  <2>3. NotYetOpen' /\ NothingPending'
    BY <2>1 DEF StreamParts, NotYetOpen, NothingPending, Settled
  <2>4. AskedOfWorker' /\ OnlyItsRequest' /\ OnlyItsEvents' /\ AnswersMatch'
    BY <2>1 DEF StreamParts, AskedOfWorker, OnlyItsRequest, OnlyItsEvents, AnswersMatch,
                Settled
  <2> QED BY <2>2, <2>3, <2>4 DEF StreamParts
<1>11. CASE Report
  <2>1. /\ worker = "running" /\ tool \in consumed
        /\ UNCHANGED <<session, asked, verdict, broken, terminal, tool, consumed, requests, typed>>
    BY <1>11 DEF Report, WorkerHolds, coordinator
  <2>2. \/ worker' = "gone" /\ events' = events
        \/ /\ worker' = "serving"
           /\ \E k \in {"done", "failed", "error"} :
                events' = Append(events, [kind |-> k, step |-> tool'])
    BY <1>11 DEF Report, Told, Untold, Leave
  <2> QED BY <2>1, <2>2, AnswerKeepsStream
<1> QED BY <1>1, <1>2, <1>3, <1>4, <1>5, <1>6, <1>7, <1>8, <1>9, <1>10, <1>11
       DEF WorkerRuns

\* The stream between Session and worker keeps its order, whatever is lost,
\* whenever the user types and however many steps the job has: this is the
\* inductive invariant behind the next two theorems.
THEOREM Stream == Spec => []StreamInvariant
<1> DEFINE Inv == StreamParts /\ WorkerHolds
<1>1. Init => Inv
  <2> SUFFICES ASSUME Init PROVE Inv
    OBVIOUS
  <2>1. /\ session = "opening" /\ worker = "authorizing" /\ ~broken /\ ~terminal
        /\ requests = <<>> /\ events = <<>> /\ typed = {} /\ ~held /\ ~alive
    BY DEF Init
  <2>2. \A i \in DOMAIN requests : FALSE
    BY <2>1
  <2>3. OneRequest /\ BusyWithOne /\ OnlyTypedLines
    BY <2>1, <2>2 DEF OneRequest, Single, BusyWithOne, OnlyTypedLines
  <2>4. NotYetOpen /\ NothingPending /\ AskedOfWorker /\ OnlyItsRequest /\ OnlyItsEvents
        /\ AnswersMatch /\ WorkerHolds
    BY <2>1 DEF NotYetOpen, NothingPending, AskedOfWorker, OnlyItsRequest, OnlyItsEvents,
                AnswersMatch, WorkerHolds
  <2> QED BY <2>3, <2>4 DEF StreamParts
<1>2. TypeOK /\ Inv /\ [Next]_vars => Inv'
  BY SessionKeepsStream, WorkerKeepsStream, WorkerHoldsStep DEF Next
<1>3. Inv => StreamInvariant
  BY DEF StreamParts, StreamInvariant
<1> QED BY <1>1, <1>2, <1>3, ChannelTypes, PTL DEF Spec

\* What Session::run returns is always the worker's answer to the step that was
\* asked, never a late event of an earlier one.
THEOREM AnswersAreToTheirQuestion == Spec => []AnswersMatch
<1>1. StreamInvariant => AnswersMatch
  BY DEF StreamInvariant
<1> QED BY <1>1, Stream, PTL

\* forward() never types a request of the coordinator into a native tool.
THEOREM ToolsReadTypedLines == Spec => []OnlyTypedLines
<1>1. StreamInvariant => OnlyTypedLines
  BY DEF StreamInvariant
<1> QED BY <1>1, Stream, PTL
-----------------------------------------------------------------------------
(* The end of the authorization *)

\* A worker that has said Closed is gone, and what is gone holds nothing.
ClosedTold ==
  (\E i \in DOMAIN events : events[i].kind = "closed") => worker = "gone"

\* A worker that has left does not come back.
LEMMA GoneForGood ==
  ASSUME [Next]_vars, worker = "gone"
  PROVE  worker' = "gone"
<1>1. ~WorkerRuns
  BY DEF WorkerRuns, Authorize, ServeRefused, SayRefused, ServeStart, ServeInput,
         ServeFinish, SayClosed, ServeEnd, ForwardInput, Disconnect, Report, Request
<1>2. CASE ToolExits
  BY <1>2 DEF ToolExits
<1>3. CASE UNCHANGED root
  BY <1>3 DEF root
<1>4. CASE UNCHANGED vars
  BY <1>3, <1>4 DEF vars
<1> QED BY <1>1, <1>2, <1>3, <1>4, SessionKeepsRoot DEF Next

\* Only a worker that leaves says Closed; the session only reads.
LEMMA ClosedStep ==
  ASSUME TypeOK, ClosedTold, [Next]_vars
  PROVE  ClosedTold'
<1> SUFFICES ASSUME NEW i \in DOMAIN events', events'[i].kind = "closed"
             PROVE  worker' = "gone"
  BY DEF ClosedTold
<1>0. events \in Seq(Event)
  BY DEF TypeOK, StreamTypes
<1>1. ASSUME events' \in {events, Tail(events), <<>>}, events' # <<>> => events # <<>>
      PROVE  worker' = "gone"
  <2>1. CASE events' = <<>>
    BY <2>1
  <2>2. CASE events' = events
    BY <2>2, GoneForGood DEF ClosedTold
  <2>3. CASE events' = Tail(events) /\ events # <<>>
    <3>1. i + 1 \in DOMAIN events /\ events'[i] = events[i + 1]
      BY <1>0, <2>3, Taken
    <3> QED BY <3>1, GoneForGood DEF ClosedTold
  <2> QED BY <1>1, <2>1, <2>2, <2>3
<1>2. ASSUME NEW k \in {"ready", "started", "done", "failed", "error"}, Told(k),
             tool' \in Step \union {NoStep}
      PROVE  worker' = "gone"
  <2>1. events' = Append(events, [kind |-> k, step |-> tool'])
    BY <1>2 DEF Told
  <2>2. i \in DOMAIN events /\ events'[i] = events[i]
    BY <1>2, <2>1, EventSaid
  <2> QED BY <2>2, GoneForGood DEF ClosedTold
<1>3. CASE UNCHANGED vars
  BY <1>1, <1>3 DEF vars
<1>4. CASE Opened \/ Hear
  BY <1>1, <1>4 DEF Opened, Hear
<1>5. CASE NotOpened \/ Closed \/ NotClosed \/ Crash
  BY <1>1, <1>5 DEF NotOpened, Closed, NotClosed, Crash, Dropped
<1>6. CASE Ask \/ HearEnd \/ Settle \/ Input \/ (\E s \in Step : Attend(s))
  BY <1>1, <1>6 DEF Ask, HearEnd, Settle, Input, Attend
<1>7. CASE Close
  <2>1. events' \in {events, <<>>}
    BY <1>7, Zenon DEF Close, Dropped
  <2> QED BY <1>1, <2>1
<1>8. CASE Over \/ ToolExits \/ Disconnect \/ ForwardInput
  BY <1>1, <1>8 DEF Over, vars, ToolExits, Disconnect, ForwardInput
<1>9. CASE ServeRefused \/ ServeInput \/ ServeFinish \/ ServeEnd
  BY <1>1, <1>9 DEF ServeRefused, ServeInput, ServeFinish, ServeEnd
<1>10. CASE SayClosed
  BY <1>10 DEF SayClosed, Leave
<1>11. tool' \in Step \union {NoStep}
  BY ChannelStep DEF TypeOK, WorkerTypes
<1>12. CASE Authorize
  BY <1>1, <1>2, <1>11, <1>12 DEF Authorize, Leave
<1>13. CASE SayRefused
  BY <1>1, <1>2, <1>11, <1>13 DEF SayRefused, Untold, Leave
<1>14. CASE ServeStart
  BY <1>1, <1>2, <1>11, <1>14 DEF ServeStart, Untold
<1>15. CASE Report
  BY <1>1, <1>2, <1>11, <1>15 DEF Report, Untold, Leave
<1> QED
  BY <1>3, <1>4, <1>5, <1>6, <1>7, <1>8, <1>9, <1>10, <1>12, <1>13, <1>14, <1>15
     DEF Next, SessionRuns, WorkerRuns

\* When close() can read Closed, the worker has dropped grant and protection
\* and no native tool of the authorization is alive.
THEOREM ReleasedFirst == Spec => []ReleasedBeforeClosed
<1>1. Init => ClosedTold /\ WorkerHolds
  BY DEF Init, ClosedTold, WorkerHolds
<1>2. TypeOK /\ WorkerHolds /\ ClosedTold /\ [Next]_vars => WorkerHolds' /\ ClosedTold'
  BY WorkerHoldsStep, ClosedStep
<1>3. WorkerHolds /\ ClosedTold => ReleasedBeforeClosed
  BY DEF WorkerHolds, ClosedTold, ReleasedBeforeClosed
<1> QED BY <1>1, <1>2, <1>3, ChannelTypes, PTL DEF Spec
-----------------------------------------------------------------------------
(* Waiting *)

\* open() waits for a worker that is still to be let in or is gone, or can read.
OpeningIsMet ==
  session = "opening" => worker \in {"authorizing", "gone"} \/ events # <<>>

\* run() waits for a worker that has the step in hand, or is still to find it,
\* or is gone, or can read how it ended.
AskedIsMet ==
  session = "asked" =>
    \/ worker \in {"refusing", "running", "gone"}
    \/ \E i \in DOMAIN requests : requests[i].kind = "start"
    \/ \E i \in DOMAIN events : events[i].kind # "started"

\* close() waits for a worker that is leaving or gone, or is still to find
\* that it should.
ClosingIsMet ==
  session = "closing" =>
    \/ worker \in {"leaving", "gone"}
    \/ \E i \in DOMAIN requests : requests[i].kind = "finish"

NobodyStranded == OpeningIsMet /\ AskedIsMet /\ ClosingIsMet

\* A frame that is written is there to be read, and so is what was there.
LEMMA FrameStays ==
  ASSUME TypeOK, NEW kind \in {"start", "finish", "input"},
         NEW step \in Step \union {NoStep}, Sent(kind, step)
  PROVE  /\ \E i \in DOMAIN requests' : requests'[i].kind = kind
         /\ \A i \in DOMAIN requests : i \in DOMAIN requests' /\ requests'[i] = requests[i]
<1> DEFINE f == [kind |-> kind, step |-> step]
<1>1. requests \in Seq(Frame) /\ f \in Frame /\ requests' = Append(requests, f)
  BY DEF TypeOK, StreamTypes, Frame, Sent
<1>2. /\ Len(requests) \in Nat
      /\ DOMAIN requests = 1 .. Len(requests) /\ DOMAIN requests' = 1 .. Len(requests) + 1
      /\ \A i \in DOMAIN requests : requests'[i] = requests[i]
      /\ requests'[Len(requests) + 1] = f
  BY <1>1, FrameAppended
<1>3. Len(requests) + 1 \in DOMAIN requests' /\ requests'[Len(requests) + 1].kind = kind
  BY <1>2
<1> QED BY <1>2, <1>3

\* A frame other than the one that is read stays.
LEMMA FrameWaits ==
  ASSUME TypeOK, requests # <<>>, requests' = Tail(requests),
         NEW i \in DOMAIN requests, requests[i].kind # Head(requests).kind
  PROVE  \E j \in DOMAIN requests' : requests'[j] = requests[i]
<1>1. /\ Head(requests) = requests[1]
      /\ Len(requests) \in Nat \ {0}
      /\ DOMAIN requests = 1 .. Len(requests)
      /\ DOMAIN requests' = 1 .. Len(requests) - 1
      /\ \A j \in DOMAIN requests' : requests'[j] = requests[j + 1]
  BY Taken DEF TypeOK, StreamTypes
<1>2. i - 1 \in DOMAIN requests' /\ requests'[i - 1] = requests[i]
  BY <1>1
<1> QED BY <1>2

\* While open() waits, only polkit and the worker's first word can matter.
LEMMA OpeningStep ==
  ASSUME TypeOK, StreamParts, OpeningIsMet, [Next]_vars
  PROVE  OpeningIsMet'
<1> SUFFICES ASSUME session' = "opening"
             PROVE  worker' \in {"authorizing", "gone"} \/ events' # <<>>
  BY DEF OpeningIsMet
<1>1. CASE WorkerRuns
  <2>1. session = "opening"
    BY <1>1 DEF WorkerRuns, Authorize, ServeRefused, SayRefused, ServeStart, ServeInput,
         ServeFinish, SayClosed, ServeEnd, ForwardInput, Disconnect, Report, coordinator
  <2>2. requests = <<>> /\ worker \in {"authorizing", "serving", "gone"}
    BY <2>1 DEF StreamParts, NotYetOpen
  <2>3. Authorize
    BY <1>1, <2>1, <2>2
       DEF WorkerRuns, ServeRefused, SayRefused, ServeStart, ServeInput, ServeFinish,
           SayClosed, ServeEnd, ForwardInput, Disconnect, Report, Request, Open
  <2>4. tool' \in Step \union {NoStep}
    BY ChannelStep DEF TypeOK, WorkerTypes
  <2>5. CASE Told("ready") \/ Told("error")
    BY <2>4, <2>5, EventSaid DEF Told
  <2>6. CASE Leave
    BY <2>6 DEF Leave
  <2> QED BY <2>3, <2>5, <2>6 DEF Authorize
<1>2. CASE UNCHANGED vars \/ Over \/ ToolExits
  BY <1>2 DEF OpeningIsMet, vars, Over, ToolExits, coordinator, root
<1>3. CASE SessionRuns
  BY <1>3 DEF SessionRuns, Opened, NotOpened, Ask, Hear, HearEnd, Settle, Closed,
              NotClosed, Dropped
<1>4. CASE (\E s \in Step : Attend(s)) \/ Crash
  BY <1>4 DEF Attend, Crash, Dropped
<1>5. CASE Close
  <2>1. session' \in {"closing", "dropped"}
    BY <1>5, Zenon DEF Close, Dropped
  <2> QED BY <2>1
<1>6. CASE Input
  BY <1>6 DEF Input, OpeningIsMet, coordinator, root
<1> QED BY <1>1, <1>2, <1>3, <1>4, <1>5, <1>6 DEF Next

\* The request to start reaches a worker that takes it up and says how it
\* ended, or is gone.
LEMMA AskedStep ==
  ASSUME TypeOK, StreamParts, AskedIsMet, [Next]_vars
  PROVE  AskedIsMet'
<1> SUFFICES ASSUME session' = "asked"
             PROVE  \/ worker' \in {"refusing", "running", "gone"}
                    \/ \E i \in DOMAIN requests' : requests'[i].kind = "start"
                    \/ \E i \in DOMAIN events' : events'[i].kind # "started"
  BY DEF AskedIsMet
<1>t. tool' \in Step \union {NoStep}
  BY ChannelStep DEF TypeOK, WorkerTypes
<1>1. CASE WorkerRuns
  <2>1. session = "asked"
    BY <1>1 DEF WorkerRuns, Authorize, ServeRefused, SayRefused, ServeStart, ServeInput,
         ServeFinish, SayClosed, ServeEnd, ForwardInput, Disconnect, Report, coordinator
  <2>2. worker \in {"serving", "refusing", "running", "gone"}
    BY <2>1 DEF StreamParts, AskedOfWorker
  <2>3. ~Authorize /\ ~SayClosed
    BY <2>2 DEF Authorize, SayClosed
  <2>4. CASE ServeRefused \/ ServeStart \/ ForwardInput \/ Disconnect
    BY <2>4 DEF ServeRefused, ServeStart, ForwardInput, Disconnect
  <2>5. CASE ServeInput \/ ServeEnd
    BY <2>5 DEF ServeInput, ServeEnd, Leave
  <2>6. ~ServeFinish
    <3>1. SUFFICES ASSUME ServeFinish PROVE FALSE
      OBVIOUS
    <3>2. /\ requests # <<>> /\ requests' = Tail(requests) /\ Head(requests).kind = "finish"
          /\ UNCHANGED <<session, asked>>
      BY <3>1 DEF ServeFinish, Request, coordinator
    <3> QED BY <2>1, <3>2, FrameLeaves
  <2>7. ASSUME NEW k \in {"done", "failed", "error"}, Told(k)
        PROVE  \E i \in DOMAIN events' : events'[i].kind # "started"
    <3>1. events' = Append(events, [kind |-> k, step |-> tool'])
      BY <2>7 DEF Told
    <3>2. events \in Seq(Event) /\ [kind |-> k, step |-> tool'] \in Event
      BY <1>t, <2>7 DEF TypeOK, StreamTypes, Event
    <3>3. /\ Len(events) + 1 \in DOMAIN events'
          /\ events'[Len(events) + 1] = [kind |-> k, step |-> tool']
      BY <3>1, <3>2, Appended
    <3> QED BY <3>3
  <2>8. CASE SayRefused
    BY <2>7, <2>8 DEF SayRefused, Leave
  <2>9. CASE Report
    BY <2>7, <2>9 DEF Report, Leave
  <2> QED BY <1>1, <2>3, <2>4, <2>5, <2>6, <2>8, <2>9 DEF WorkerRuns
<1>2. CASE UNCHANGED vars \/ Over \/ ToolExits
  BY <1>2 DEF AskedIsMet, vars, Over, ToolExits, coordinator, root
<1>3. CASE Ask
  <2>1. Sent("start", asked)
    BY <1>3 DEF Ask
  <2>2. asked \in Step \union {NoStep}
    BY DEF TypeOK, SessionTypes
  <2> QED BY <2>1, <2>2, FrameStays
<1>4. CASE Hear
  <2>1. /\ session = "asked" /\ UNCHANGED <<worker, requests>>
        /\ events # <<>> /\ events' = Tail(events) /\ Head(events).kind = "started"
    BY <1>4 DEF Hear, root
  <2>2. ASSUME NEW i \in DOMAIN events, events[i].kind # "started"
        PROVE  \E j \in DOMAIN events' : events'[j].kind # "started"
    <3>1. /\ Head(events) = events[1]
          /\ Len(events) \in Nat \ {0}
          /\ DOMAIN events = 1 .. Len(events)
          /\ DOMAIN events' = 1 .. Len(events) - 1
          /\ \A j \in DOMAIN events' : events'[j] = events[j + 1]
      BY <2>1, Taken DEF TypeOK, StreamTypes
    <3>2. i # 1
      BY <2>1, <2>2, <3>1
    <3>3. i - 1 \in DOMAIN events' /\ events'[i - 1] = events[i]
      BY <3>1, <3>2
    <3> QED BY <2>2, <3>3
  <2> QED BY <2>1, <2>2 DEF AskedIsMet
<1>5. CASE Input
  <2>1. /\ session = "asked" /\ worker' = worker /\ events' = events
        /\ Sent("input", asked) /\ asked \in Step \union {NoStep}
    BY <1>5 DEF Input, coordinator, root, TypeOK, SessionTypes
  <2>2. \A i \in DOMAIN requests : i \in DOMAIN requests' /\ requests'[i] = requests[i]
    BY <2>1, FrameStays
  <2> QED BY <2>1, <2>2 DEF AskedIsMet
<1>6. CASE Opened \/ NotOpened \/ HearEnd \/ Settle \/ Closed \/ NotClosed
  BY <1>6 DEF Opened, NotOpened, HearEnd, Settle, Closed, NotClosed, Dropped
<1>7. CASE (\E s \in Step : Attend(s)) \/ Crash
  BY <1>7 DEF Attend, Crash, Dropped
<1>8. CASE Close
  <2>1. session' \in {"closing", "dropped"}
    BY <1>8, Zenon DEF Close, Dropped
  <2> QED BY <2>1
<1> QED BY <1>1, <1>2, <1>3, <1>4, <1>5, <1>6, <1>7, <1>8 DEF Next, SessionRuns

\* The request to finish reaches a worker that leaves, or is gone.
LEMMA ClosingStep ==
  ASSUME TypeOK, StreamParts, ClosingIsMet, [Next]_vars
  PROVE  ClosingIsMet'
<1> SUFFICES ASSUME session' = "closing"
             PROVE  \/ worker' \in {"leaving", "gone"}
                    \/ \E i \in DOMAIN requests' : requests'[i].kind = "finish"
  BY DEF ClosingIsMet
<1>1. CASE WorkerRuns
  <2>1. session = "closing"
    BY <1>1 DEF WorkerRuns, Authorize, ServeRefused, SayRefused, ServeStart, ServeInput,
         ServeFinish, SayClosed, ServeEnd, ForwardInput, Disconnect, Report, coordinator
  <2>2. \/ worker \in {"leaving", "gone"}
        \/ \E i \in DOMAIN requests : requests[i].kind = "finish"
    BY <2>1 DEF ClosingIsMet
  <2>3. worker \in {"refusing", "running"} => ~\E i \in DOMAIN requests : requests[i].kind = "finish"
    BY DEF StreamParts, BusyWithOne, TypedOnly
  <2>4. CASE SayRefused \/ ForwardInput \/ Disconnect \/ Report
    BY <2>2, <2>3, <2>4 DEF SayRefused, ForwardInput, Disconnect, Report
  <2>5. CASE ServeInput \/ ServeFinish \/ SayClosed \/ ServeEnd
    BY <2>5 DEF ServeInput, ServeFinish, SayClosed, ServeEnd, Leave
  <2>6. CASE ServeRefused \/ ServeStart
    <3>1. /\ worker = "serving" /\ requests # <<>> /\ requests' = Tail(requests)
          /\ Head(requests).kind = "start"
      BY <2>6 DEF ServeRefused, ServeStart, Request
    <3>2. PICK i \in DOMAIN requests : requests[i].kind = "finish"
      BY <2>2, <3>1
    <3> QED BY <3>1, <3>2, FrameWaits
  <2>7. CASE Authorize
    <3>1. requests' = requests /\ worker = "authorizing"
      BY <2>7 DEF Authorize
    <3> QED BY <2>2, <3>1
  <2> QED BY <1>1, <2>4, <2>5, <2>6, <2>7 DEF WorkerRuns
<1>2. CASE UNCHANGED vars \/ Over \/ ToolExits
  BY <1>2 DEF ClosingIsMet, vars, Over, ToolExits, coordinator, root
<1>3. CASE Close
  <2>1. Sent("finish", NoStep)
    BY <1>3, Zenon DEF Close, Dropped
  <2> QED BY <2>1, FrameStays
<1>4. CASE Input
  <2>1. /\ session = "closing" /\ worker' = worker
        /\ Sent("input", asked) /\ asked \in Step \union {NoStep}
    BY <1>4 DEF Input, coordinator, root, TypeOK, SessionTypes
  <2>2. \A i \in DOMAIN requests : i \in DOMAIN requests' /\ requests'[i] = requests[i]
    BY <2>1, FrameStays
  <2> QED BY <2>1, <2>2 DEF ClosingIsMet
<1>5. CASE SessionRuns
  BY <1>5 DEF SessionRuns, Opened, NotOpened, Ask, Hear, HearEnd, Settle, Closed,
              NotClosed, Dropped
<1>6. CASE (\E s \in Step : Attend(s)) \/ Crash
  BY <1>6 DEF Attend, Crash, Dropped
<1> QED BY <1>1, <1>2, <1>3, <1>4, <1>5, <1>6 DEF Next

\* Whatever the coordinator's Session waits for, somebody is there to bring it
\* or has brought it: no order of frames, refusals and failures leaves open(),
\* run() or close() with a worker that serves on and owes it nothing.
THEOREM SomebodyAnswers == Spec => []NobodyStranded
<1>1. Init => NobodyStranded
  BY DEF Init, NobodyStranded, OpeningIsMet, AskedIsMet, ClosingIsMet
<1>2. TypeOK /\ StreamInvariant /\ NobodyStranded /\ [Next]_vars => NobodyStranded'
  BY OpeningStep, AskedStep, ClosingStep
     DEF NobodyStranded, StreamInvariant, StreamParts
<1> QED BY <1>1, <1>2, ChannelTypes, Stream, PTL DEF Spec
=============================================================================
