------------------------------ MODULE StayAwake ------------------------------
(***************************************************************************)
(* Programs that ask the session to keep the screen on or the machine      *)
(* awake: the shell's two bus interfaces (lxb-desktop/src/power_bus.rs)    *)
(* and the portal backend that carries the question of a sandboxed program *)
(* to them (lxb-portal/src/inhibit.rs).                                    *)
(*                                                                         *)
(* Every await of the portal ends a step, so everything that arrives on    *)
(* the bus interleaves with it.  The shell answers calls and hears of      *)
(* departures on threads of its own: the two are ordered on the bus, not   *)
(* in the shell.                                                           *)
(***************************************************************************)
EXTENDS Naturals, FiniteSets

CONSTANTS
  Program,      \* programs that ask the shell themselves, by unique name
  Portal,       \* the portal backend's unique name
  Handle,       \* the requests the desktop portal makes of the backend
  MaxCookie,    \* how many cookies one shell gives out (bound)
  MaxLives      \* how many shells there are, one after the other (bound)

ASSUME StayAwakeAssumption ==
  /\ Portal \notin Program
  /\ MaxCookie \in Nat /\ MaxLives \in Nat \ {0}

Owner == Program \cup {Portal}
What == {"screen", "sleep"}
Cookie == 1..MaxCookie
Lives == 1..MaxLives

VARIABLES
  present,   \* who is on the bus
  life,      \* which shell this is
  serving,   \* it has the names
  watching,  \* it hears NameOwnerChanged
  held,      \* Inhibitions::held
  next,      \* Inhibitions::next
  left,      \* departures it has been told of and not looked at
  asking,    \* Inhibit calls of programs it has not answered
  got,       \* the cookies programs were given, with the life that gave them
  request    \* the backend's requests

vars == <<present, life, serving, watching, held, next, left, asking, got,
          request>>
shell == <<life, serving, watching, held, next, left>>

\* stage: new, asked (between two holds), kept (exported), closing, over, lost
\* (the request could not be kept).  todo: what is still to be taken; mine:
\* the cookies the request has; closed: Close has been sent.
Stage == {"new", "asked", "kept", "closing", "over", "lost"}
Claim == [what : What, cookie : Cookie, life : Lives]
Request == [stage : Stage, todo : SUBSET What, mine : SUBSET Claim,
            closed : BOOLEAN]

TypeOK ==
  /\ present \subseteq Owner
  /\ life \in Lives /\ serving \in BOOLEAN /\ watching \in BOOLEAN
  /\ held \subseteq [cookie : Cookie, owner : Owner, what : What]
  /\ next \in 0..MaxCookie
  /\ left \subseteq Owner
  /\ asking \subseteq Program \X What
  /\ got \subseteq [owner : Program, claim : Claim]
  /\ request \in [Handle -> Request]

Init ==
  /\ present = Owner
  /\ life = 1 /\ serving = TRUE /\ watching = FALSE
  /\ held = {} /\ next = 0 /\ left = {} /\ asking = {} /\ got = {}
  /\ request = [r \in Handle |->
                  [stage |-> "new", todo |-> {}, mine |-> {}, closed |-> FALSE]]

-----------------------------------------------------------------------------
(* The shell *)

\* Inhibitions::inhibit.
Inhibit(owner, what) ==
  /\ serving /\ next < MaxCookie
  /\ next' = next + 1
  /\ held' = held \cup {[cookie |-> next + 1, owner |-> owner, what |-> what]}
  /\ UNCHANGED <<life, serving, watching, left>>

\* Mutant: a release is looked up by what is held, not by its cookie.
ReleaseNewest(cookie) ==
  /\ held' = {h \in held : h.cookie # next}
  /\ UNCHANGED <<life, serving, watching, next, left>>

\* Inhibitions::release: whoever asks, every entry with the cookie.
Release(cookie) ==
  /\ held' = IF serving THEN {h \in held : h.cookie # cookie} ELSE held
  /\ UNCHANGED <<life, serving, watching, next, left>>

\* The watch thread has its match rule on the bus.
StartWatching ==
  /\ serving /\ ~watching
  /\ watching' = TRUE
  /\ UNCHANGED <<present, life, serving, held, next, left, asking, got, request>>

\* forget_owner, for one departure.
ForgetOwner(owner) ==
  /\ owner \in left
  /\ left' = left \ {owner}
  /\ held' = {h \in held : h.owner # owner}
  /\ UNCHANGED <<present, life, serving, watching, next, asking, got, request>>

\* The shell goes, and another takes its place with an empty list.
ShellDies ==
  /\ serving /\ life < MaxLives
  /\ serving' = FALSE /\ watching' = FALSE
  /\ held' = {} /\ next' = 0 /\ left' = {}
  /\ asking' = {}
  /\ UNCHANGED <<present, life, got, request>>

ShellStarts ==
  /\ ~serving
  /\ serving' = TRUE /\ life' = life + 1
  /\ UNCHANGED <<present, watching, held, next, left, asking, got, request>>

-----------------------------------------------------------------------------
(* Programs that ask the shell themselves *)

Ask(p, what) ==
  /\ p \in present /\ serving
  /\ \A g \in got : g.owner # p
  /\ ~\E w \in What : <<p, w>> \in asking
  /\ asking' = asking \cup {<<p, what>>}
  /\ UNCHANGED <<present, shell, got, request>>

Answer(p, what) ==
  /\ <<p, what>> \in asking
  /\ Inhibit(p, what)
  /\ asking' = asking \ {<<p, what>>}
  /\ got' = got \cup (IF p \notin present THEN {}
                      ELSE {[owner |-> p,
                             claim |-> [what |-> what, life |-> life,
                                        cookie |-> next + 1]]})
  /\ UNCHANGED <<present, request>>

LetGo(g) ==
  /\ g \in got /\ g.owner \in present
  /\ Release(g.claim.cookie)
  /\ got' = got \ {g}
  /\ UNCHANGED <<present, asking, request>>

\* A program, or the portal backend, leaves the bus.  The signal goes to who
\* listens for it at that moment.
Leave(owner) ==
  /\ owner \in present
  /\ present' = present \ {owner}
  /\ left' = IF watching THEN left \cup {owner} ELSE left
  /\ got' = {g \in got : g.owner # owner}
  /\ request' = IF owner # Portal THEN request
                ELSE [r \in Handle |-> [request[r] EXCEPT !.stage =
                                          IF @ = "new" THEN "new" ELSE "over",
                                        !.mine = {}, !.todo = {}]]
  /\ UNCHANGED <<life, serving, watching, held, next, asking>>

-----------------------------------------------------------------------------
(* The portal backend *)

\* Inhibit::inhibit begins: what the flags ask for.
PortalAsked(r, wanted) ==
  /\ Portal \in present /\ request[r].stage = "new"
  /\ request' = [request EXCEPT ![r].stage = "asked", ![r].todo = wanted]
  /\ UNCHANGED <<present, shell, asking, got>>

\* One hold(), the screen before sleep; None when nothing answers.
PortalHolds(r) ==
  /\ Portal \in present
  /\ request[r].stage = "asked" /\ request[r].todo # {}
  /\ LET what == IF "screen" \in request[r].todo THEN "screen" ELSE "sleep"
     IN  \/ /\ Inhibit(Portal, what)
            /\ request' = [request EXCEPT
                 ![r].todo = @ \ {what},
                 ![r].mine = @ \cup {[what |-> what, cookie |-> next + 1,
                                      life |-> life]}]
         \/ /\ ~serving
            /\ request' = [request EXCEPT ![r].todo = @ \ {what}]
            /\ UNCHANGED shell
  /\ UNCHANGED <<present, asking, got>>

\* server.at: the object that can be closed is there from now on.
PortalKeeps(r) ==
  /\ request[r].stage = "asked" /\ request[r].todo = {}
  /\ request' = [request EXCEPT ![r].stage = "kept"]
  /\ UNCHANGED <<present, shell, asking, got>>

\* server.at fails: a warning is logged, and the cookies are forgotten while the
\* shell still holds what they stand for.  They stay in mine for the properties.
PortalCannotKeep(r) ==
  /\ request[r].stage = "asked" /\ request[r].todo = {}
  /\ request' = [request EXCEPT ![r].stage = "lost"]
  /\ UNCHANGED <<present, shell, asking, got>>

\* The front end closes the request, once, at any moment after it asked: an
\* object that is not there yet answers that it is unknown.
CloseArrives(r) ==
  /\ request[r].stage \in {"asked", "kept"} /\ ~request[r].closed
  /\ request' = [request EXCEPT ![r].closed = TRUE,
                   ![r].stage = IF @ = "kept" THEN "closing" ELSE @]
  /\ UNCHANGED <<present, shell, asking, got>>

\* Mutant: what was held is forgotten before it is let go.
DrainsFirst(r, claim) ==
  /\ request[r].stage = "closing" /\ claim \in request[r].mine
  /\ Release(claim.cookie)
  /\ request' = [request EXCEPT ![r].mine = {}]
  /\ UNCHANGED <<present, asking, got>>

\* Mutant: only a single cookie is let go.
ReleasesOne(r, claim) ==
  /\ request[r].stage = "closing" /\ request[r].mine = {claim}
  /\ Release(claim.cookie)
  /\ request' = [request EXCEPT ![r].mine = {}]
  /\ UNCHANGED <<present, asking, got>>

\* Request::close: one UnInhibit after the other, then the object goes.
PortalReleases(r, claim) ==
  /\ request[r].stage = "closing" /\ claim \in request[r].mine
  /\ Release(claim.cookie)
  /\ request' = [request EXCEPT ![r].mine = @ \ {claim}]
  /\ UNCHANGED <<present, asking, got>>

PortalForgets(r) ==
  /\ request[r].stage = "closing" /\ request[r].mine = {}
  /\ request' = [request EXCEPT ![r].stage = "over"]
  /\ UNCHANGED <<present, shell, asking, got>>

-----------------------------------------------------------------------------
PortalStep(r) ==
  \/ PortalHolds(r) \/ PortalKeeps(r) \/ PortalForgets(r)
  \/ \E claim \in request[r].mine : PortalReleases(r, claim)

Next ==
  \/ StartWatching \/ ShellDies \/ ShellStarts
  \/ \E owner \in Owner : ForgetOwner(owner) \/ Leave(owner)
  \/ \E p \in Program, what \in What : Ask(p, what) \/ Answer(p, what)
  \/ \E g \in got : LetGo(g)
  \/ \E r \in Handle :
       \/ \E wanted \in SUBSET What : PortalAsked(r, wanted)
       \/ PortalStep(r) \/ PortalCannotKeep(r) \/ CloseArrives(r)

Spec == Init /\ [][Next]_vars

\* Both processes are scheduled, and a shell that went is started again.
FairSpec ==
  /\ Spec /\ WF_vars(ShellStarts)
  /\ \A r \in Handle : WF_vars(PortalStep(r))

-----------------------------------------------------------------------------
(* What must hold *)

\* A request that a close can still let go: the front end has its one close
\* left, or the close is being carried out.
CanLetGo(r) ==
  \/ request[r].stage \in {"asked", "kept"} /\ ~request[r].closed
  \/ request[r].stage = "closing"

\* A request that nothing lets go while the backend lives: its object could not
\* be exported, although the log says that nothing is held (inhibit.rs:94), or
\* its close came before there was an object.
Stranded(r) ==
  \/ request[r].stage = "lost"
  \/ request[r].stage \in {"asked", "kept"} /\ request[r].closed

\* A close that reaches its object leaves nothing behind (inhibit.rs:15-20):
\* whatever the shell holds for the backend has a request that has the cookie
\* and can still be closed.  Not so for the requests that are stranded: what
\* those took stays held until the backend leaves the bus.
PortalKeepsAccount ==
  Portal \in present =>
    \A h \in held : h.owner = Portal =>
      \E r \in Handle : /\ CanLetGo(r) \/ Stranded(r)
                        /\ \E claim \in request[r].mine :
                             claim.cookie = h.cookie /\ claim.life = life

\* A release that carries the cookie, made by who was given it.
Gives(h, owner, claim) ==
  /\ claim.cookie = h.cookie
  /\ (owner = h.owner /\ claim.life = life) \/ claim.life < life

\* An inhibition is held until its owner releases it or leaves (power_bus.rs,
\* the test an_inhibition_is_held_until_released_or_its_owner_leaves), with one
\* exception: cookies are counted from one by every shell, so a program that
\* outlived an earlier one may let go by its old number what is another's.
HeldUntilReleased ==
  [][\A h \in held \ held' :
       \/ ~serving' \/ h.owner \notin present
       \/ \E g \in got \ got' : Gives(h, g.owner, g.claim)
       \/ \E r \in Handle : \E claim \in request[r].mine \ request'[r].mine :
            Gives(h, Portal, claim)]_vars

\* A close that finds the request is carried out: in the end the request is
\* gone (and, by PortalKeepsAccount, nothing of it is held).
KeptIsReleased ==
  \A r \in Handle :
    request[r].stage = "closing" ~> request[r].stage = "over"
=============================================================================
