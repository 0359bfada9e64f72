--------------------------- MODULE StayAwake_proofs ---------------------------
(***************************************************************************)
(* Proofs about StayAwake, for any programs, requests and lives.           *)
(***************************************************************************)
EXTENDS StayAwake, TLAPS

\* A shell that is away holds nothing, and another one is to come.
AwayHoldsNothing == ~serving => held = {} /\ life < MaxLives

\* No cookie is ahead of the counter that gave it out.
HeldCounted == \A h \in held : h.cookie <= next

\* Who was given a cookie by the shell that runs is the owner of what it stands
\* for.  A cookie of an earlier shell matches by chance only.
Matches(claim, owner) ==
  /\ claim.life <= life
  /\ serving /\ claim.life = life =>
       /\ claim.cookie <= next
       /\ \A h \in held : h.cookie = claim.cookie => h.owner = owner
GotMatches == \A g \in got : Matches(g.claim, g.owner)
MineMatches ==
  \A r \in Handle : \A claim \in request[r].mine : Matches(claim, Portal)

\* What the shell holds for the backend has a request that is under way.
Account ==
  Portal \in present =>
    \A h \in held : h.owner = Portal =>
      \E r \in Handle : /\ request[r].stage \notin {"new", "over"}
                        /\ \E claim \in request[r].mine :
                             claim.cookie = h.cookie /\ claim.life = life

\* The inductive invariant behind the two properties.
AwakeInvariant ==
  /\ TypeOK /\ Account
  /\ AwayHoldsNothing /\ HeldCounted /\ GotMatches /\ MineMatches

\* The parts of it that are about the shell's list and the cookies.
Cookies == AwayHoldsNothing /\ HeldCounted /\ GotMatches /\ MineMatches

-----------------------------------------------------------------------------
(* What the two calls of the shell do to its list *)

\* A new entry has a number of its own, and everybody's numbers still match.
LEMMA InhibitFacts ==
  ASSUME AwakeInvariant, NEW owner \in Owner, NEW what \in What,
         Inhibit(owner, what)
  PROVE  /\ next + 1 \in Cookie
         /\ held' = held \cup {[cookie |-> next + 1, owner |-> owner, what |-> what]}
         /\ held' \subseteq [cookie : Cookie, owner : Owner, what : What]
         /\ next' \in 0..MaxCookie /\ AwayHoldsNothing' /\ HeldCounted'
         /\ \A claim \in Claim, o \in Owner :
              Matches(claim, o) => Matches(claim, o)'
         /\ \A claim \in Claim :
              claim.cookie = next + 1 /\ claim.life = life
              => Matches(claim, owner)'
<1> USE StayAwakeAssumption
<1>1. next \in 0..MaxCookie /\ next < MaxCookie /\ serving /\ next' = next + 1
  BY DEF AwakeInvariant, TypeOK, Inhibit
<1>2. next + 1 \in Cookie /\ next' \in 0..MaxCookie
  BY <1>1 DEF Cookie
<1>3. held' = held \cup {[cookie |-> next + 1, owner |-> owner, what |-> what]}
  BY DEF Inhibit
<1>4. held' \subseteq [cookie : Cookie, owner : Owner, what : What]
  BY <1>2, <1>3 DEF AwakeInvariant, TypeOK
<1>5. AwayHoldsNothing' /\ life' = life /\ life \in Nat
  BY <1>1 DEF AwakeInvariant, TypeOK, Inhibit, AwayHoldsNothing, Lives
<1>6. \A h \in held : h.cookie \in Cookie /\ h.cookie <= next
  BY DEF AwakeInvariant, TypeOK, HeldCounted
<1>7. HeldCounted'
  BY <1>1, <1>3, <1>6 DEF HeldCounted, Cookie
<1>8. ASSUME NEW claim \in Claim, NEW o \in Owner, Matches(claim, o)
      PROVE  Matches(claim, o)'
  <2>1. claim.cookie \in Nat /\ claim.life \in Nat
    BY DEF Claim, Cookie, Lives
  <2>2. claim.life = life => claim.cookie # next + 1 /\ claim.cookie <= next + 1
    BY <1>1, <1>8, <2>1 DEF Matches
  <2> QED
    BY <1>1, <1>3, <1>5, <1>8, <2>2 DEF Matches
<1>9. ASSUME NEW claim \in Claim, claim.cookie = next + 1, claim.life = life
      PROVE  Matches(claim, owner)'
  <2>1. \A h \in held : h.cookie # next + 1
    BY <1>1, <1>6 DEF Cookie
  <2>2. \A h \in held' : h.cookie = next + 1 => h.owner = owner
    BY <1>3, <2>1
  <2> QED
    BY <1>1, <1>5, <1>9, <2>2 DEF Matches
<1> QED
  BY <1>2, <1>3, <1>4, <1>5, <1>7, <1>8, <1>9

\* A release only takes away.
LEMMA ReleaseFacts ==
  ASSUME AwakeInvariant, NEW cookie, Release(cookie)
  PROVE  /\ held' = {h \in held : h.cookie # cookie}
         /\ UNCHANGED <<life, serving, watching, next, left>>
         /\ AwayHoldsNothing' /\ HeldCounted'
         /\ \A claim, o : Matches(claim, o) => Matches(claim, o)'
<1>1. held' = {h \in held : h.cookie # cookie}
  BY DEF AwakeInvariant, AwayHoldsNothing, Release
<1>2. UNCHANGED <<life, serving, watching, next, left>>
  BY DEF Release
<1> QED
  BY <1>1, <1>2
     DEF AwakeInvariant, AwayHoldsNothing, HeldCounted, Matches

\* Nobody's number stops to match when the list shrinks or stays.
LEMMA CookiesFrame ==
  ASSUME AwakeInvariant, held' \subseteq held,
         UNCHANGED <<life, serving, next>>, got' \subseteq got,
         \A r \in Handle : request'[r].mine \subseteq request[r].mine
  PROVE  Cookies'
BY DEF AwakeInvariant, Cookies, AwayHoldsNothing, HeldCounted, GotMatches,
       MineMatches, Matches

\* The account survives a list that shrinks while the requests keep what the
\* entries that are left stand for.
LEMMA AccountFrame ==
  ASSUME Account, held' \subseteq held, present' \subseteq present,
         life' = life,
         \A r \in Handle : \A h \in held', claim \in request[r].mine :
           /\ request[r].stage \notin {"new", "over"} /\ h.owner = Portal
           /\ claim.cookie = h.cookie /\ claim.life = life
           => claim \in request'[r].mine /\ request'[r].stage \notin {"new", "over"}
  PROVE  Account'
<1> SUFFICES ASSUME Portal \in present', NEW h \in held', h.owner = Portal
             PROVE  \E r \in Handle :
                      /\ request'[r].stage \notin {"new", "over"}
                      /\ \E claim \in request'[r].mine :
                           claim.cookie = h.cookie /\ claim.life = life'
  BY DEF Account
<1>1. PICK r \in Handle : /\ request[r].stage \notin {"new", "over"}
                          /\ \E claim \in request[r].mine :
                               claim.cookie = h.cookie /\ claim.life = life
  BY DEF Account
<1> QED BY <1>1

-----------------------------------------------------------------------------
(* One action after the other *)

\* A request that is rewritten is still a request.
LEMMA RequestType ==
  ASSUME TypeOK, NEW r \in Handle, NEW new \in Request,
         request' = [request EXCEPT ![r] = new]
  PROVE  request' \in [Handle -> Request]
BY DEF TypeOK

LEMMA AwakeInit == Init => AwakeInvariant
<1> SUFFICES ASSUME Init PROVE AwakeInvariant
  OBVIOUS
<1>1. life \in Lives /\ next \in 0..MaxCookie
  BY StayAwakeAssumption DEF Init, Lives
<1>2. [stage |-> "new", todo |-> {}, mine |-> {}, closed |-> FALSE] \in Request
  BY DEF Request, Stage
<1>3. TypeOK
  BY <1>1, <1>2 DEF Init, TypeOK
<1> QED
  BY <1>3 DEF Init, AwakeInvariant, Account, AwayHoldsNothing,
              HeldCounted, GotMatches, MineMatches

\* The shell's own steps.
LEMMA ShellKeeps ==
  ASSUME AwakeInvariant,
         \/ StartWatching \/ ShellDies \/ ShellStarts
         \/ \E owner \in Owner : ForgetOwner(owner)
  PROVE  AwakeInvariant'
<1> USE StayAwakeAssumption
<1>1. CASE StartWatching
  <2>1. TypeOK' BY <1>1 DEF AwakeInvariant, TypeOK, StartWatching
  <2>2. Cookies' BY <1>1, CookiesFrame DEF StartWatching
  <2>3. Account'
    BY <1>1 DEF AwakeInvariant, Account, StartWatching
  <2> QED BY <2>1, <2>2, <2>3 DEF AwakeInvariant, Cookies
<1>2. CASE ShellDies
  <2>1. next' \in 0..MaxCookie /\ life < MaxLives
    BY <1>2 DEF ShellDies
  <2>2. TypeOK' BY <1>2, <2>1 DEF AwakeInvariant, TypeOK, ShellDies
  <2>3. held' = {} /\ ~serving' /\ UNCHANGED <<life, got, request>>
    BY <1>2 DEF ShellDies
  <2>4. Cookies'
    BY <2>1, <2>3 DEF AwakeInvariant, Cookies, AwayHoldsNothing, HeldCounted,
                      GotMatches, MineMatches, Matches
  <2> QED
    BY <2>2, <2>3, <2>4 DEF AwakeInvariant, Cookies, Account
<1>3. CASE ShellStarts
  <2>1. life \in Nat /\ life' = life + 1 /\ life' \in Lives
    BY <1>3 DEF AwakeInvariant, TypeOK, AwayHoldsNothing, ShellStarts, Lives
  <2>2. TypeOK' BY <1>3, <2>1 DEF AwakeInvariant, TypeOK, ShellStarts
  <2>3. held = {} /\ serving' /\ UNCHANGED <<held, got, request>>
    BY <1>3 DEF AwakeInvariant, AwayHoldsNothing, ShellStarts
  <2>4. ASSUME NEW claim, NEW o, claim.life \in Nat, Matches(claim, o)
        PROVE  Matches(claim, o)'
    BY <2>1, <2>4 DEF Matches
  <2>5. /\ \A g \in got : g.claim.life \in Nat
        /\ \A r \in Handle : \A claim \in request[r].mine : claim.life \in Nat
    BY DEF AwakeInvariant, TypeOK, Claim, Request, Lives
  <2>6. Cookies'
    BY <2>3, <2>4, <2>5 DEF AwakeInvariant, Cookies, AwayHoldsNothing,
                            HeldCounted, GotMatches, MineMatches
  <2> QED
    BY <2>2, <2>3, <2>6 DEF AwakeInvariant, Cookies, Account
<1>4. ASSUME NEW owner \in Owner, ForgetOwner(owner) PROVE AwakeInvariant'
  <2>1. TypeOK' BY <1>4 DEF AwakeInvariant, TypeOK, ForgetOwner
  <2>2. held' \subseteq held /\ UNCHANGED <<present, life, serving, next, got, request>>
    BY <1>4 DEF ForgetOwner
  <2>3. Cookies' BY <2>2, CookiesFrame
  <2>4. Account' BY <2>2 DEF AwakeInvariant, Account
  <2> QED BY <2>1, <2>3, <2>4 DEF AwakeInvariant, Cookies
<1> QED BY <1>1, <1>2, <1>3, <1>4

\* Programs that ask the shell themselves, and who leaves the bus.
LEMMA ProgramsKeep ==
  ASSUME AwakeInvariant,
         \/ \E p \in Program, what \in What : Ask(p, what) \/ Answer(p, what)
         \/ \E g \in got : LetGo(g)
         \/ \E owner \in Owner : Leave(owner)
  PROVE  AwakeInvariant'
<1> USE StayAwakeAssumption
<1>1. ASSUME NEW p \in Program, NEW what \in What, Ask(p, what)
      PROVE  AwakeInvariant'
  <2>1. TypeOK' BY <1>1 DEF AwakeInvariant, TypeOK, Ask, shell
  <2>2. UNCHANGED <<present, life, serving, next, held, got, request>>
    BY <1>1 DEF Ask, shell
  <2>3. Cookies' BY <2>2, CookiesFrame
  <2>4. Account' BY <2>2 DEF AwakeInvariant, Account
  <2> QED BY <2>1, <2>3, <2>4 DEF AwakeInvariant, Cookies
<1>2. ASSUME NEW p \in Program, NEW what \in What, Answer(p, what)
      PROVE  AwakeInvariant'
  <2> DEFINE given == [what |-> what, life |-> life, cookie |-> next + 1]
  <2>1. Inhibit(p, what) /\ p \in Owner /\ p # Portal
    BY <1>2 DEF Answer, Owner
  <2>2. given \in Claim
    BY <2>1, InhibitFacts DEF Claim, AwakeInvariant, TypeOK
  <2>3. got' \subseteq got \cup {[owner |-> p, claim |-> given]}
    BY <1>2 DEF Answer
  <2>4. got' \subseteq [owner : Program, claim : Claim]
    BY <2>2, <2>3 DEF AwakeInvariant, TypeOK
  <2>5. UNCHANGED <<present, request, life, serving, watching, left>>
    BY <1>2, <2>1 DEF Answer, Inhibit
  <2>6. asking' \subseteq asking
    BY <1>2 DEF Answer
  <2>7. TypeOK'
    BY <2>1, <2>4, <2>5, <2>6, InhibitFacts DEF AwakeInvariant, TypeOK
  <2>8. GotMatches'
    <3> SUFFICES ASSUME NEW g \in got' PROVE Matches(g.claim, g.owner)'
      BY DEF GotMatches
    <3>1. CASE g \in got
      BY <2>1, <3>1, InhibitFacts DEF AwakeInvariant, TypeOK, GotMatches, Owner
    <3>2. CASE g = [owner |-> p, claim |-> given]
      BY <2>1, <2>2, <3>2, InhibitFacts
    <3> QED BY <2>3, <3>1, <3>2
  <2>9. MineMatches'
    BY <2>1, <2>5, InhibitFacts
       DEF AwakeInvariant, TypeOK, MineMatches, Request, Owner
  <2>10. Account'
    BY <2>1, <2>5, InhibitFacts DEF AwakeInvariant, Account
  <2> QED
    BY <2>1, <2>7, <2>8, <2>9, <2>10, InhibitFacts DEF AwakeInvariant
<1>3. ASSUME NEW g \in got, LetGo(g) PROVE AwakeInvariant'
  <2>1. Release(g.claim.cookie) /\ got' \subseteq got
        /\ UNCHANGED <<present, asking, request>>
    BY <1>3 DEF LetGo
  <2>2. held' \subseteq held /\ UNCHANGED <<life, serving, watching, next, left>>
    BY <2>1, ReleaseFacts
  <2>3. TypeOK' BY <2>1, <2>2 DEF AwakeInvariant, TypeOK
  <2>4. Cookies' BY <2>1, <2>2, CookiesFrame
  <2>5. Account'
    BY <2>1, <2>2 DEF AwakeInvariant, Account
  <2> QED BY <2>3, <2>4, <2>5 DEF AwakeInvariant, Cookies
<1>4. ASSUME NEW owner \in Owner, Leave(owner) PROVE AwakeInvariant'
  <2>1. /\ present' = present \ {owner}
        /\ left' \subseteq left \cup {owner} /\ got' \subseteq got
        /\ UNCHANGED <<life, serving, watching, held, next, asking>>
    BY <1>4 DEF Leave
  <2>2. /\ request' \in [Handle -> Request]
        /\ \A r \in Handle : request'[r].mine \subseteq request[r].mine
    <3>1. CASE owner # Portal
      BY <1>4, <3>1 DEF Leave, AwakeInvariant, TypeOK
    <3>2. CASE owner = Portal
      <4>1. \A r \in Handle :
              request[r] \in Request
              /\ request'[r] = [request[r] EXCEPT
                   !.stage = IF @ = "new" THEN "new" ELSE "over",
                   !.mine = {}, !.todo = {}]
        BY <1>4, <3>2 DEF Leave, AwakeInvariant, TypeOK
      <4>2. \A r \in Handle : request'[r] \in Request /\ request'[r].mine = {}
        BY <4>1 DEF Request, Stage
      <4> QED BY <1>4, <3>2, <4>2 DEF Leave
    <3> QED BY <3>1, <3>2
  <2>3. TypeOK' BY <2>1, <2>2 DEF AwakeInvariant, TypeOK
  <2>4. Cookies' BY <2>1, <2>2, CookiesFrame
  <2>5. owner # Portal => request' = request
    BY <1>4 DEF Leave
  <2>6. Account'
    BY <2>1, <2>5 DEF AwakeInvariant, Account
  <2> QED BY <2>3, <2>4, <2>6 DEF AwakeInvariant, Cookies
<1> QED BY <1>1, <1>2, <1>3, <1>4

\* What the portal backend does with one request.
LEMMA PortalKeepsInvariant ==
  ASSUME AwakeInvariant, NEW r \in Handle,
         \/ \E wanted \in SUBSET What : PortalAsked(r, wanted)
         \/ PortalStep(r) \/ PortalCannotKeep(r) \/ CloseArrives(r)
  PROVE  AwakeInvariant'
<1> USE StayAwakeAssumption
<1>a. request[r] \in Request /\ request \in [Handle -> Request]
  BY DEF AwakeInvariant, TypeOK
<1>1. ASSUME UNCHANGED <<present, shell, asking, got>>,
             request' \in [Handle -> Request],
             \A q \in Handle : request'[q].mine = request[q].mine,
             \A q \in Handle : request'[q].stage \in {"new", "over"} =>
                request[q].stage \in {"new", "over"} \/ request[q].mine = {}
      PROVE  AwakeInvariant'
  <2>1. UNCHANGED <<life, serving, watching, held, next, left>>
    BY <1>1 DEF shell
  <2>2. TypeOK' BY <1>1, <2>1 DEF AwakeInvariant, TypeOK
  <2>3. Cookies' BY <1>1, <2>1, CookiesFrame
  <2>4. Account'
    BY <1>1, <2>1 DEF AwakeInvariant, Account
  <2> QED BY <2>2, <2>3, <2>4 DEF AwakeInvariant, Cookies
<1>2. ASSUME NEW wanted \in SUBSET What, PortalAsked(r, wanted)
      PROVE  AwakeInvariant'
  BY <1>a, <1>1, <1>2 DEF PortalAsked, Request, Stage
<1>3. CASE PortalKeeps(r) \/ PortalCannotKeep(r) \/ CloseArrives(r) \/ PortalForgets(r)
  <2>1. CASE PortalKeeps(r) \/ PortalCannotKeep(r)
    BY <1>a, <1>1, <2>1 DEF PortalKeeps, PortalCannotKeep, Request, Stage
  <2>2. CASE CloseArrives(r)
    <3>1. PICK stage \in Stage \ {"new", "over"} :
            request' = [request EXCEPT ![r] =
                          [@ EXCEPT !.closed = TRUE, !.stage = stage]]
      BY <1>a, <2>2 DEF CloseArrives, Stage, Request
    <3>2. request' \in [Handle -> Request]
      BY <1>a, <3>1 DEF Request
    <3>3. \A q \in Handle : request'[q].mine = request[q].mine
                            /\ (q # r => request'[q] = request[q])
      BY <1>a, <3>1 DEF Request
    <3>4. request'[r].stage \notin {"new", "over"}
      BY <1>a, <3>1 DEF Request
    <3>5. UNCHANGED <<present, shell, asking, got>>
      BY <2>2 DEF CloseArrives
    <3> QED BY <1>1, <3>2, <3>3, <3>4, <3>5
  <2>3. CASE PortalForgets(r)
    BY <1>a, <1>1, <2>3 DEF PortalForgets, Request, Stage
  <2> QED BY <1>3, <2>1, <2>2, <2>3
<1>4. CASE PortalHolds(r)
  <2> DEFINE what == IF "screen" \in request[r].todo THEN "screen" ELSE "sleep"
             claim == [what |-> what, cookie |-> next + 1, life |-> life]
  <2>1. CASE ~serving /\ request' = [request EXCEPT ![r].todo = @ \ {what}]
                      /\ UNCHANGED shell
    BY <1>a, <1>1, <1>4, <2>1 DEF PortalHolds, Request
  <2>2. CASE /\ Inhibit(Portal, what)
             /\ request' = [request EXCEPT ![r].todo = @ \ {what},
                                           ![r].mine = @ \cup {claim}]
    <3>1. Portal \in Owner /\ what \in What BY DEF Owner, What
    <3>2. claim \in Claim
      BY <2>2, <3>1, InhibitFacts DEF Claim, AwakeInvariant, TypeOK
    <3>3. UNCHANGED <<present, asking, got, life, serving, watching, left>>
      BY <1>4, <2>2 DEF PortalHolds, Inhibit
    <3>4. /\ request' \in [Handle -> Request]
          /\ request'[r].mine = request[r].mine \cup {claim}
          /\ request'[r].stage = request[r].stage
          /\ \A q \in Handle \ {r} : request'[q] = request[q]
      BY <1>a, <2>2, <3>2 DEF Request
    <3>5. TypeOK'
      BY <2>2, <3>1, <3>3, <3>4, InhibitFacts DEF AwakeInvariant, TypeOK
    <3>6. GotMatches'
      BY <2>2, <3>1, <3>3, InhibitFacts
         DEF AwakeInvariant, TypeOK, GotMatches, Owner
    <3>7. MineMatches'
      <4> SUFFICES ASSUME NEW q \in Handle, NEW c \in request'[q].mine
                   PROVE  Matches(c, Portal)'
        BY DEF MineMatches
      <4>1. CASE c \in request[q].mine
        BY <2>2, <3>1, <4>1, InhibitFacts
           DEF AwakeInvariant, TypeOK, MineMatches, Request
      <4>2. CASE c = claim
        BY <2>2, <3>1, <3>2, <4>2, InhibitFacts
      <4> QED BY <3>4, <4>1, <4>2
    <3>8. Account'
      <4> SUFFICES ASSUME Portal \in present', NEW h \in held', h.owner = Portal
                   PROVE  \E q \in Handle :
                            /\ request'[q].stage \notin {"new", "over"}
                            /\ \E c \in request'[q].mine :
                                 c.cookie = h.cookie /\ c.life = life'
        BY DEF Account
      <4>1. CASE h \in held
        BY <3>3, <3>4, <4>1 DEF AwakeInvariant, Account
      <4>2. CASE h.cookie = next + 1
        <5>1. request'[r].stage \notin {"new", "over"} /\ claim \in request'[r].mine
          BY <1>4, <3>4 DEF PortalHolds
        <5>2. claim.cookie = h.cookie /\ claim.life = life'
          BY <3>3, <4>2
        <5> QED BY <5>1, <5>2
      <4>3. held' = held \cup {[cookie |-> next + 1, owner |-> Portal, what |-> what]}
        BY <2>2, <3>1, InhibitFacts
      <4> QED
        BY <4>1, <4>2, <4>3
    <3> QED
      BY <2>2, <3>1, <3>5, <3>6, <3>7, <3>8, InhibitFacts DEF AwakeInvariant
  <2> QED BY <1>4, <2>1, <2>2 DEF PortalHolds
<1>5. ASSUME NEW claim \in request[r].mine, PortalReleases(r, claim)
      PROVE  AwakeInvariant'
  <2>1. /\ Release(claim.cookie) /\ UNCHANGED <<present, asking, got>>
        /\ request[r].stage = "closing"
        /\ request' = [request EXCEPT ![r].mine = @ \ {claim}]
    BY <1>5 DEF PortalReleases
  <2>2. /\ held' = {h \in held : h.cookie # claim.cookie}
        /\ UNCHANGED <<life, serving, watching, next, left>>
    BY <2>1, ReleaseFacts
  <2>3. /\ request' \in [Handle -> Request]
        /\ request'[r].mine = request[r].mine \ {claim}
        /\ request'[r].stage = request[r].stage
        /\ \A q \in Handle \ {r} : request'[q] = request[q]
    BY <1>a, <2>1 DEF Request
  <2>4. TypeOK' BY <2>1, <2>2, <2>3 DEF AwakeInvariant, TypeOK
  <2>5. Cookies' BY <2>1, <2>2, <2>3, CookiesFrame
  <2>6. Account'
    BY <2>1, <2>2, <2>3, AccountFrame DEF AwakeInvariant
  <2> QED BY <2>4, <2>5, <2>6 DEF AwakeInvariant, Cookies
<1> QED BY <1>2, <1>3, <1>4, <1>5 DEF PortalStep

\* Every step keeps the invariant.
LEMMA AwakeStep == AwakeInvariant /\ [Next]_vars => AwakeInvariant'
<1> SUFFICES ASSUME AwakeInvariant, [Next]_vars PROVE AwakeInvariant'
  OBVIOUS
<1>1. CASE UNCHANGED vars
  BY <1>1 DEF vars, AwakeInvariant, TypeOK, Account, AwayHoldsNothing,
              HeldCounted, GotMatches, MineMatches, Matches
<1> QED
  BY <1>1, ShellKeeps, ProgramsKeep, PortalKeepsInvariant DEF Next

\* Every variable keeps its type, for any programs, requests and bounds.
THEOREM TypeCorrect == Spec => []TypeOK
<1>1. AwakeInvariant => TypeOK BY DEF AwakeInvariant
<1> QED BY AwakeInit, AwakeStep, <1>1, PTL DEF Spec

\* A close that reaches its object leaves nothing behind: what the shell holds
\* for the backend is of a request that can still be closed, or of one that is
\* stranded, its object not exported or its close gone by (inhibit.rs:94).
THEOREM AccountKept == Spec => []PortalKeepsAccount
<1>1. AwakeInvariant => PortalKeepsAccount
  <2> SUFFICES ASSUME AwakeInvariant, NEW r \in Handle,
                      request[r].stage \notin {"new", "over"}
               PROVE  CanLetGo(r) \/ Stranded(r)
    BY DEF AwakeInvariant, Account, PortalKeepsAccount
  <2>1. request[r].stage \in Stage /\ request[r].closed \in BOOLEAN
    BY DEF AwakeInvariant, TypeOK, Request
  <2> QED BY <2>1 DEF CanLetGo, Stranded, Stage
<1> QED BY AwakeInit, AwakeStep, <1>1, PTL DEF Spec

-----------------------------------------------------------------------------
(* Only its owner, or a number it shares with an earlier life, ends what is *)
(* held                                                                      *)

\* Who is reported gone does not come back under that name.
LeftAreGone == left \cap present = {}

LEMMA LeftStep == LeftAreGone /\ [Next]_vars => LeftAreGone'
<1> SUFFICES ASSUME LeftAreGone, [Next]_vars PROVE LeftAreGone'
  OBVIOUS
<1> USE DEF LeftAreGone, shell, Inhibit, Release
<1>1. CASE StartWatching \/ ShellDies \/ ShellStarts
  BY <1>1 DEF StartWatching, ShellDies, ShellStarts
<1>2. ASSUME NEW owner \in Owner, ForgetOwner(owner) \/ Leave(owner)
      PROVE  LeftAreGone'
  BY <1>2 DEF ForgetOwner, Leave
<1>3. ASSUME NEW p \in Program, NEW what \in What, Ask(p, what) \/ Answer(p, what)
      PROVE  LeftAreGone'
  BY <1>3 DEF Ask, Answer
<1>4. ASSUME NEW g \in got, LetGo(g) PROVE LeftAreGone'
  BY <1>4 DEF LetGo
<1>5. ASSUME NEW r \in Handle,
             \/ \E wanted \in SUBSET What : PortalAsked(r, wanted)
             \/ PortalStep(r) \/ PortalCannotKeep(r) \/ CloseArrives(r)
      PROVE  LeftAreGone'
  BY <1>5 DEF PortalAsked, PortalStep, PortalHolds, PortalKeeps, PortalForgets,
              PortalReleases, PortalCannotKeep, CloseArrives
<1>6. CASE UNCHANGED vars
  BY <1>6 DEF vars
<1> QED BY <1>1, <1>2, <1>3, <1>4, <1>5, <1>6 DEF Next

\* Whoever has a number may give up what it stands for.
LEMMA GivesByNumber ==
  ASSUME AwakeInvariant, NEW h \in held, NEW claim \in Claim, NEW owner,
         Matches(claim, owner), claim.cookie = h.cookie
  PROVE  Gives(h, owner, claim)
<1>1. serving BY DEF AwakeInvariant, AwayHoldsNothing
<1>2. claim.life \in Nat /\ life \in Nat
  BY DEF AwakeInvariant, TypeOK, Claim, Lives
<1> QED BY <1>1, <1>2 DEF Matches, Gives

\* What one step may take off the list.
LEMMA HeldStep ==
  ASSUME AwakeInvariant, LeftAreGone, [Next]_vars, NEW h \in held \ held'
  PROVE  \/ ~serving' \/ h.owner \notin present
         \/ \E g \in got \ got' : Gives(h, g.owner, g.claim)
         \/ \E r \in Handle : \E claim \in request[r].mine \ request'[r].mine :
              Gives(h, Portal, claim)
<1>1. CASE StartWatching \/ ShellDies \/ ShellStarts
  BY <1>1 DEF StartWatching, ShellDies, ShellStarts
<1>2. ASSUME NEW owner \in Owner, ForgetOwner(owner) \/ Leave(owner)
      PROVE  h.owner \notin present
  BY <1>2 DEF ForgetOwner, Leave, LeftAreGone
<1>3. ~\E p \in Program, what \in What : Ask(p, what) \/ Answer(p, what)
  BY DEF Ask, Answer, Inhibit, shell
<1>4. ASSUME NEW g \in got, LetGo(g)
      PROVE  \E k \in got \ got' : Gives(h, k.owner, k.claim)
  <2>1. Release(g.claim.cookie) /\ g \in got \ got'
    BY <1>4 DEF LetGo
  <2>2. g.claim.cookie = h.cookie
    BY <2>1, ReleaseFacts
  <2>3. g.claim \in Claim /\ Matches(g.claim, g.owner)
    BY DEF AwakeInvariant, TypeOK, GotMatches
  <2> QED BY <2>1, <2>2, <2>3, GivesByNumber
<1>5. ASSUME NEW r \in Handle, NEW claim \in request[r].mine,
             PortalReleases(r, claim)
      PROVE  \E c \in request[r].mine \ request'[r].mine : Gives(h, Portal, c)
  <2>1. Release(claim.cookie) /\ claim \notin request'[r].mine
    BY <1>5 DEF PortalReleases, AwakeInvariant, TypeOK, Request
  <2>2. claim.cookie = h.cookie
    BY <2>1, ReleaseFacts
  <2>3. claim \in Claim /\ Matches(claim, Portal)
    BY DEF AwakeInvariant, TypeOK, Request, MineMatches
  <2> QED BY <2>1, <2>2, <2>3, GivesByNumber
<1>6. ASSUME NEW r \in Handle
      PROVE  /\ ~\E wanted \in SUBSET What : PortalAsked(r, wanted)
             /\ ~PortalHolds(r) /\ ~PortalKeeps(r) /\ ~PortalForgets(r)
             /\ ~PortalCannotKeep(r) /\ ~CloseArrives(r)
  BY DEF PortalAsked, PortalHolds, PortalKeeps, PortalForgets,
         PortalCannotKeep, CloseArrives, Inhibit, shell
<1>7. ~UNCHANGED vars
  BY DEF vars
<1>8. Next BY <1>7
<1> QED BY <1>1, <1>2, <1>3, <1>4, <1>5, <1>6, <1>8 DEF Next, PortalStep

\* Nothing that is held is let go but by its owner, by the owner's departure,
\* by the end of the shell, or by the same number from an earlier shell
\* (power_bus.rs, Inhibitions::release).
THEOREM HeldUntil == Spec => HeldUntilReleased
<1>1. Init => LeftAreGone BY DEF Init, LeftAreGone
<1>2. AwakeInvariant /\ LeftAreGone /\ [Next]_vars
      => [\A h \in held \ held' :
            \/ ~serving' \/ h.owner \notin present
            \/ \E g \in got \ got' : Gives(h, g.owner, g.claim)
            \/ \E r \in Handle :
                 \E claim \in request[r].mine \ request'[r].mine :
                   Gives(h, Portal, claim)]_vars
  BY HeldStep
<1> QED BY AwakeInit, AwakeStep, LeftStep, <1>1, <1>2, PTL
        DEF Spec, HeldUntilReleased
=============================================================================
