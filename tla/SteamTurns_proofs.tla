------------------------- MODULE SteamTurns_proofs -------------------------
(* What holds of the turns for every number of sessions, threads and lives:  *)
(* types; that a turn excludes; and, where file locks exclude and nobody      *)
(* else touches the files, that the marker of a wake stays, that a wake takes *)
(* back its own, and that no edit of the account list is lost.                *)
EXTENDS SteamTurns, TLAPS

USE DEF What, Flows, Wakes, Stages

---------------------------------------------------------------------------
(* Types                                                                   *)

LEMMA ThreadParts ==
  ASSUME NEW t \in Thread
  PROVE  t[1] \in Sessions /\ t[2] \in Slots /\ t = <<t[1], t[2]>>
BY ThreadAssumption

\* The parts of a step that only move one thread on.
LEMMA GotoType ==
  ASSUME TypeOK, NEW t \in Thread, NEW stage \in Stages, Goto(t, stage)
  PROVE  pc' \in [Thread -> Stages]
BY DEF TypeOK, Goto

LEMMA HavingType ==
  ASSUME NEW w \in What
  PROVE  Having(w) \in Stages
BY DEF Having

LEMMA FirstTurnType ==
  ASSUME NEW f \in Flows
  PROVE  FirstTurn(f) \in What
BY DEF FirstTurn

LEMMA TypeInit == Init => TypeOK
<1> SUFFICES ASSUME Init PROVE TypeOK
  OBVIOUS
<1>1. pc \in [Thread -> Stages] /\ flow \in [Thread -> Flows] /\ goal \in [Thread -> What]
  BY DEF Init
<1>2. exposed \in [Thread -> {"no", "made", "found"}] /\ copy \in [Thread -> AccountList]
  BY DEF Init, AccountList
<1>3. local \in [Sessions -> [What -> Slots \cup {None}]] /\ file \in [What -> Thread \cup {None}]
  BY DEF Init
<1>4. life \in [Sessions -> 1 .. MaxLives] /\ asked \in 0 .. MaxAsks
  BY BoundsAssumption DEF Init
<1>5. marker \in {None, Somebody} \cup Maker
  BY DEF Init
<1>6. note \in BOOLEAN /\ lease \in {None} \cup Lease /\ claimed \in BOOLEAN /\ panel \in BOOLEAN
  BY DEF Init
<1>7. /\ client \in {"none", "starting", "exposed", "shut"} /\ list \in AccountList
  BY DEF Init, AccountList
<1> QED
  BY <1>1, <1>2, <1>3, <1>4, <1>5, <1>6, <1>7 DEF TypeOK

LEMMA TypeAsk ==
  ASSUME TypeOK, NEW t \in Thread, Ask(t)
  PROVE  TypeOK'
<1>1. PICK f \in Asks :
        /\ flow' = [flow EXCEPT ![t] = f]
        /\ goal' = [goal EXCEPT ![t] = IF f = "tidy" THEN "TheClient" ELSE FirstTurn(f)]
        /\ Goto(t, IF f = "tidy" THEN "Look" ELSE "Queue")
  BY DEF Ask
<1>2. f \in Flows
  BY AsksAssumption
<1>3. FirstTurn(f) \in What
  BY <1>2, FirstTurnType
<1>4. pc' \in [Thread -> Stages] /\ flow' \in [Thread -> Flows] /\ goal' \in [Thread -> What]
  BY <1>1, <1>2, <1>3 DEF TypeOK, Goto
<1>5. exposed' \in [Thread -> {"no", "made", "found"}] /\ asked' \in 0 .. MaxAsks
  BY BoundsAssumption DEF Ask, TypeOK
<1> QED
  BY <1>4, <1>5 DEF Ask, TypeOK, locks, disk, account

LEMMA TypeTurn ==
  ASSUME TypeOK, NEW t \in Thread, TakeLocal(t) \/ TakeFile(t) \/ DropFile(t) \/ DropLocal(t)
  PROVE  TypeOK'
<1>1. t[1] \in Sessions /\ t[2] \in Slots /\ goal[t] \in What
  BY ThreadParts DEF TypeOK
<1>2. Having(goal[t]) \in Stages
  BY <1>1, HavingType
<1>3. pc' \in [Thread -> Stages]
  BY <1>2 DEF TypeOK, Goto, TakeLocal, TakeFile, DropFile, DropLocal
<1>4. file' \in [What -> Thread \cup {None}]
  BY <1>1 DEF TypeOK, TakeLocal, TakeFile, DropFile, DropLocal
<1>5. local' \in [Sessions -> [What -> Slots \cup {None}]]
  <2>1. CASE UNCHANGED local
    BY <2>1 DEF TypeOK
  <2>2. CASE TakeLocal(t)
    BY <1>1, <2>2 DEF TypeOK, TakeLocal, SessionOf
  <2>3. CASE DropLocal(t)
    BY <1>1, <2>3 DEF TypeOK, DropLocal, SessionOf
  <2> QED
    BY <2>1, <2>2, <2>3 DEF TakeFile, DropFile
<1>6. goal' \in [Thread -> What]
  BY DEF TypeOK, TakeLocal, TakeFile, DropFile, DropLocal
<1> QED
  BY <1>3, <1>4, <1>5, <1>6 DEF TypeOK, TakeLocal, TakeFile, DropFile, DropLocal, disk, account

LEMMA MadeByType ==
  ASSUME TypeOK, NEW t \in Thread
  PROVE  MadeBy(t) \in Maker /\ MadeBy(t) # None /\ MadeBy(t) # Somebody
<1>1. life[SessionOf(t)] \in 1 .. MaxLives
  BY ThreadParts DEF TypeOK, SessionOf
<1>2. MadeBy(t) \in Maker
  BY <1>1 DEF MadeBy, Maker
<1> QED
  BY <1>2, NoneAssumption DEF Maker

LEMMA TypeWake ==
  ASSUME TypeOK, NEW t \in Thread, WakeStep(t)
  PROVE  TypeOK'
<1>1. CASE Decide(t)
  <2>1. pc' \in [Thread -> Stages] /\ goal' \in [Thread -> What]
    BY <1>1 DEF TypeOK, Decide, ToTheList, Goto
  <2> QED
    BY <1>1, <2>1 DEF TypeOK, Decide, locks, disk, account
<1>2. CASE Act(t)
  <2>1. pc' \in [Thread -> Stages]
    BY <1>2 DEF TypeOK, Act, Goto
  <2> QED
    BY <1>2, <2>1 DEF TypeOK, Act, locks, disk, account
<1>3. CASE Expose(t)
  <2>1. pc' \in [Thread -> Stages] /\ exposed' \in [Thread -> {"no", "made", "found"}]
    BY <1>3 DEF TypeOK, Expose, Goto
  <2>2. marker' \in {None, Somebody} \cup Maker
    BY <1>3, MadeByType DEF TypeOK, Expose
  <2> QED
    BY <1>3, <2>1, <2>2 DEF TypeOK, Expose, locks, account
<1>4. CASE WriteLease(t)
  <2>1. pc' \in [Thread -> Stages]
    BY <1>4 DEF TypeOK, WriteLease, Goto
  <2>2. lease' \in {None} \cup Lease
    BY <1>4, ThreadParts DEF TypeOK, WriteLease, Lease, SessionOf
  <2> QED
    BY <1>4, <2>1, <2>2 DEF TypeOK, WriteLease, locks, account
<1>5. CASE WriteNote(t)
  <2>1. pc' \in [Thread -> Stages] /\ note' \in BOOLEAN
    BY <1>5 DEF TypeOK, WriteNote, Goto, Opens
  <2> QED
    BY <1>5, <2>1 DEF TypeOK, WriteNote, locks, account
<1>6. CASE Start(t)
  <2>1. pc' \in [Thread -> Stages] /\ client' \in {"none", "starting", "exposed", "shut"}
    BY <1>6 DEF TypeOK, Start, Goto
  <2> QED
    BY <1>6, <2>1 DEF TypeOK, Start, locks, disk, account
<1>7. CASE Watch(t) \/ Drive(t)
  <2>1. pc' \in [Thread -> Stages]
    BY <1>7 DEF TypeOK, Watch, Drive, Goto
  <2> QED
    BY <1>7, <2>1 DEF TypeOK, Watch, Drive, locks, disk, account
<1>8. CASE Withdraw(t)
  <2>1. pc' \in [Thread -> Stages] /\ note' \in BOOLEAN
    BY <1>8 DEF TypeOK, Withdraw, Goto
  <2> QED
    BY <1>8, <2>1 DEF TypeOK, Withdraw, locks, account
<1>9. CASE Unlease(t) \/ Unmark(t)
  <2>1. pc' \in [Thread -> Stages] /\ lease' \in {None} \cup Lease /\ marker' \in {None, Somebody} \cup Maker
    BY <1>9 DEF TypeOK, Unlease, Unmark, Goto
  <2> QED
    BY <1>9, <2>1 DEF TypeOK, Unlease, Unmark, locks, account
<1> QED
  BY <1>1, <1>2, <1>3, <1>4, <1>5, <1>6, <1>7, <1>8, <1>9 DEF WakeStep

LEMMA TypeEdit ==
  ASSUME TypeOK, NEW t \in Thread, EditStep(t)
  PROVE  TypeOK'
<1>1. CASE ReadList(t)
  <2>1. pc' \in [Thread -> Stages] /\ copy' \in [Thread -> AccountList]
    BY <1>1 DEF TypeOK, ReadList, Goto
  <2> QED
    BY <1>1, <2>1 DEF TypeOK, ReadList, locks, disk, account
<1>2. CASE ForgetClaim(t) \/ Claim(t)
  <2>1. pc' \in [Thread -> Stages] /\ claimed' \in BOOLEAN
    BY <1>2 DEF TypeOK, ForgetClaim, Claim, Goto
  <2> QED
    BY <1>2, <2>1 DEF TypeOK, ForgetClaim, Claim, locks, disk
<1>3. CASE WriteList(t)
  <2>1. pc' \in [Thread -> Stages]
    BY <1>3 DEF TypeOK, WriteList, Goto
  <2>2. list' \in AccountList
    BY <1>3 DEF TypeOK, WriteList, Changed, AccountList
  <2> QED
    BY <1>3, <2>1, <2>2 DEF TypeOK, WriteList, locks, disk
<1> QED
  BY <1>1, <1>2, <1>3 DEF EditStep

LEMMA TypeTidy ==
  ASSUME TypeOK, NEW t \in Thread, TidyStep(t)
  PROVE  TypeOK'
<1>1. CASE Look(t) \/ Judge(t)
  <2>1. pc' \in [Thread -> Stages]
    BY <1>1 DEF TypeOK, Look, Judge, Goto
  <2> QED
    BY <1>1, <2>1 DEF TypeOK, Look, Judge, locks, disk, account
<1>2. CASE Try(t)
  <2>1. pc' \in [Thread -> Stages]
    BY <1>2 DEF TypeOK, Try, Goto, Stages
  <2>3. file' \in [What -> Thread \cup {None}]
    <3>1. file' = file \/ file' = [file EXCEPT !["TheClient"] = t]
      BY <1>2 DEF Try, locks
    <3> QED
      BY <3>1 DEF TypeOK
  <2>2. local' \in [Sessions -> [What -> Slots \cup {None}]]
    <3>1. t[1] \in Sessions /\ t[2] \in Slots
      BY ThreadParts
    <3>2. \/ local' = local
          \/ local' = [local EXCEPT ![t[1]]["TheClient"] = t[2]]
      BY <1>2 DEF Try, locks, SessionOf
    <3> QED
      BY <3>1, <3>2 DEF TypeOK
  <2> QED
    BY <1>2, <2>1, <2>2, <2>3 DEF TypeOK, Try, disk, account
<1>3. CASE TakeBack(t) \/ Unnote(t) \/ Forgotten(t)
  <2>1. pc' \in [Thread -> Stages] /\ lease' \in {None} \cup Lease
    BY <1>3 DEF TypeOK, TakeBack, Unnote, Forgotten, Goto
  <2>2. marker' \in {None, Somebody} \cup Maker /\ note' \in BOOLEAN
    BY <1>3 DEF TypeOK, TakeBack, Unnote, Forgotten
  <2> QED
    BY <1>3, <2>1, <2>2 DEF TypeOK, TakeBack, Unnote, Forgotten, locks, account
<1> QED
  BY <1>1, <1>2, <1>3 DEF TidyStep

LEMMA TypeKill ==
  ASSUME TypeOK, NEW s \in Sessions, Kill(s)
  PROVE  TypeOK'
<1>1. <<s, First>> \in Thread
  BY ThreadAssumption
<1>2. pc' \in [Thread -> Stages] /\ flow' \in [Thread -> Flows] /\ goal' \in [Thread -> What]
  BY <1>1 DEF TypeOK, Kill
<1>3. local' \in [Sessions -> [What -> Slots \cup {None}]] /\ file' \in [What -> Thread \cup {None}]
  BY DEF TypeOK, Kill
<1>4. life' \in [Sessions -> 1 .. MaxLives]
  BY BoundsAssumption DEF TypeOK, Kill
<1>5. exposed' \in [Thread -> {"no", "made", "found"}]
  BY DEF TypeOK, Kill
<1> QED
  BY <1>2, <1>3, <1>4, <1>5 DEF TypeOK, Kill, disk, account

LEMMA TypeSurroundings ==
  ASSUME TypeOK, ClientReads \/ ClientExits \/ Touch \/ Raise \/ Shut \/ Choose \/ Rest \/ UNCHANGED vars
  PROVE  TypeOK'
<1>1. CASE ClientReads \/ ClientExits
  BY <1>1 DEF TypeOK, ClientReads, ClientExits, locks, disk, account
<1>2. CASE Touch \/ Raise \/ Shut
  BY <1>2 DEF TypeOK, Touch, Raise, Shut, locks, disk, account
<1>3. CASE Choose
  <2>1. list' \in AccountList
    BY <1>3 DEF TypeOK, Choose, AccountList
  <2> QED
    BY <1>3, <2>1 DEF TypeOK, Choose, locks, disk
<1>4. CASE Rest \/ UNCHANGED vars
  BY <1>4 DEF TypeOK, Rest, vars
<1> QED
  BY <1>1, <1>2, <1>3, <1>4

LEMMA TypeStep == TypeOK /\ [Next]_vars => TypeOK'
BY TypeAsk, TypeTurn, TypeWake, TypeEdit, TypeTidy, TypeKill, TypeSurroundings DEF Next, Runs

\* Every variable of the sessions, their locks and the files keeps its type.
THEOREM TypeCorrect == Spec => []TypeOK
BY TypeInit, TypeStep, PTL DEF Spec

---------------------------------------------------------------------------
(* Exclusion                                                               *)

Free == {"idle", "Queue", "Look", "Try"}

\* A wake that sees to the account list still holds the client's turn.
Nested(t, w) ==
  w = "TheClient" /\ flow[t] \in Wakes /\ goal[t] = "TheAccountList" /\ pc[t] # "idle"

HasLocal(t, w) == (goal[t] = w /\ pc[t] \notin Free) \/ Nested(t, w)

HasFile(t, w) == (goal[t] = w /\ pc[t] \notin Free \cup {"Open", "Unlock"}) \/ Nested(t, w)

\* What a thread does is something it does with the thing whose turn it has.
Placed(t) ==
  /\ pc[t] \in AtTheClient \cup {"Look", "Try"} => goal[t] = "TheClient"
  /\ pc[t] \in AtTheList => goal[t] = "TheAccountList"
  /\ pc[t] = "Drive" => goal[t] = "TheWizard"
  /\ pc[t] \in {"Queue", "Open", "Decide"} /\ goal[t] = "TheClient" => flow[t] \in Wakes

LocalOf(t) == \A w \in What : HasLocal(t, w) => local[SessionOf(t)][w] = t[2]
FileOf(t) == Excludes => \A w \in What : HasFile(t, w) => file[w] = t

Held == \A t \in Thread : Placed(t) /\ LocalOf(t) /\ FileOf(t)

LEMMA HeldExcludes ==
  ASSUME TypeOK, Held
  PROVE  Exclusion
<1> SUFFICES ASSUME NEW t \in Thread, NEW u \in Thread, NEW w \in What,
                    t # u, Inside(t, w), Inside(u, w)
             PROVE  ~Excludes /\ SessionOf(t) # SessionOf(u)
  BY DEF Exclusion
<1>1. ASSUME NEW v \in Thread, Inside(v, w) PROVE HasLocal(v, w) /\ HasFile(v, w)
  BY <1>1 DEF Held, Placed, Inside, HasLocal, HasFile, Nested, Free, AtTheClient, AtTheList
<1>2. local[SessionOf(t)][w] = t[2] /\ local[SessionOf(u)][w] = u[2]
  BY <1>1 DEF Held, LocalOf
<1>3. SessionOf(t) # SessionOf(u)
  BY <1>2, ThreadParts DEF SessionOf
<1>4. ~Excludes
  BY <1>1 DEF Held, FileOf
<1> QED
  BY <1>3, <1>4

LEMMA HeldInit == Init => Held
BY DEF Init, Held, Placed, LocalOf, FileOf, HasLocal, HasFile, Nested, Free, AtTheClient, AtTheList

\* A thread that is left where it was keeps what it had.
LEMMA OthersKeep ==
  ASSUME TypeOK, Held, NEW u \in Thread,
         pc'[u] = pc[u], flow'[u] = flow[u], goal'[u] = goal[u],
         \A w \in What : HasLocal(u, w) => local'[SessionOf(u)][w] = local[SessionOf(u)][w],
         Excludes => \A w \in What : HasFile(u, w) => file'[w] = file[w]
  PROVE  Placed(u)' /\ LocalOf(u)' /\ FileOf(u)'
<1>1. Placed(u)'
  BY DEF Held, Placed
<1>2. \A w \in What : HasLocal(u, w)' => HasLocal(u, w)
  BY DEF HasLocal, Nested
<1>3. \A w \in What : HasFile(u, w)' => HasFile(u, w)
  BY DEF HasFile, Nested
<1>4. Excludes' <=> Excludes
  BY DEF Excludes
<1>5. LocalOf(u)'
  BY <1>2 DEF Held, LocalOf, SessionOf
<1>6. FileOf(u)'
  BY <1>3, <1>4 DEF Held, FileOf
<1> QED
  BY <1>1, <1>5, <1>6

\* A step of one thread that leaves the locks, its flow and its goal alone and
\* stays among the stages where its turn is held.
LEMMA InsideStep ==
  ASSUME TypeOK, Held, NEW t \in Thread, NEW stage \in Stages,
         pc' = [pc EXCEPT ![t] = stage], flow' = flow, goal' = goal,
         local' = local, file' = file,
         pc[t] \notin Free \cup {"Open", "Unlock"}, Placed(t)'
  PROVE  Held'
<1>1. \A u \in Thread : u # t => Placed(u)' /\ LocalOf(u)' /\ FileOf(u)'
  <2> TAKE u \in Thread
  <2> HAVE u # t
  <2>1. pc'[u] = pc[u]
    BY DEF TypeOK
  <2> QED
    BY <2>1, OthersKeep
<1>2. \A w \in What : HasLocal(t, w)' => HasLocal(t, w)
  BY DEF HasLocal, Nested, Free
<1>3. \A w \in What : HasFile(t, w)' => HasFile(t, w)
  BY DEF HasFile, Nested, Free
<1>4. LocalOf(t)'
  BY <1>2 DEF Held, LocalOf
<1>5. FileOf(t)'
  BY <1>3 DEF Held, FileOf, Excludes
<1> QED
  BY <1>1, <1>4, <1>5 DEF Held

LEMMA HeldWake ==
  ASSUME TypeOK, Held, NEW t \in Thread, WakeStep(t)
  PROVE  Held'
<1>1. CASE Decide(t) /\ goal' # goal
  <2>1. /\ pc[t] = "Decide" /\ goal[t] = "TheClient" /\ flow[t] \in Wakes
        /\ pc' = [pc EXCEPT ![t] = "Queue"] /\ goal' = [goal EXCEPT ![t] = "TheAccountList"]
        /\ flow' = flow /\ local' = local /\ file' = file
    BY <1>1 DEF Decide, ToTheList, Goto, locks, Held, Placed, AtTheClient
  <2>2. \A u \in Thread : u # t => Placed(u)' /\ LocalOf(u)' /\ FileOf(u)'
    <3> TAKE u \in Thread
    <3> HAVE u # t
    <3>1. pc'[u] = pc[u] /\ goal'[u] = goal[u]
      BY <2>1 DEF TypeOK
    <3> QED
      BY <2>1, <3>1, OthersKeep
  <2>3. pc'[t] = "Queue" /\ goal'[t] = "TheAccountList"
    BY <2>1 DEF TypeOK
  <2>4. Placed(t)'
    BY <2>3 DEF Placed, AtTheClient, AtTheList
  <2>5. LocalOf(t)'
    BY <2>1, <2>3 DEF Held, LocalOf, HasLocal, Nested, Free, SessionOf
  <2>6. FileOf(t)'
    BY <2>1, <2>3 DEF Held, FileOf, HasFile, Nested, Free, Excludes
  <2> QED
    BY <2>2, <2>4, <2>5, <2>6 DEF Held
<1>2. CASE ~(Decide(t) /\ goal' # goal)
  <2>1. /\ flow' = flow /\ goal' = goal /\ local' = local /\ file' = file
        /\ pc[t] \in AtTheClient \cup {"Drive"}
    BY <1>2 DEF WakeStep, Decide, ToTheList, Act, Expose, WriteLease, WriteNote, Start, Watch, Withdraw,
           Unlease, Unmark, Drive, locks, AtTheClient
  <2>2. \E stage \in Stages :
          /\ pc' = [pc EXCEPT ![t] = stage]
          /\ stage \notin AtTheList \cup {"Look", "Try", "Drive", "Queue", "Open", "Decide"}
          /\ stage \in AtTheClient => pc[t] \in AtTheClient
    <3>1. Decide(t) => pc' = [pc EXCEPT ![t] = "Drop"] \/ pc' = [pc EXCEPT ![t] = "Act"]
      BY <1>2, <2>1 DEF Decide, ToTheList, Goto, Held, Placed, TypeOK, AtTheClient
    <3>2. Act(t) \/ Expose(t) =>
            \E stage \in {"Expose", "Start", "Drop", "Lease"} : pc[t] # "Drive" /\ pc' = [pc EXCEPT ![t] = stage]
      BY DEF Act, Expose, Goto
    <3>3. WriteLease(t) \/ WriteNote(t) \/ Start(t) =>
            \E stage \in {"Note", "Start", "Watch", "Withdraw", "Drop"} : pc[t] # "Drive" /\ pc' = [pc EXCEPT ![t] = stage]
      BY DEF WriteLease, WriteNote, Start, Goto
    <3>4. Watch(t) \/ Withdraw(t) \/ Unlease(t) \/ Unmark(t) =>
            \E stage \in {"Withdraw", "Unlease", "Unmark", "Drop"} : pc[t] # "Drive" /\ pc' = [pc EXCEPT ![t] = stage]
      BY DEF Watch, Withdraw, Unlease, Unmark, Goto
    <3>5. Drive(t) => pc' = [pc EXCEPT ![t] = "Drop"]
      BY DEF Drive, Goto
    <3>6. CASE Decide(t)
      BY <3>1, <3>6, <2>1 DEF AtTheClient, AtTheList, Decide
    <3>7. CASE Drive(t)
      BY <3>5, <3>7 DEF AtTheClient, AtTheList
    <3>8. CASE ~Decide(t) /\ ~Drive(t)
      BY <3>2, <3>3, <3>4, <3>8, <2>1 DEF WakeStep, AtTheClient, AtTheList
    <3> QED
      BY <3>6, <3>7, <3>8
  <2>3. PICK stage \in Stages :
          /\ pc' = [pc EXCEPT ![t] = stage]
          /\ stage \notin AtTheList \cup {"Look", "Try", "Drive", "Queue", "Open", "Decide"}
          /\ stage \in AtTheClient => pc[t] \in AtTheClient
    BY <2>2
  <2>4. pc'[t] = stage
    BY <2>3 DEF TypeOK
  <2>5. Placed(t)'
    BY <2>1, <2>3, <2>4 DEF Held, Placed
  <2>6. pc[t] \notin Free \cup {"Open", "Unlock"}
    BY <2>1 DEF Free, AtTheClient
  <2> QED
    BY <2>1, <2>3, <2>5, <2>6, InsideStep
<1> QED
  BY <1>1, <1>2

LEMMA HeldEdit ==
  ASSUME TypeOK, Held, NEW t \in Thread, EditStep(t)
  PROVE  Held'
<1>1. /\ flow' = flow /\ goal' = goal /\ local' = local /\ file' = file
      /\ pc[t] \in AtTheList
  BY DEF EditStep, ReadList, ForgetClaim, WriteList, Claim, locks, AtTheList
<1>2. \E stage \in AtTheList \cup {"Drop"} : pc' = [pc EXCEPT ![t] = stage]
  BY DEF EditStep, ReadList, ForgetClaim, WriteList, Claim, Goto, AtTheList
<1>3. PICK stage \in AtTheList \cup {"Drop"} : pc' = [pc EXCEPT ![t] = stage]
  BY <1>2
<1>4. pc'[t] = stage /\ stage \in Stages
  BY <1>3 DEF TypeOK, AtTheList
<1>5. Placed(t)'
  BY <1>1, <1>4 DEF Held, Placed, AtTheList, AtTheClient
<1>6. pc[t] \notin Free \cup {"Open", "Unlock"}
  BY <1>1 DEF Free, AtTheList
<1> QED
  BY <1>1, <1>3, <1>4, <1>5, <1>6, InsideStep

LEMMA HeldTidy ==
  ASSUME TypeOK, Held, NEW t \in Thread, TidyStep(t)
  PROVE  Held'
<1>1. CASE Judge(t) \/ TakeBack(t) \/ Unnote(t) \/ Forgotten(t)
  <2>1. /\ flow' = flow /\ goal' = goal /\ local' = local /\ file' = file
        /\ pc[t] \in {"Judge", "Take", "Unnote", "Forgotten"}
    BY <1>1 DEF Judge, TakeBack, Unnote, Forgotten, locks
  <2>2. \E stage \in {"Drop", "Take", "Unnote", "Forgotten"} : pc' = [pc EXCEPT ![t] = stage]
    BY <1>1 DEF Judge, TakeBack, Unnote, Forgotten, Goto
  <2>3. PICK stage \in {"Drop", "Take", "Unnote", "Forgotten"} : pc' = [pc EXCEPT ![t] = stage]
    BY <2>2
  <2>4. pc'[t] = stage
    BY <2>3 DEF TypeOK
  <2>5. Placed(t)'
    BY <2>1, <2>4 DEF Held, Placed, AtTheList, AtTheClient
  <2>6. pc[t] \notin Free \cup {"Open", "Unlock"}
    BY <2>1 DEF Free
  <2> QED
    BY <2>1, <2>3, <2>5, <2>6, InsideStep
<1>2. CASE Look(t) \/ (Try(t) /\ local' = local /\ file' = file /\ pc'[t] # "Judge")
  <2>1. /\ flow' = flow /\ goal' = goal /\ local' = local /\ file' = file
        /\ pc'[t] \in {"Try", "idle"} /\ goal[t] = "TheClient"
        /\ \A u \in Thread : u # t => pc'[u] = pc[u]
    BY <1>2 DEF Look, Try, Goto, locks, TypeOK, Held, Placed
  <2>2. \A u \in Thread : u # t => Placed(u)' /\ LocalOf(u)' /\ FileOf(u)'
    BY <2>1, OthersKeep
  <2>3. Placed(t)' /\ LocalOf(t)' /\ FileOf(t)'
    BY <2>1 DEF Placed, LocalOf, FileOf, HasLocal, HasFile, Nested, Free, AtTheClient, AtTheList
  <2> QED
    BY <2>2, <2>3 DEF Held
<1>3. CASE Try(t) /\ ~(local' = local /\ file' = file /\ pc'[t] # "Judge")
  <2>1. /\ pc[t] = "Try" /\ goal[t] = "TheClient"
        /\ local[SessionOf(t)]["TheClient"] = None /\ file["TheClient"] = None
        /\ local' = [local EXCEPT ![SessionOf(t)]["TheClient"] = t[2]]
        /\ file' = IF Excludes THEN [file EXCEPT !["TheClient"] = t] ELSE file
        /\ pc' = [pc EXCEPT ![t] = "Judge"] /\ flow' = flow /\ goal' = goal
    BY <1>3 DEF Try, Goto, locks, TypeOK, Held, Placed
  <2>2. \A u \in Thread : u # t => Placed(u)' /\ LocalOf(u)' /\ FileOf(u)'
    <3> TAKE u \in Thread
    <3> HAVE u # t
    <3>1. pc'[u] = pc[u] /\ u[2] # None /\ u # None
      BY <2>1, NoneAssumption, ThreadParts DEF TypeOK
    <3>2. \A w \in What : HasLocal(u, w) => local'[SessionOf(u)][w] = local[SessionOf(u)][w]
      BY <2>1, <3>1, ThreadParts DEF Held, LocalOf, TypeOK, SessionOf
    <3>3. Excludes => \A w \in What : HasFile(u, w) => file'[w] = file[w]
      BY <2>1, <3>1 DEF Held, FileOf, TypeOK
    <3> QED
      BY <2>1, <3>1, <3>2, <3>3, OthersKeep
  <2>3. pc'[t] = "Judge" /\ goal'[t] = "TheClient" /\ local'[SessionOf(t)]["TheClient"] = t[2]
    BY <2>1, ThreadParts DEF TypeOK, SessionOf
  <2>4. Excludes => file'["TheClient"] = t
    BY <2>1 DEF TypeOK
  <2>5. Placed(t)' /\ LocalOf(t)' /\ FileOf(t)'
    BY <2>3, <2>4 DEF Placed, LocalOf, FileOf, HasLocal, HasFile, Nested, Free, AtTheClient, AtTheList,
       Excludes, SessionOf
  <2> QED
    BY <2>2, <2>5 DEF Held
<1> QED
  BY <1>1, <1>2, <1>3 DEF TidyStep

LEMMA HeldAsk ==
  ASSUME TypeOK, Held, NEW t \in Thread, Ask(t)
  PROVE  Held'
<1>1. PICK f \in Asks :
        /\ flow' = [flow EXCEPT ![t] = f]
        /\ goal' = [goal EXCEPT ![t] = IF f = "tidy" THEN "TheClient" ELSE FirstTurn(f)]
        /\ pc' = [pc EXCEPT ![t] = IF f = "tidy" THEN "Look" ELSE "Queue"]
  BY DEF Ask, Goto
<1>2. local' = local /\ file' = file
  BY DEF Ask, locks
<1>3. \A u \in Thread : u # t => Placed(u)' /\ LocalOf(u)' /\ FileOf(u)'
  <2> TAKE u \in Thread
  <2> HAVE u # t
  <2>1. pc'[u] = pc[u] /\ flow'[u] = flow[u] /\ goal'[u] = goal[u]
    BY <1>1 DEF TypeOK
  <2> QED
    BY <2>1, <1>2, OthersKeep
<1>4. /\ pc'[t] \in {"Look", "Queue"} /\ flow'[t] = f /\ f \in Flows
      /\ goal'[t] = IF f = "tidy" THEN "TheClient" ELSE FirstTurn(f)
      /\ pc'[t] = "Look" <=> f = "tidy"
  BY <1>1, AsksAssumption DEF TypeOK
<1>5. ~(flow'[t] \in Wakes /\ goal'[t] = "TheAccountList")
  BY <1>4 DEF FirstTurn
<1>6. Placed(t)'
  BY <1>4 DEF Placed, AtTheClient, AtTheList, FirstTurn
<1>7. LocalOf(t)' /\ FileOf(t)'
  BY <1>4, <1>5 DEF LocalOf, FileOf, HasLocal, HasFile, Nested, Free
<1> QED
  BY <1>3, <1>6, <1>7 DEF Held

LEMMA HeldTake ==
  ASSUME TypeOK, Held, NEW t \in Thread, TakeLocal(t) \/ TakeFile(t)
  PROVE  Held'
<1>1. CASE TakeLocal(t)
  <2>1. /\ pc[t] = "Queue" /\ local[SessionOf(t)][goal[t]] = None
        /\ local' = [local EXCEPT ![SessionOf(t)][goal[t]] = t[2]]
        /\ pc' = [pc EXCEPT ![t] = "Open"] /\ flow' = flow /\ goal' = goal /\ file' = file
    BY <1>1 DEF TakeLocal, Goto
  <2>2. \A u \in Thread : u # t => Placed(u)' /\ LocalOf(u)' /\ FileOf(u)'
    <3> TAKE u \in Thread
    <3> HAVE u # t
    <3>1. pc'[u] = pc[u] /\ u[2] # None
      BY <2>1, NoneAssumption, ThreadParts DEF TypeOK
    <3>2. \A w \in What : HasLocal(u, w) => local'[SessionOf(u)][w] = local[SessionOf(u)][w]
      BY <2>1, <3>1, ThreadParts DEF Held, LocalOf, TypeOK, SessionOf
    <3> QED
      BY <2>1, <3>1, <3>2, OthersKeep
  <2>3. pc'[t] = "Open" /\ local'[SessionOf(t)][goal[t]] = t[2]
    BY <2>1, ThreadParts DEF TypeOK, SessionOf
  <2>4. \A w \in What : w # goal[t] => local'[SessionOf(t)][w] = local[SessionOf(t)][w]
    BY <2>1, ThreadParts DEF TypeOK, SessionOf
  <2>5. Placed(t)'
    BY <2>1, <2>3 DEF Held, Placed, AtTheClient, AtTheList
  <2>6. LocalOf(t)'
    BY <2>1, <2>3, <2>4 DEF Held, LocalOf, HasLocal, Nested, SessionOf
  <2>7. FileOf(t)'
    BY <2>1, <2>3 DEF Held, FileOf, HasFile, Nested, Excludes
  <2> QED
    BY <2>2, <2>5, <2>6, <2>7 DEF Held
<1>2. CASE TakeFile(t)
  <2>1. /\ pc[t] = "Open" /\ local' = local /\ flow' = flow /\ goal' = goal
        /\ pc' = [pc EXCEPT ![t] = Having(goal[t])]
        /\ Excludes => file[goal[t]] = None /\ file' = [file EXCEPT ![goal[t]] = t]
    BY <1>2 DEF TakeFile, Goto
  <2>2. \A u \in Thread : u # t => Placed(u)' /\ LocalOf(u)' /\ FileOf(u)'
    <3> TAKE u \in Thread
    <3> HAVE u # t
    <3>1. pc'[u] = pc[u] /\ u # None
      BY <2>1, NoneAssumption DEF TypeOK
    <3>2. Excludes => \A w \in What : HasFile(u, w) => file'[w] = file[w]
      BY <2>1, <3>1 DEF Held, FileOf, TypeOK
    <3> QED
      BY <2>1, <3>1, <3>2, OthersKeep
  <2>3. pc'[t] = Having(goal[t]) /\ goal[t] \in What /\ goal'[t] = goal[t] /\ flow'[t] = flow[t]
    BY <2>1 DEF TypeOK
  <2>4. Excludes => file'[goal[t]] = t /\ \A w \in What : w # goal[t] => file'[w] = file[w]
    BY <2>1 DEF TypeOK
  <2>5. pc'[t] = "Decide" => flow[t] \in Wakes
    \* only a wake queues for the client
    BY <2>1, <2>3 DEF Having, Held, Placed
  <2>6. Placed(t)'
    BY <2>3, <2>5 DEF Having, Placed, AtTheClient, AtTheList
  <2>7. LocalOf(t)'
    BY <2>1, <2>3 DEF Held, LocalOf, HasLocal, Nested, Free, SessionOf
  <2>8. FileOf(t)'
    BY <2>1, <2>3, <2>4 DEF Held, FileOf, HasFile, Nested, Free, Excludes
  <2> QED
    BY <2>2, <2>6, <2>7, <2>8 DEF Held
<1> QED
  BY <1>1, <1>2

LEMMA HeldDrop ==
  ASSUME TypeOK, Held, NEW t \in Thread, DropFile(t) \/ DropLocal(t)
  PROVE  Held'
<1>1. CASE DropFile(t)
  <2>1. /\ pc[t] = "Drop" /\ local' = local /\ flow' = flow /\ goal' = goal
        /\ pc' = [pc EXCEPT ![t] = "Unlock"]
        /\ file' = IF file[goal[t]] = t THEN [file EXCEPT ![goal[t]] = None] ELSE file
    BY <1>1 DEF DropFile, Goto
  <2>2. \A u \in Thread : u # t => Placed(u)' /\ LocalOf(u)' /\ FileOf(u)'
    <3> TAKE u \in Thread
    <3> HAVE u # t
    <3>1. pc'[u] = pc[u]
      BY <2>1 DEF TypeOK
    <3>2. Excludes => \A w \in What : HasFile(u, w) => file'[w] = file[w]
      BY <2>1 DEF Held, FileOf, TypeOK
    <3> QED
      BY <2>1, <3>1, <3>2, OthersKeep
  <2>3. pc'[t] = "Unlock"
    BY <2>1 DEF TypeOK
  <2>4. \A w \in What : w # goal[t] => file'[w] = file[w]
    BY <2>1 DEF TypeOK
  <2>5. Placed(t)'
    BY <2>3 DEF Placed, AtTheClient, AtTheList
  <2>6. LocalOf(t)'
    BY <2>1, <2>3 DEF Held, LocalOf, HasLocal, Nested, Free, SessionOf
  <2>7. FileOf(t)'
    BY <2>1, <2>3, <2>4 DEF Held, FileOf, HasFile, Nested, Free, Excludes
  <2> QED
    BY <2>2, <2>5, <2>6, <2>7 DEF Held
<1>2. CASE DropLocal(t)
  <2>1. /\ pc[t] = "Unlock" /\ flow' = flow /\ file' = file
        /\ local' = [local EXCEPT ![SessionOf(t)][goal[t]] = None]
        /\ IF flow[t] \in Wakes /\ goal[t] = "TheAccountList"
           THEN goal' = [goal EXCEPT ![t] = "TheClient"] /\ pc' = [pc EXCEPT ![t] = "Act"]
           ELSE goal' = goal /\ pc' = [pc EXCEPT ![t] = "idle"]
    BY <1>2 DEF DropLocal, Goto
  <2>2. \A u \in Thread : u # t => Placed(u)' /\ LocalOf(u)' /\ FileOf(u)'
    <3> TAKE u \in Thread
    <3> HAVE u # t
    <3>1. pc'[u] = pc[u] /\ goal'[u] = goal[u]
      BY <2>1 DEF TypeOK
    <3>2. HasLocal(t, goal[t])
      BY <2>1 DEF HasLocal, Free
    <3>3. local[SessionOf(t)][goal[t]] = t[2]
      BY <3>2 DEF Held, LocalOf, TypeOK
    <3>4. \A w \in What : HasLocal(u, w) => local'[SessionOf(u)][w] = local[SessionOf(u)][w]
      BY <2>1, <3>3, ThreadParts DEF Held, LocalOf, TypeOK, SessionOf
    <3> QED
      BY <2>1, <3>1, <3>4, OthersKeep
  <2>3. CASE flow[t] \in Wakes /\ goal[t] = "TheAccountList"
    <3>1. pc'[t] = "Act" /\ goal'[t] = "TheClient"
      BY <2>1, <2>3 DEF TypeOK
    <3>2. Nested(t, "TheClient")
      BY <2>1, <2>3 DEF Nested
    <3>3. local'[SessionOf(t)]["TheClient"] = t[2]
      BY <2>1, <2>3, <3>2, ThreadParts DEF Held, LocalOf, HasLocal, TypeOK, SessionOf
    <3>4. Placed(t)'
      BY <3>1 DEF Placed, AtTheClient, AtTheList
    <3>5. LocalOf(t)'
      BY <3>1, <3>3 DEF LocalOf, HasLocal, Nested, SessionOf
    <3>6. FileOf(t)'
      BY <2>1, <3>1, <3>2 DEF Held, FileOf, HasFile, Nested, Excludes
    <3> QED
      BY <2>2, <3>4, <3>5, <3>6 DEF Held
  <2>4. CASE ~(flow[t] \in Wakes /\ goal[t] = "TheAccountList")
    <3>1. pc'[t] = "idle"
      BY <2>1, <2>4 DEF TypeOK
    <3>2. Placed(t)' /\ LocalOf(t)' /\ FileOf(t)'
      BY <3>1 DEF Placed, LocalOf, FileOf, HasLocal, HasFile, Nested, Free, AtTheClient, AtTheList
    <3> QED
      BY <2>2, <3>2 DEF Held
  <2> QED
    BY <2>3, <2>4
<1> QED
  BY <1>1, <1>2

LEMMA HeldKill ==
  ASSUME TypeOK, Held, NEW s \in Sessions, Kill(s)
  PROVE  Held'
<1>1. /\ pc' = [t \in Thread |-> IF SessionOf(t) # s THEN pc[t]
                                ELSE IF t[2] = First THEN "Look" ELSE "idle"]
      /\ flow' = [flow EXCEPT ![<<s, First>>] = "tidy"]
      /\ goal' = [goal EXCEPT ![<<s, First>>] = "TheClient"]
      /\ local' = [local EXCEPT ![s] = [w \in What |-> None]]
      /\ file' = [w \in What |-> IF file[w] # None /\ SessionOf(file[w]) = s THEN None ELSE file[w]]
  BY DEF Kill
<1>2. ASSUME NEW u \in Thread, SessionOf(u) # s PROVE Placed(u)' /\ LocalOf(u)' /\ FileOf(u)'
  <2>1. pc'[u] = pc[u] /\ flow'[u] = flow[u] /\ goal'[u] = goal[u]
    BY <1>1, <1>2, ThreadParts DEF TypeOK, SessionOf
  <2>2. \A w \in What : local'[SessionOf(u)][w] = local[SessionOf(u)][w]
    BY <1>1, <1>2, ThreadParts DEF TypeOK, SessionOf
  <2>3. Excludes => \A w \in What : HasFile(u, w) => file'[w] = file[w]
    BY <1>1, <1>2 DEF Held, FileOf
  <2> QED
    BY <2>1, <2>2, <2>3, OthersKeep
<1>3. ASSUME NEW u \in Thread, SessionOf(u) = s PROVE Placed(u)' /\ LocalOf(u)' /\ FileOf(u)'
  <2>1. pc'[u] = IF u[2] = First THEN "Look" ELSE "idle"
    BY <1>1, <1>3
  <2>2. u[2] = First => flow'[u] = "tidy" /\ goal'[u] = "TheClient"
    BY <1>1, <1>3, ThreadParts DEF TypeOK, SessionOf
  <2> QED
    BY <2>1, <2>2 DEF Placed, LocalOf, FileOf, HasLocal, HasFile, Nested, Free, AtTheClient, AtTheList
<1> QED
  BY <1>2, <1>3 DEF Held

LEMMA HeldSurroundings ==
  ASSUME TypeOK, Held,
         ClientReads \/ ClientExits \/ Touch \/ Raise \/ Shut \/ Choose \/ Rest \/ UNCHANGED vars
  PROVE  Held'
<1>1. pc' = pc /\ flow' = flow /\ goal' = goal /\ local' = local /\ file' = file
  BY DEF ClientReads, ClientExits, Touch, Raise, Shut, Choose, Rest, vars, locks
<1> QED
  BY <1>1, OthersKeep DEF Held

LEMMA HeldStep == TypeOK /\ Held /\ [Next]_vars => Held'
BY HeldAsk, HeldTake, HeldDrop, HeldWake, HeldEdit, HeldTidy, HeldKill, HeldSurroundings DEF Next, Runs

\* The inductive invariant, and what follows from it: a turn at the client, the
\* wizard or the account list is never held by two, by two threads of a process
\* not even where file locks are worth nothing.
THEOREM TurnsExclude == Spec => []Exclusion
<1>1. Init => TypeOK /\ Held
  BY TypeInit, HeldInit
<1>2. TypeOK /\ Held /\ [Next]_vars => (TypeOK /\ Held)'
  BY TypeStep, HeldStep
<1>3. TypeOK /\ Held => Exclusion
  BY HeldExcludes
<1> QED
  BY <1>1, <1>2, <1>3, PTL DEF Spec

---------------------------------------------------------------------------
(* The marker and the account list, where file locks exclude and no person   *)
(* or client touches the files between                                       *)

\* A wake that has not come to its marker yet.
Early(t) ==
  /\ flow[t] \in Wakes
  /\ pc[t] \in {"Queue", "Open", "Decide", "Act", "Expose"} \/ (goal[t] = "TheAccountList" /\ pc[t] # "idle")

Promise(t) ==
  /\ Early(t) => exposed[t] = "no"
  /\ pc[t] \in {"Lease", "Note", "Unlease", "Unmark"} => exposed[t] = "made"
  /\ pc[t] \in Behind => /\ exposed[t] = "made" => marker = MadeBy(t)
                         /\ exposed[t] = "found" => marker # None
  /\ pc[t] \in {"Forget", "Write"} => copy[t] = list

Promises == ~panel /\ \A t \in Thread : Promise(t)

LEMMA PromisesInit == ASSUME Init PROVE Promises
BY DEF Init, Promises, Promise, Early, Behind

LEMMA PromiseOfOthers ==
  ASSUME TypeOK, Promises, NEW u \in Thread,
         pc'[u] = pc[u], flow'[u] = flow[u], goal'[u] = goal[u], exposed'[u] = exposed[u],
         copy'[u] = copy[u], life'[SessionOf(u)] = life[SessionOf(u)],
         pc[u] \in Behind /\ exposed[u] # "no" => marker' = marker,
         pc[u] \in {"Forget", "Write"} => list' = list
  PROVE  Promise(u)'
BY DEF Promises, Promise, Early, Behind, MadeBy, SessionOf

\* With exclusion, who is at the client or at the list is there alone.
LEMMA AloneAtTheClient ==
  ASSUME Excludes, Exclusion, NEW t \in Thread, NEW u \in Thread, t # u, pc[t] \in AtTheClient
  PROVE  pc[u] \notin AtTheClient
BY DEF Exclusion, Inside

LEMMA AloneAtTheList ==
  ASSUME Excludes, Exclusion, NEW t \in Thread, NEW u \in Thread, t # u, pc[t] \in AtTheList
  PROVE  pc[u] \notin AtTheList
BY DEF Exclusion, Inside

LEMMA PromisesTurns ==
  ASSUME TypeOK, Promises, NEW t \in Thread,
         Ask(t) \/ TakeLocal(t) \/ TakeFile(t) \/ DropFile(t) \/ DropLocal(t), Held
  PROVE  Promises'
<1>1. /\ marker' = marker /\ list' = list /\ life' = life /\ copy' = copy /\ panel' = panel
      /\ \A u \in Thread : u # t => /\ pc'[u] = pc[u] /\ flow'[u] = flow[u]
                                   /\ goal'[u] = goal[u] /\ exposed'[u] = exposed[u]
  BY DEF Ask, TakeLocal, TakeFile, DropFile, DropLocal, Goto, TypeOK, disk, account
<1>2. \A u \in Thread : u # t => Promise(u)'
  BY <1>1, PromiseOfOthers
<1>3. CASE Ask(t)
  <2>1. exposed'[t] = "no" /\ pc'[t] \in {"Look", "Queue"}
    BY <1>3 DEF Ask, Goto, TypeOK
  <2> QED
    BY <2>1, <1>1, <1>2 DEF Promises, Promise, Behind
<1>4. CASE TakeLocal(t)
  <2>1. pc[t] = "Queue" /\ pc'[t] = "Open" /\ flow' = flow /\ goal' = goal /\ exposed' = exposed
    BY <1>4 DEF TakeLocal, Goto, TypeOK
  <2>2. Promise(t)'
    BY <2>1 DEF Promises, Promise, Behind, Early
  <2> QED
    BY <2>2, <1>1, <1>2 DEF Promises
<1>5. CASE TakeFile(t)
  <2>1. /\ pc[t] = "Open" /\ pc'[t] = Having(goal[t]) /\ flow' = flow /\ goal' = goal
        /\ exposed' = exposed /\ goal[t] \in What
    BY <1>5 DEF TakeFile, Goto, TypeOK
  <2>2. pc'[t] \in {"Decide", "Drive", "Read"}
    BY <2>1 DEF Having
  <2>3. Promise(t)'
    BY <2>1, <2>2 DEF Promises, Promise, Behind, Early
  <2> QED
    BY <2>3, <1>1, <1>2 DEF Promises
<1>6. CASE DropFile(t)
  <2>1. pc[t] = "Drop" /\ pc'[t] = "Unlock" /\ flow' = flow /\ goal' = goal /\ exposed' = exposed
    BY <1>6 DEF DropFile, Goto, TypeOK
  <2>2. Promise(t)'
    BY <2>1 DEF Promises, Promise, Behind, Early
  <2> QED
    BY <2>2, <1>1, <1>2 DEF Promises
<1>7. CASE DropLocal(t)
  <2>1. /\ pc[t] = "Unlock" /\ flow' = flow /\ exposed' = exposed
        /\ \/ pc'[t] = "Act" /\ flow[t] \in Wakes /\ goal[t] = "TheAccountList"
           \/ pc'[t] = "idle"
    BY <1>7 DEF DropLocal, Goto, TypeOK
  <2>2. Promise(t)'
    BY <2>1 DEF Promises, Promise, Behind, Early
  <2> QED
    BY <2>2, <1>1, <1>2 DEF Promises
<1> QED
  BY <1>3, <1>4, <1>5, <1>6, <1>7

LEMMA PromisesWake ==
  ASSUME TypeOK, Promises, Held, Excludes, NEW t \in Thread, WakeStep(t)
  PROVE  Promises'
<1>1. Exclusion
  BY HeldExcludes
<1>2. /\ list' = list /\ life' = life /\ copy' = copy /\ panel' = panel /\ flow' = flow
      /\ \A u \in Thread : u # t => /\ pc'[u] = pc[u] /\ goal'[u] = goal[u]
                                   /\ exposed'[u] = exposed[u]
  BY DEF WakeStep, Decide, ToTheList, Act, Expose, WriteLease, WriteNote, Start, Watch, Withdraw,
         Unlease, Unmark, Drive, Goto, TypeOK, disk, account
<1>3. ASSUME NEW u \in Thread, u # t PROVE Promise(u)'
  <2>1. marker' = marker \/ pc[t] \in AtTheClient
    BY DEF WakeStep, Decide, Act, Expose, WriteLease, WriteNote, Start, Watch, Withdraw,
           Unlease, Unmark, Drive, disk, AtTheClient
  <2>2. pc[u] \in Behind => marker' = marker
    BY <2>1, <1>1, <1>3, AloneAtTheClient DEF Behind, AtTheClient
  <2> QED
    BY <1>2, <1>3, <2>2, PromiseOfOthers
<1>4. CASE Decide(t) \/ Act(t)
  <2>1. /\ exposed' = exposed /\ marker' = marker /\ pc[t] \in {"Decide", "Act"}
        /\ pc'[t] \in {"Queue", "Drop", "Act", "Expose", "Start"} /\ goal'[t] \in What
    BY <1>4 DEF Decide, Act, ToTheList, Goto, TypeOK, disk
  <2>2. pc'[t] = "Start" => flow[t] \in Wakes
    BY <1>4 DEF Decide, Act, ToTheList, Goto, TypeOK
  <2>3. (Early(t) \/ flow[t] \notin Wakes) /\ (Early(t) => exposed[t] = "no")
    BY <2>1 DEF Early, Promises, Promise
  <2>4. Promise(t)'
    BY <1>2, <2>1, <2>2, <2>3 DEF Promise, Behind, Early
  <2> QED
    BY <1>2, <1>3, <2>4 DEF Promises
<1>5. CASE Expose(t)
  <2>1. /\ pc[t] = "Expose" /\ goal'[t] = goal[t] /\ goal[t] = "TheClient"
        /\ \/ pc'[t] = "Lease" /\ exposed'[t] = "made" /\ marker' = MadeBy(t)
           \/ pc'[t] = "Start" /\ exposed'[t] = "found" /\ marker # None /\ marker' = marker
           \/ pc'[t] = "Drop"
    BY <1>5 DEF Expose, Goto, TypeOK, Held, Placed, AtTheClient
  <2>2. MadeBy(t)' = MadeBy(t)
    BY <1>2 DEF MadeBy, SessionOf
  <2>3. Promise(t)'
    BY <2>1, <2>2, <1>2 DEF Promise, Behind, Early
  <2> QED
    BY <1>2, <1>3, <2>3 DEF Promises
<1>6. CASE WriteLease(t) \/ WriteNote(t) \/ Start(t) \/ Watch(t) \/ Withdraw(t) \/ Unlease(t)
  <2>1. /\ exposed' = exposed /\ marker' = marker /\ pc[t] \in Behind /\ goal' = goal
        /\ pc'[t] \in {"Note", "Start", "Watch", "Withdraw", "Unlease", "Unmark", "Drop"}
        /\ pc'[t] = "Unlease" => exposed[t] = "made"
        /\ pc'[t] = "Note" => pc[t] = "Lease"
        /\ pc'[t] = "Unmark" => pc[t] = "Unlease"
    BY <1>6 DEF WriteLease, WriteNote, Start, Watch, Withdraw, Unlease, Goto, TypeOK, disk, Behind
  <2>2. MadeBy(t)' = MadeBy(t) /\ goal[t] = "TheClient"
    BY <1>2, <2>1 DEF MadeBy, SessionOf, Held, Placed, AtTheClient, Behind
  <2>3. Promise(t)'
    BY <2>1, <2>2, <1>2 DEF Promises, Promise, Behind, Early
  <2> QED
    BY <1>2, <1>3, <2>3 DEF Promises
<1>7. CASE Unmark(t) \/ Drive(t)
  <2>1. pc'[t] = "Drop" /\ goal' = goal /\ goal[t] # "TheAccountList"
    BY <1>7 DEF Unmark, Drive, Goto, TypeOK, Held, Placed, AtTheClient
  <2>2. Promise(t)'
    BY <2>1 DEF Promise, Behind, Early
  <2> QED
    BY <1>2, <1>3, <2>2 DEF Promises
<1> QED
  BY <1>4, <1>5, <1>6, <1>7 DEF WakeStep

LEMMA PromisesEdit ==
  ASSUME TypeOK, Promises, Held, Excludes, NEW t \in Thread, EditStep(t)
  PROVE  Promises'
<1>1. Exclusion
  BY HeldExcludes
<1>2. /\ marker' = marker /\ life' = life /\ panel' = panel /\ flow' = flow /\ goal' = goal
      /\ exposed' = exposed /\ pc[t] \in AtTheList
      /\ \A u \in Thread : u # t => pc'[u] = pc[u] /\ copy'[u] = copy[u]
  BY DEF EditStep, ReadList, ForgetClaim, WriteList, Claim, Goto, TypeOK, disk, AtTheList
<1>3. ASSUME NEW u \in Thread, u # t PROVE Promise(u)'
  <2>1. pc[u] \notin {"Forget", "Write"}
    BY <1>1, <1>2, <1>3, AloneAtTheList DEF AtTheList
  <2> QED
    BY <1>2, <1>3, <2>1, PromiseOfOthers
<1>4. /\ pc'[t] \in {"Forget", "Drop", "Write", "Claim"}
      /\ pc'[t] \in {"Forget", "Write"} => copy'[t] = list'
  <2>1. CASE ReadList(t)
    BY <2>1 DEF ReadList, Goto, TypeOK, account
  <2>2. CASE ForgetClaim(t)
    BY <2>2 DEF ForgetClaim, Goto, TypeOK, Promises, Promise
  <2>3. CASE WriteList(t) \/ Claim(t)
    BY <2>3 DEF WriteList, Claim, Goto, TypeOK
  <2> QED
    BY <2>1, <2>2, <2>3 DEF EditStep
<1>5. Early(t)' => exposed[t] = "no"
  BY <1>2, <1>4 DEF Early, Promises, Promise, Held, Placed, AtTheList
<1>6. Promise(t)'
  BY <1>2, <1>4, <1>5 DEF Promise, Behind
<1> QED
  BY <1>2, <1>3, <1>6 DEF Promises

LEMMA PromisesTidy ==
  ASSUME TypeOK, Promises, Held, Excludes, NEW t \in Thread, TidyStep(t)
  PROVE  Promises'
<1>1. Exclusion
  BY HeldExcludes
<1>2. /\ list' = list /\ life' = life /\ copy' = copy /\ panel' = panel /\ flow' = flow
      /\ goal' = goal /\ exposed' = exposed /\ goal[t] = "TheClient"
      /\ pc'[t] \in {"Try", "idle", "Judge", "Drop", "Take", "Unnote", "Forgotten"}
      /\ \A u \in Thread : u # t => pc'[u] = pc[u]
  BY DEF TidyStep, Look, Try, Judge, TakeBack, Unnote, Forgotten, Goto, TypeOK, disk, account,
         Held, Placed, AtTheClient
<1>3. ASSUME NEW u \in Thread, u # t PROVE Promise(u)'
  <2>1. marker' = marker \/ pc[t] \in AtTheClient
    BY DEF TidyStep, Look, Try, Judge, TakeBack, Unnote, Forgotten, disk, AtTheClient
  <2>2. pc[u] \in Behind => marker' = marker
    BY <2>1, <1>1, <1>3, AloneAtTheClient DEF Behind, AtTheClient
  <2> QED
    BY <1>2, <1>3, <2>2, PromiseOfOthers
<1>4. Promise(t)'
  BY <1>2 DEF Promise, Behind, Early
<1> QED
  BY <1>2, <1>3, <1>4 DEF Promises

LEMMA PromisesKill ==
  ASSUME TypeOK, Promises, NEW s \in Sessions, Kill(s)
  PROVE  Promises'
<1>1. ASSUME NEW u \in Thread, SessionOf(u) # s PROVE Promise(u)'
  <2>1. /\ pc'[u] = pc[u] /\ flow'[u] = flow[u] /\ goal'[u] = goal[u] /\ exposed'[u] = exposed[u]
        /\ life'[SessionOf(u)] = life[SessionOf(u)]
    BY <1>1, ThreadParts DEF Kill, TypeOK, SessionOf
  <2> QED
    BY <2>1, PromiseOfOthers DEF Kill, disk, account
<1>2. ASSUME NEW u \in Thread, SessionOf(u) = s PROVE Promise(u)'
  <2>1. pc'[u] \in {"Look", "idle"} /\ exposed'[u] = "no"
    BY <1>2 DEF Kill
  <2> QED
    BY <2>1 DEF Promise, Behind
<1> QED
  BY <1>1, <1>2 DEF Promises, Kill

LEMMA PromisesSurroundings ==
  ASSUME TypeOK, Promises, ~Hands,
         ClientReads \/ ClientExits \/ Touch \/ Raise \/ Shut \/ Choose \/ Rest \/ UNCHANGED vars
  PROVE  Promises'
<1>1. /\ pc' = pc /\ flow' = flow /\ goal' = goal /\ exposed' = exposed /\ copy' = copy
      /\ life' = life /\ marker' = marker /\ list' = list /\ panel' = panel
  BY DEF ClientReads, ClientExits, Touch, Raise, Shut, Choose, Rest, vars, disk, account, Promises
<1> QED
  BY <1>1, PromiseOfOthers DEF Promises

LEMMA PromisesStep ==
  ASSUME Excludes, ~Hands
  PROVE  TypeOK /\ Held /\ Promises /\ [Next]_vars => Promises'
BY PromisesTurns, PromisesWake, PromisesEdit, PromisesTidy, PromisesKill, PromisesSurroundings
   DEF Next, Runs

LEMMA PromisesHold ==
  ASSUME Excludes, ~Hands
  PROVE  Spec => [](TypeOK /\ Held /\ Promises)
<1>1. Init => TypeOK /\ Held /\ Promises
  BY TypeInit, HeldInit, PromisesInit
<1>2. TypeOK /\ Held /\ Promises /\ [Next]_vars => (TypeOK /\ Held /\ Promises)'
  BY TypeStep, HeldStep, PromisesStep
<1> QED
  BY <1>1, <1>2, PTL DEF Spec

\* Where file locks exclude and only sessions touch the files: a client that was
\* started behind a marker finds one when it reads it.
THEOREM ClientFindsItsMarker ==
  ASSUME Excludes, ~Hands
  PROVE  Spec => []MarkerStays
<1>1. TypeOK /\ Promises => MarkerStays
  <2> SUFFICES ASSUME TypeOK, Promises, NEW t \in Thread, pc[t] = "Watch", exposed[t] # "no"
               PROVE  marker # None
    BY DEF MarkerStays
  <2>1. exposed[t] \in {"made", "found"}
    BY DEF TypeOK
  <2>2. MadeBy(t) # None
    BY MadeByType
  <2> QED
    BY <2>1, <2>2 DEF Promises, Promise, Behind
<1> QED
  BY <1>1, PromisesHold, PTL

\* The ways out of a wake that has a marker: it found it, or has taken it back.
LEMMA LeavesBehindNothing ==
  ASSUME TypeOK, Promises, [Next]_vars, NEW t \in Thread,
         pc[t] \in Behind, pc'[t] = "Drop", exposed[t] = "made"
  PROVE  marker' # MadeBy(t) \/ (flow[t] = "setup" /\ pc[t] = "Start")
<1>1. pc'[t] # pc[t]
  BY DEF Behind
<1>2. \A u \in Thread : \A stage : Goto(u, stage) => pc'[t] = IF t = u THEN stage ELSE pc[t]
  BY DEF Goto, TypeOK
<1>3. ASSUME NEW u \in Thread,
             Ask(u) \/ TakeLocal(u) \/ TakeFile(u) \/ DropFile(u) \/ DropLocal(u) \/ EditStep(u)
      PROVE  FALSE
  BY <1>1, <1>2, <1>3 DEF Ask, TakeLocal, TakeFile, DropFile, DropLocal, EditStep, ReadList,
                          ForgetClaim, WriteList, Claim, Behind
<1>4. ASSUME NEW u \in Thread, TidyStep(u) PROVE FALSE
  BY <1>1, <1>2, <1>4 DEF TidyStep, Look, Try, Judge, TakeBack, Unnote, Forgotten, Behind
<1>5. ASSUME NEW u \in Thread, WakeStep(u)
      PROVE  (Unmark(t) /\ u = t) \/ (flow[t] = "setup" /\ pc[t] = "Start")
  BY <1>1, <1>2, <1>5 DEF WakeStep, Decide, ToTheList, Act, Expose, WriteLease, WriteNote, Start,
                          Watch, Withdraw, Unlease, Unmark, Drive, Behind
<1>6. Unmark(t) => marker' # MadeBy(t)
  BY MadeByType DEF Unmark
<1>7. ASSUME NEW s \in Sessions, Kill(s) PROVE FALSE
  BY <1>1, <1>7 DEF Kill
<1>8. ~(ClientReads \/ ClientExits \/ Touch \/ Raise \/ Shut \/ Choose \/ Rest \/ UNCHANGED vars)
  BY <1>1 DEF ClientReads, ClientExits, Touch, Raise, Shut, Choose, Rest, vars
<1> QED
  BY <1>3, <1>4, <1>5, <1>6, <1>7, <1>8 DEF Next, Runs

\* A wake takes back the marker it made and no other, and does not end before it
\* has, but for a setup whose launcher would not start.
THEOREM WakesTakeBackTheirOwn ==
  ASSUME Excludes, ~Hands
  PROVE  Spec => TakesBackItsOwn
<1>1. TypeOK /\ Promises /\ [Next]_vars =>
        [\A t \in Thread :
           /\ pc[t] = "Unmark" /\ pc'[t] = "Drop" => marker = MadeBy(t)
           /\ pc[t] \in Behind /\ pc'[t] = "Drop" /\ exposed[t] = "made"
              => \/ marker' # MadeBy(t)
                 \/ flow[t] = "setup" /\ pc[t] = "Start"]_vars
  <2>1. Promises => \A t \in Thread : pc[t] = "Unmark" => marker = MadeBy(t)
    BY DEF Promises, Promise, Behind
  <2> QED
    BY <2>1, LeavesBehindNothing
<1> QED
  BY <1>1, PromisesHold, PTL DEF Spec, TakesBackItsOwn

\* Only the writer itself changes the list while it stands before its write.
LEMMA WritesItself ==
  ASSUME TypeOK, NEW t \in Thread, pc[t] = "Write", pc'[t] # "Write", [Next]_vars, list' # list
  PROVE  WriteList(t)
<1>1. CASE \E u \in Thread : Ask(u)
  BY <1>1 DEF Ask, account
<1>2. CASE \E u \in Thread : TakeLocal(u) \/ TakeFile(u) \/ DropFile(u) \/ DropLocal(u)
  BY <1>2 DEF TakeLocal, TakeFile, DropFile, DropLocal, account
<1>3. CASE \E u \in Thread : WakeStep(u)
  BY <1>3 DEF WakeStep, Decide, Act, Expose, WriteLease, WriteNote, Start, Watch, Withdraw,
              Unlease, Unmark, Drive, account
<1>4. CASE \E u \in Thread : EditStep(u)
  <2>1. PICK u \in Thread : EditStep(u)
    BY <1>4
  <2>2. WriteList(u)
    BY <2>1 DEF EditStep, ReadList, ForgetClaim, Claim, account
  <2>3. u = t
    BY <2>2 DEF WriteList, Goto, TypeOK
  <2> QED
    BY <2>2, <2>3
<1>5. CASE \E u \in Thread : TidyStep(u)
  BY <1>5 DEF TidyStep, Look, Try, Judge, TakeBack, Unnote, Forgotten, account
<1>6. CASE \E s \in Sessions : Kill(s)
  BY <1>6 DEF Kill, account
<1>7. CASE ClientReads \/ ClientExits \/ Touch \/ Raise \/ Shut \/ Choose \/ Rest
  BY <1>7 DEF ClientReads, ClientExits, Touch, Raise, Shut, Choose, Rest, vars, account
<1>8. CASE UNCHANGED vars
  BY <1>8 DEF vars
<1> QED
  BY <1>1, <1>2, <1>3, <1>4, <1>5, <1>6, <1>7, <1>8 DEF Next, Runs

LEMMA WritesItsField ==
  ASSUME TypeOK, Promises, NEW t \in Thread, pc[t] = "Write", WriteList(t)
  PROVE  IF flow[t] = "signout" THEN list'.offline = list.offline
                                ELSE list'.remembered = list.remembered
<1>1. copy[t] = list
  BY DEF Promises, Promise
<1>2. list \in [offline : BOOLEAN, remembered : BOOLEAN] /\ list' = Changed(t)
  BY DEF TypeOK, AccountList, WriteList
<1> QED
  BY <1>1, <1>2 DEF Changed

\* With exclusion, no edit of the account list is lost: what a writer puts back
\* differs from what is there in its own field alone.
THEOREM EditsKeepToTheirField ==
  ASSUME Excludes, ~Hands
  PROVE  Spec => EditsItsOwnField
<1>1. TypeOK /\ Promises /\ [Next]_vars =>
        [\A t \in Thread : pc[t] = "Write" /\ pc'[t] # "Write" /\ list' # list
           => IF flow[t] = "signout" THEN list'.offline = list.offline
                                     ELSE list'.remembered = list.remembered]_vars
  BY WritesItself, WritesItsField
<1> QED
  BY <1>1, PromisesHold, PTL DEF Spec, EditsItsOwnField

---------------------------------------------------------------------------
(* The tidying of a session that starts                                    *)

\* The step that takes the marker away finds no client that waits for it.
TidyingSparesWakes ==
  [][\A t, u \in Thread :
       pc[t] = "Take" /\ pc'[t] = "Unnote" /\ marker # None
       => ~(pc[u] = "Watch" /\ exposed[u] # "no" /\ client = "starting")]_vars

\* Where file locks exclude, and whoever else touches the marker meanwhile: a
\* session that tidies up as it starts takes no marker from under a client that
\* another session has started (webui.rs:748).
THEOREM TidyingSpares ==
  ASSUME Excludes
  PROVE  Spec => TidyingSparesWakes
<1>1. ASSUME Exclusion, NEW t \in Thread, NEW u \in Thread, pc[t] = "Take"
      PROVE  pc[u] # "Watch"
  <2>1. t # u => ~(Inside(t, "TheClient") /\ Inside(u, "TheClient"))
    BY <1>1 DEF Exclusion, What
  <2> QED
    BY <1>1, <2>1 DEF Inside, AtTheClient
<1>2. Exclusion /\ [Next]_vars =>
        [\A t, u \in Thread :
           pc[t] = "Take" /\ pc'[t] = "Unnote" /\ marker # None
           => ~(pc[u] = "Watch" /\ exposed[u] # "no" /\ client = "starting")]_vars
  BY <1>1
<1> QED
  BY <1>2, TurnsExclude, PTL DEF Spec, TidyingSparesWakes

---------------------------------------------------------------------------
(* Waiting                                                                 *)

\* A thread that cannot go on until another gives up a turn.
Waits(t) ==
  \/ pc[t] = "Queue" /\ local[SessionOf(t)][goal[t]] # None
  \/ pc[t] = "Open" /\ Excludes /\ file[goal[t]] # None

\* Wherever a thread waits for a turn, some thread is at work and waits for none.
SomebodyGoesOn ==
  (\E t \in Thread : Waits(t)) => \E u \in Thread : pc[u] # "idle" /\ ~Waits(u)

\* The converse of Held: a lock that is taken belongs to a thread that is where
\* it has it, so that none is left behind by one that went on or died.
LocalOwned ==
  \A s \in Sessions, w \in What : local[s][w] # None =>
    \E u \in Thread : SessionOf(u) = s /\ u[2] = local[s][w] /\ HasLocal(u, w)

FileOwned ==
  \A w \in What : file[w] # None => \E u \in Thread : u = file[w] /\ HasFile(u, w)

Owned == LocalOwned /\ FileOwned

\* A step that leaves the locks alone, and what each thread has of them.
LEMMA OwnedKept ==
  ASSUME Owned, local' = local, file' = file,
         \A u \in Thread, w \in What : HasLocal(u, w) => HasLocal(u, w)',
         \A u \in Thread, w \in What : HasFile(u, w) => HasFile(u, w)'
  PROVE  Owned'
BY DEF Owned, LocalOwned, FileOwned, SessionOf

\* A step within a turn keeps it.
LEMMA OwnedInside ==
  ASSUME TypeOK, Owned, NEW t \in Thread, NEW stage \in Stages \ (Free \cup {"Open", "Unlock"}),
         pc' = [pc EXCEPT ![t] = stage], flow' = flow, goal' = goal, local' = local, file' = file
  PROVE  Owned'
<1>1. \A u \in Thread : pc'[u] = IF u = t THEN stage ELSE pc[u]
  BY DEF TypeOK
<1>2. \A u \in Thread, w \in What : HasLocal(u, w) => HasLocal(u, w)'
  BY <1>1 DEF HasLocal, Nested, Free
<1>3. \A u \in Thread, w \in What : HasFile(u, w) => HasFile(u, w)'
  BY <1>1 DEF HasFile, Nested, Free
<1> QED
  BY <1>2, <1>3, OwnedKept

\* A step of a thread that had nothing, and takes nothing.
LEMMA OwnedOutside ==
  ASSUME TypeOK, Owned, NEW t \in Thread, local' = local, file' = file,
         \A u \in Thread : u # t => pc'[u] = pc[u] /\ flow'[u] = flow[u] /\ goal'[u] = goal[u],
         \A w \in What : ~HasLocal(t, w) /\ ~HasFile(t, w)
  PROVE  Owned'
<1>1. \A u \in Thread, w \in What : HasLocal(u, w) => HasLocal(u, w)'
  BY DEF HasLocal, Nested
<1>2. \A u \in Thread, w \in What : HasFile(u, w) => HasFile(u, w)'
  BY DEF HasFile, Nested
<1> QED
  BY <1>1, <1>2, OwnedKept

LEMMA OwnedAskOrLook ==
  ASSUME TypeOK, Held, Owned, NEW t \in Thread,
         Ask(t) \/ Look(t) \/ (Try(t) /\ UNCHANGED locks /\ pc'[t] # "Judge")
  PROVE  Owned'
<1>1. local' = local /\ file' = file
  BY DEF Ask, Look, locks
<1>2. \A u \in Thread : u # t => pc'[u] = pc[u] /\ flow'[u] = flow[u] /\ goal'[u] = goal[u]
  BY DEF Ask, Look, Try, Goto, TypeOK
<1>3. pc[t] = "idle" \/ (pc[t] \in {"Look", "Try"} /\ goal[t] = "TheClient")
  BY DEF Ask, Look, Try, Held, Placed
<1>4. \A w \in What : ~HasLocal(t, w) /\ ~HasFile(t, w)
  BY <1>3 DEF HasLocal, HasFile, Nested, Free
<1> QED
  BY <1>1, <1>2, <1>4, OwnedOutside

LEMMA OwnedTry ==
  ASSUME TypeOK, Held, Owned, NEW t \in Thread, Try(t)
  PROVE  Owned'
<1>1. CASE UNCHANGED locks /\ pc'[t] # "Judge"
  BY <1>1, OwnedAskOrLook
<1>2. CASE ~(UNCHANGED locks /\ pc'[t] # "Judge")
  <2>1. /\ pc[t] = "Try" /\ goal[t] = "TheClient"
        /\ local' = [local EXCEPT ![SessionOf(t)]["TheClient"] = t[2]]
        /\ file' = IF Excludes THEN [file EXCEPT !["TheClient"] = t] ELSE file
        /\ pc' = [pc EXCEPT ![t] = "Judge"] /\ flow' = flow /\ goal' = goal
    BY <1>2 DEF Try, Goto, TypeOK, Held, Placed, locks
  <2>2. /\ \A u \in Thread : pc'[u] = IF u = t THEN "Judge" ELSE pc[u]
        /\ SessionOf(t) \in Sessions
    BY <2>1, ThreadParts DEF TypeOK, SessionOf
  <2>3. /\ \A u \in Thread, w \in What : HasLocal(u, w) => HasLocal(u, w)'
        /\ \A u \in Thread, w \in What : HasFile(u, w) => HasFile(u, w)'
        /\ HasLocal(t, "TheClient")' /\ HasFile(t, "TheClient")'
    BY <2>1, <2>2 DEF HasLocal, HasFile, Nested, Free
  <2>4. LocalOwned'
    <3>1. \A s \in Sessions, w \in What :
            local'[s][w] = IF s = SessionOf(t) /\ w = "TheClient" THEN t[2] ELSE local[s][w]
      BY <2>1, <2>2 DEF TypeOK
    <3> QED
      BY <2>3, <3>1 DEF Owned, LocalOwned, SessionOf
  <2>5. FileOwned'
    <3>1. \A w \in What : file'[w] = IF w = "TheClient" /\ Excludes THEN t ELSE file[w]
      BY <2>1 DEF TypeOK
    <3> QED
      BY <2>3, <3>1 DEF Owned, FileOwned
  <2> QED
    BY <2>4, <2>5 DEF Owned
<1> QED
  BY <1>1, <1>2

LEMMA OwnedTake ==
  ASSUME TypeOK, Held, Owned, NEW t \in Thread, TakeLocal(t) \/ TakeFile(t)
  PROVE  Owned'
<1> DEFINE g == goal[t]
<1>1. PICK stage \in Stages :
        /\ stage \notin Free
        /\ pc' = [pc EXCEPT ![t] = stage]
        /\ TakeFile(t) => stage # "Open" /\ stage # "Unlock"
  <2>1. goal[t] \in What
    BY DEF TypeOK
  <2> QED
    BY <2>1 DEF TakeLocal, TakeFile, Goto, Having, Free
<1>2. /\ \A u \in Thread : pc'[u] = IF u = t THEN stage ELSE pc[u]
      /\ flow' = flow /\ goal' = goal /\ g \in What /\ SessionOf(t) \in Sessions
      /\ pc[t] \in {"Queue", "Open"}
  BY <1>1, ThreadParts DEF TakeLocal, TakeFile, TypeOK, SessionOf
<1>3. PICK w0 \in What : w0 = goal[t]
  BY <1>2
<1>4. \A u \in Thread, w \in What : HasLocal(u, w) => HasLocal(u, w)'
  BY <1>1, <1>2 DEF HasLocal, Nested, Free
<1>5. \A u \in Thread, w \in What : HasFile(u, w) => HasFile(u, w)'
  BY <1>1, <1>2 DEF HasFile, Nested, Free
<1>6. HasLocal(t, w0)'
  BY <1>1, <1>2, <1>3 DEF HasLocal
<1>7. LocalOwned'
  <2>1. \A s \in Sessions, w \in What :
          local'[s][w] = IF TakeLocal(t) /\ s = SessionOf(t) /\ w = w0 THEN t[2] ELSE local[s][w]
    BY <1>2, <1>3 DEF TakeLocal, TakeFile, TypeOK
  <2> QED
    BY <1>4, <1>6, <2>1 DEF Owned, LocalOwned, SessionOf
<1>8. FileOwned'
  <2>1. TakeFile(t) => HasFile(t, w0)'
    BY <1>1, <1>2, <1>3 DEF HasFile
  <2>2. \A w \in What : file'[w] = file[w] \/ (TakeFile(t) /\ w = w0 /\ file'[w] = t)
    BY <1>2, <1>3 DEF TakeLocal, TakeFile, TypeOK
  <2> QED
    BY <1>5, <2>1, <2>2 DEF Owned, FileOwned
<1> QED
  BY <1>7, <1>8 DEF Owned

\* What is dropped is what the thread had, and all that it had there.
LEMMA OwnedDrop ==
  ASSUME TypeOK, Held, Owned, NEW t \in Thread, DropFile(t) \/ DropLocal(t)
  PROVE  Owned'
<1>1. goal[t] \in What /\ SessionOf(t) \in Sessions
  BY ThreadParts DEF TypeOK, SessionOf
<1>2. PICK w0 \in What : w0 = goal[t]
  BY <1>1
<1>3. CASE DropFile(t)
  <2>1. /\ \A u \in Thread : pc'[u] = IF u = t THEN "Unlock" ELSE pc[u]
        /\ flow' = flow /\ goal' = goal /\ local' = local /\ pc[t] = "Drop"
    BY <1>3 DEF DropFile, Goto, TypeOK
  <2>2. \A u \in Thread, w \in What : HasLocal(u, w) => HasLocal(u, w)'
    BY <2>1 DEF HasLocal, Nested, Free
  <2>3. \A u \in Thread, w \in What : HasFile(u, w) /\ ~(u = t /\ w = w0) => HasFile(u, w)'
    BY <2>1, <1>2 DEF HasFile, Nested, Free
  <2>4. \A w \in What : file'[w] # None => file'[w] = file[w] /\ ~(file[w] = t /\ w = w0)
    BY <1>2, <1>3 DEF DropFile, TypeOK
  <2>5. LocalOwned'
    BY <2>1, <2>2 DEF Owned, LocalOwned, SessionOf
  <2>6. FileOwned'
    BY <2>3, <2>4 DEF Owned, FileOwned
  <2> QED
    BY <2>5, <2>6 DEF Owned
<1>4. CASE DropLocal(t)
  <2>1. /\ pc[t] = "Unlock" /\ flow' = flow /\ file' = file
        /\ local' = [local EXCEPT ![SessionOf(t)][w0] = None]
        /\ \A u \in Thread : u # t => pc'[u] = pc[u] /\ goal'[u] = goal[u]
        /\ IF flow[t] \in Wakes /\ w0 = "TheAccountList"
           THEN goal'[t] = "TheClient" /\ pc'[t] = "Act"
           ELSE goal'[t] = w0 /\ pc'[t] = "idle"
    BY <1>2, <1>4 DEF DropLocal, Goto, TypeOK
  <2>2. \A u \in Thread, w \in What : HasLocal(u, w) /\ ~(u = t /\ w = w0) => HasLocal(u, w)'
    BY <2>1, <1>2 DEF HasLocal, Nested, Free
  <2>3. \A u \in Thread, w \in What : HasFile(u, w) => HasFile(u, w)'
    BY <2>1, <1>2 DEF HasFile, Nested, Free
  <2>4. \A s \in Sessions, w \in What :
          local'[s][w] = IF s = SessionOf(t) /\ w = w0 THEN None ELSE local[s][w]
    BY <2>1, <1>1 DEF TypeOK
  <2>5. LocalOwned'
    BY <2>2, <2>4 DEF Owned, LocalOwned, SessionOf
  <2>6. FileOwned'
    BY <2>1, <2>3 DEF Owned, FileOwned
  <2> QED
    BY <2>5, <2>6 DEF Owned
<1> QED
  BY <1>3, <1>4

LEMMA OwnedAtWork ==
  ASSUME TypeOK, Held, Owned, NEW t \in Thread,
         WakeStep(t) \/ EditStep(t) \/ Judge(t) \/ TakeBack(t) \/ Unnote(t) \/ Forgotten(t)
  PROVE  Owned'
<1>1. CASE Decide(t) /\ goal' # goal
  <2>1. /\ pc[t] = "Decide" /\ goal[t] = "TheClient" /\ flow[t] \in Wakes
        /\ pc' = [pc EXCEPT ![t] = "Queue"] /\ goal' = [goal EXCEPT ![t] = "TheAccountList"]
        /\ flow' = flow /\ local' = local /\ file' = file
    BY <1>1 DEF Decide, ToTheList, Goto, locks, Held, Placed, AtTheClient
  <2>2. \A u \in Thread : /\ pc'[u] = IF u = t THEN "Queue" ELSE pc[u]
                          /\ goal'[u] = IF u = t THEN "TheAccountList" ELSE goal[u]
    BY <2>1 DEF TypeOK
  <2>3. \A u \in Thread, w \in What : HasLocal(u, w) => HasLocal(u, w)'
    BY <2>1, <2>2 DEF HasLocal, Nested, Free
  <2>4. \A u \in Thread, w \in What : HasFile(u, w) => HasFile(u, w)'
    BY <2>1, <2>2 DEF HasFile, Nested, Free
  <2> QED
    BY <2>1, <2>3, <2>4, OwnedKept
<1>2. CASE ~(Decide(t) /\ goal' # goal)
  <2>1. flow' = flow /\ goal' = goal /\ local' = local /\ file' = file
    BY <1>2 DEF WakeStep, EditStep, Decide, ToTheList, Act, Expose, WriteLease, WriteNote, Start,
           Watch, Withdraw, Unlease, Unmark, Drive, ReadList, ForgetClaim, WriteList, Claim,
           Judge, TakeBack, Unnote, Forgotten, locks
  <2>2. \E stage \in Stages \ (Free \cup {"Open", "Unlock"}) : pc' = [pc EXCEPT ![t] = stage]
    <3>1. CASE Decide(t)
      BY <1>2, <2>1, <3>1 DEF Decide, ToTheList, Goto, Held, Placed, TypeOK, AtTheClient, Free
    <3>2. CASE Act(t) \/ Expose(t) \/ WriteLease(t) \/ WriteNote(t) \/ Start(t)
      BY <3>2 DEF Act, Expose, WriteLease, WriteNote, Start, Goto, Free
    <3>3. CASE Watch(t) \/ Withdraw(t) \/ Unlease(t) \/ Unmark(t) \/ Drive(t)
      BY <3>3 DEF Watch, Withdraw, Unlease, Unmark, Drive, Goto, Free
    <3>4. CASE EditStep(t)
      BY <3>4 DEF EditStep, ReadList, ForgetClaim, WriteList, Claim, Goto, Free
    <3>5. CASE Judge(t) \/ TakeBack(t) \/ Unnote(t) \/ Forgotten(t)
      BY <3>5 DEF Judge, TakeBack, Unnote, Forgotten, Goto, Free
    <3> QED
      BY <3>1, <3>2, <3>3, <3>4, <3>5 DEF WakeStep
  <2> QED
    BY <2>1, <2>2, OwnedInside
<1> QED
  BY <1>1, <1>2

\* The kernel drops every lock of a process that dies, and no other.
LEMMA OwnedKill ==
  ASSUME TypeOK, Owned, NEW s \in Sessions, Kill(s)
  PROVE  Owned'
<1>1. \A u \in Thread : SessionOf(u) # s =>
        pc'[u] = pc[u] /\ flow'[u] = flow[u] /\ goal'[u] = goal[u]
  BY ThreadParts DEF Kill, TypeOK, SessionOf
<1>2. /\ \A u \in Thread, w \in What : SessionOf(u) # s /\ HasLocal(u, w) => HasLocal(u, w)'
      /\ \A u \in Thread, w \in What : SessionOf(u) # s /\ HasFile(u, w) => HasFile(u, w)'
  BY <1>1 DEF HasLocal, HasFile, Nested
<1>3. \A p \in Sessions, w \in What : local'[p][w] = IF p = s THEN None ELSE local[p][w]
  BY DEF Kill, TypeOK
<1>4. \A w \in What : file'[w] # None => file'[w] = file[w] /\ SessionOf(file[w]) # s
  BY DEF Kill
<1>5. LocalOwned'
  BY <1>2, <1>3 DEF Owned, LocalOwned, SessionOf
<1>6. FileOwned'
  BY <1>2, <1>4 DEF Owned, FileOwned
<1> QED
  BY <1>5, <1>6 DEF Owned

LEMMA OwnedSurroundings ==
  ASSUME Owned,
         ClientReads \/ ClientExits \/ Touch \/ Raise \/ Shut \/ Choose \/ Rest \/ UNCHANGED vars
  PROVE  Owned'
<1>1. pc' = pc /\ flow' = flow /\ goal' = goal /\ local' = local /\ file' = file
  BY DEF ClientReads, ClientExits, Touch, Raise, Shut, Choose, Rest, vars, locks
<1> QED
  BY <1>1, OwnedKept DEF HasLocal, HasFile, Nested

LEMMA OwnedStep == TypeOK /\ Held /\ Owned /\ [Next]_vars => Owned'
BY OwnedAskOrLook, OwnedTry, OwnedTake, OwnedDrop, OwnedAtWork, OwnedKill, OwnedSurroundings
   DEF Next, Runs, TidyStep

\* The order of the waits: the client's or the wizard's mutex, its file, the
\* account list's mutex, its file. Each holder is followed one place further, and
\* nobody who holds the last waits.
LEMMA WaitsEnd ==
  ASSUME TypeOK, Held, Owned
  PROVE  SomebodyGoesOn
<1> DEFINE Goes(u) == pc[u] # "idle" /\ ~Waits(u)
<1>1. \A u \in Thread : HasFile(u, "TheAccountList") => Goes(u)
  BY DEF HasFile, Nested, Free, Waits
<1>2. \A u \in Thread : pc[u] = "Open" /\ goal[u] = "TheAccountList" => \E v \in Thread : Goes(v)
  BY <1>1 DEF Waits, Owned, FileOwned
<1>3. \A u \in Thread : HasLocal(u, "TheAccountList") => \E v \in Thread : Goes(v)
  BY <1>2 DEF HasLocal, Nested, Free, Waits
<1>4. \A u \in Thread : pc[u] = "Queue" /\ goal[u] = "TheAccountList" => \E v \in Thread : Goes(v)
  BY <1>3, ThreadParts DEF Waits, Owned, LocalOwned, SessionOf
<1>5. \A u \in Thread, w \in What : HasFile(u, w) => \E v \in Thread : Goes(v)
  BY <1>2, <1>4 DEF HasFile, Nested, Free, Waits
<1>6. \A u \in Thread : pc[u] = "Open" => \E v \in Thread : Goes(v)
  BY <1>5 DEF Waits, Owned, FileOwned, TypeOK
<1>7. \A u \in Thread, w \in What : HasLocal(u, w) => \E v \in Thread : Goes(v)
  BY <1>4, <1>6 DEF HasLocal, Nested, Free, Waits
<1>8. \A u \in Thread : pc[u] = "Queue" => \E v \in Thread : Goes(v)
  BY <1>7, ThreadParts DEF Waits, Owned, LocalOwned, SessionOf, TypeOK
<1> QED
  BY <1>6, <1>8 DEF SomebodyGoesOn, Waits

\* No order of flows, tidyings and kills leaves everybody waiting on everybody,
\* on any machine: the safety half of EveryTurnComes (turns.rs, take and its
\* callers in client.rs, which go from the client's turn to the list's and never
\* the other way).
THEOREM NobodyWaitsInACircle == Spec => []SomebodyGoesOn
<1>1. Init => TypeOK /\ Held /\ Owned
  BY TypeInit, HeldInit DEF Init, Owned, LocalOwned, FileOwned
<1>2. TypeOK /\ Held /\ Owned /\ [Next]_vars => (TypeOK /\ Held /\ Owned)'
  BY TypeStep, HeldStep, OwnedStep
<1>3. TypeOK /\ Held /\ Owned => SomebodyGoesOn
  BY WaitsEnd
<1> QED
  BY <1>1, <1>2, <1>3, PTL DEF Spec
=============================================================================
