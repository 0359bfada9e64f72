------------------------ MODULE ReleaseInstall_proofs ------------------------
(***************************************************************************)
(* Proofs about ReleaseInstall.  That the record tells the truth is not    *)
(* inductive by itself: while a helper is at work its truth rests on what  *)
(* it has merged so far and on the record it read being the one that is    *)
(* there, or none.  `Underway' says so.                                    *)
(***************************************************************************)
EXTENDS ReleaseInstall, TLAPS

\* Reviews, operations and contents are of published releases.
FromReleases ==
  /\ \A u \in User : op[u] # NoOperation => op[u].tag \in published
  /\ pc # "idle" => job \in Operation /\ job.tag \in published
  /\ \A p \in Path \ hand : file[p] # 0 => file[p] \in published

\* A helper carries out a newer operation than what the record names, works from
\* the record that is there or from none, and what it has merged is of its
\* release.
Underway ==
  /\ pc \in {"idle", "build"} => done = {}
  /\ pc # "idle" /\ record # NoRecord => job.tag > record.tag
  /\ pc \in {"merge", "place", "remove"} => previous \in {record, NoRecord}
  /\ pc = "place" => at \in Config
  /\ \A p \in done \ (hand \cup Config) : file[p] = job.tag

\* While it removes, what is neither merged nor still to be removed has been
\* tried.
Removing ==
  pc = "remove" =>
    /\ todo \subseteq record.files \ (done \cup Config)
    /\ previous.files \ (done \cup Config \cup todo) \subseteq unrecorded \cup forgotten

\* What is forgotten is of no release after the recorded one.
Outdated ==
  \A p \in forgotten \ (Config \cup hand \cup unrecorded) : file[p] <= record.tag

Inv ==
  /\ TypeOK /\ FromReleases /\ Underway /\ Removing /\ Outdated
  /\ RecordTellsTruth /\ NoOrphans

LEMMA Staging ==
  ASSUME NEW o \in Operation
  PROVE  Staged(o) \subseteq Path
  BY ReleaseAssumption DEF Staged, Operation

LEMMA NothingIsNoRecord ==
  /\ NoOperation \notin Operation
  /\ \A r \in Record : r # NoRecord /\ r.tag \in Tag /\ r.tag # 0 /\ r.files \subseteq Path
  /\ NoRecord.tag = 0 /\ NoRecord.files = {}
  BY ReleaseAssumption DEF NoOperation, Operation, Record, NoRecord, NoTag

LEMMA Versions ==
  ASSUME TypeOK
  PROVE  /\ record.tag \in Nat
         /\ \A p \in Path : file[p] \in Nat
<1>1. Tag \subseteq Nat /\ 0 \in Nat
  BY ReleaseAssumption
<1>2. record.tag \in Tag \cup {0}
  BY NothingIsNoRecord DEF TypeOK
<1>3. \A p \in Path : file[p] \in Tag \cup {0}
  BY DEF TypeOK
<1> QED
  BY <1>1, <1>2, <1>3

\* The first state: a copy a person installed, or the helper with its record.
LEMMA InitInv == Init => Inv
<1> SUFFICES ASSUME Init PROVE Inv
  OBVIOUS
<1>1. PICK components \in (SUBSET Component) \ {{}}, byHelper \in BOOLEAN, t \in Tag :
        LET ships == Staged([tag |-> t, components |-> components]) \ Outside IN
        /\ published = {t}
        /\ op = [u \in User |-> NoOperation]
        /\ file = [p \in Path |-> IF p \in ships THEN t ELSE 0]
        /\ beside = [p \in Config |-> 0]
        /\ record = IF byHelper THEN [tag |-> t, files |-> ships] ELSE NoRecord
        /\ pc = "idle" /\ job = NoOperation /\ previous = NoRecord
        /\ todo = {} /\ done = {} /\ at = Program
        /\ hand = IF byHelper THEN {} ELSE ships
        /\ unrecorded = {} /\ forgotten = {}
        /\ hands = 0 /\ faults = 0
  BY DEF Init
<1> DEFINE ships == Staged([tag |-> t, components |-> components]) \ Outside
<1>2. ships \subseteq Path
  BY Staging DEF Operation
<1> HIDE DEF ships
<1>3. /\ published = {t} /\ op = [u \in User |-> NoOperation]
      /\ file = [p \in Path |-> IF p \in ships THEN t ELSE 0]
      /\ record = IF byHelper THEN [tag |-> t, files |-> ships] ELSE NoRecord
      /\ hand = IF byHelper THEN {} ELSE ships
  BY <1>1 DEF ships
<1>4. TypeOK
  BY <1>1, <1>2, <1>3, ReleaseAssumption DEF TypeOK, Record
<1>5. FromReleases
  BY <1>1, <1>3 DEF FromReleases
<1>6. Underway /\ Removing /\ Outdated
  BY <1>1 DEF Underway, Removing, Outdated
<1>7. RecordTellsTruth
  BY <1>2, <1>3, NothingIsNoRecord DEF RecordTellsTruth
<1>8. NoOrphans
  BY <1>2, <1>3 DEF NoOrphans
<1> QED
  BY <1>4, <1>5, <1>6, <1>7, <1>8 DEF Inv

\* The helper puts down one file of its release.
LEMMA WritingKeepsInv ==
  ASSUME Inv, NEW p \in Path, Written(p),
         pc \in {"merge", "place"}, pc' = "merge",
         UNCHANGED <<reviews, hands, faults>>
  PROVE  Inv'
<1> USE DEF reviews
<1>1. job \in Operation /\ job.tag \in Tag /\ job.tag \in published
  BY DEF Inv, FromReleases, Operation
<1>2. /\ file' = [file EXCEPT ![p] = job.tag]
      /\ todo' = todo \ {p} /\ done' = done \cup {p}
      /\ hand' = hand \ {p} /\ unrecorded' = unrecorded \cup {p}
      /\ UNCHANGED <<beside, record, job, previous, at, forgotten>>
  BY DEF Written
<1>3. /\ file \in [Path -> Tag \cup {0}]
      /\ \A q \in Path : file'[q] = IF q = p THEN job.tag ELSE file[q]
  BY <1>2 DEF Inv, TypeOK
<1>4. TypeOK'
  BY <1>1, <1>2 DEF Inv, TypeOK
<1>5. FromReleases'
  BY <1>1, <1>2, <1>3 DEF Inv, FromReleases, TypeOK
<1>6. Underway'
  <2>1. \A q \in done' \ (hand' \cup Config) : file'[q] = job.tag
    BY <1>2, <1>3 DEF Inv, Underway, TypeOK
  <2> QED
    BY <1>2, <2>1 DEF Inv, Underway
<1>7. Removing'
  BY DEF Removing
<1>8. RecordTellsTruth'
  BY <1>2, <1>3, NothingIsNoRecord DEF Inv, RecordTellsTruth, TypeOK
<1>9. NoOrphans'
  BY <1>2, <1>3 DEF Inv, NoOrphans
<1>10. Outdated'
  BY <1>2, <1>3 DEF Inv, Outdated, TypeOK
<1> QED
  BY <1>4, <1>5, <1>6, <1>7, <1>8, <1>9, <1>10 DEF Inv

\* A run that ends without a record leaves what it did as unrecorded.
LEMMA RestingKeepsInv ==
  ASSUME Inv, Rests, faults' \in 0..MaxFaults,
         UNCHANGED <<reviews, disk, history, hands>>
  PROVE  Inv'
<1> USE DEF reviews, disk, history, Rests
<1>1. TypeOK'
  BY DEF Inv, TypeOK
<1>2. FromReleases'
  BY DEF Inv, FromReleases
<1>3. Underway' /\ Removing'
  BY DEF Underway, Removing
<1>4. RecordTellsTruth' /\ NoOrphans' /\ Outdated'
  BY DEF Inv, RecordTellsTruth, NoOrphans, Outdated
<1> QED
  BY <1>1, <1>2, <1>3, <1>4 DEF Inv

\* A person changes something at any moment.
LEMMA HandsKeepInv ==
  ASSUME Inv, NEW paths \in SUBSET Path, NEW t \in Tag \cup {0}, ByHand(paths, t)
  PROVE  Inv'
<1> USE DEF reviews, helper
<1>1. /\ hands \in 0..MaxHands /\ hands < MaxHands /\ hands' = hands + 1
      /\ file' = [p \in Path |-> IF p \in paths THEN t ELSE file[p]]
      /\ hand' = hand \cup paths
      /\ UNCHANGED <<reviews, beside, record, helper, unrecorded, forgotten, faults>>
  BY DEF ByHand, Inv, TypeOK
<1>2. \A p \in Path \ paths : file'[p] = file[p]
  BY <1>1
<1>3. TypeOK'
  <2>1. hands' \in 0..MaxHands
    BY <1>1, ReleaseAssumption
  <2> QED
    BY <1>1, <2>1 DEF Inv, TypeOK
<1>4. FromReleases'
  BY <1>1, <1>2 DEF Inv, FromReleases
<1>5. Underway' /\ Removing'
  BY <1>1, <1>2 DEF Inv, Underway, Removing, TypeOK
<1>6. RecordTellsTruth'
  BY <1>1, <1>2, NothingIsNoRecord DEF Inv, RecordTellsTruth, TypeOK
<1>7. NoOrphans' /\ Outdated'
  BY <1>1, <1>2 DEF Inv, NoOrphans, Outdated, TypeOK
<1> QED
  BY <1>3, <1>4, <1>5, <1>6, <1>7 DEF Inv

\* The record comes last, when everything it lists is in place and everything
\* the old one listed beyond it has been tried.
LEMMA RecordingKeepsInv == Inv /\ WriteRecord => Inv'
<1> SUFFICES ASSUME Inv, WriteRecord PROVE Inv'
  OBVIOUS
<1> USE DEF reviews, Rests
<1>1. /\ pc = "remove" /\ todo = {} /\ pc' = "idle"
      /\ record' = [tag |-> job.tag, files |-> done]
      /\ unrecorded' = {p \in unrecorded \ done : file[p] # 0}
      /\ forgotten' = {p \in (forgotten \cup (record.files \ previous.files)) \ done :
                         file[p] # 0}
      /\ job' = NoOperation /\ previous' = NoRecord /\ todo' = {} /\ done' = {}
      /\ UNCHANGED <<published, op, file, beside, at, hand, hands, faults>>
  BY DEF WriteRecord, Recorded
<1>2. /\ job \in Operation /\ job.tag \in Tag /\ done \subseteq Path
      /\ record'.tag = job.tag /\ record'.files = done
  BY <1>1 DEF Inv, FromReleases, TypeOK, Operation
<1>3. TypeOK'
  <2>1. record.files \subseteq Path
    BY NothingIsNoRecord DEF Inv, TypeOK, Record
  <2> QED
    BY <1>1, <1>2, <2>1 DEF Inv, TypeOK, Record
<1>4. FromReleases'
  BY <1>1 DEF Inv, FromReleases
<1>5. Underway' /\ Removing'
  BY <1>1 DEF Underway, Removing
<1>6. RecordTellsTruth'
  BY <1>1, <1>2 DEF Inv, Underway, RecordTellsTruth
<1>7. NoOrphans'
  <2> SUFFICES ASSUME NEW p \in Path \ (Config \cup hand), file[p] # 0
               PROVE  p \in record'.files \cup unrecorded' \cup forgotten'
    BY <1>1 DEF NoOrphans
  <2>1. p \in record.files \cup unrecorded \cup forgotten
    BY DEF Inv, NoOrphans
  <2>2. previous \in {record, NoRecord}
    BY <1>1 DEF Inv, Underway
  <2>3. p \in done \cup unrecorded \cup forgotten \cup (record.files \ previous.files)
    BY <1>1, <2>1, <2>2 DEF Inv, Removing
  <2> QED
    BY <1>1, <1>2, <2>3
<1>8. Outdated'
  <2> SUFFICES ASSUME NEW p \in forgotten' \ (Config \cup hand \cup unrecorded')
               PROVE  file[p] <= job.tag
    BY <1>1, <1>2 DEF Outdated
  <2>1. /\ p \in forgotten \cup record.files
        /\ p \notin unrecorded
    BY <1>1
  <2>2. /\ record.tag \in Nat /\ job.tag \in Nat
        /\ p \in Path /\ file[p] \in Nat
    <3>1. p \in Path
      BY <2>1, NothingIsNoRecord DEF Inv, TypeOK, Record
    <3>2. job.tag \in Nat
      BY <1>2, ReleaseAssumption
    <3> QED
      BY <3>1, <3>2, Versions DEF Inv
  <2>3. file[p] <= record.tag
    BY <2>1, <2>2 DEF Inv, Outdated, RecordTellsTruth
  <2>4. record.tag <= job.tag
    BY <1>1, <2>2, NothingIsNoRecord DEF Inv, Underway
  <2> QED
    BY <2>2, <2>3, <2>4
<1> QED
  BY <1>3, <1>4, <1>5, <1>6, <1>7, <1>8 DEF Inv

LEMMA RemovalKeepsInv ==
  ASSUME Inv, NEW p \in Path, Remove(p)
  PROVE  Inv'
<1> USE DEF reviews
<1>1. /\ pc = "remove" /\ p \in todo /\ todo' = todo \ {p}
      /\ UNCHANGED <<reviews, beside, record, pc, job, done, previous, at, hands>>
      /\ \/ /\ file' = [file EXCEPT ![p] = 0] /\ hand' = hand \ {p} /\ faults' = faults
            /\ unrecorded' = unrecorded \cup {p} /\ forgotten' = forgotten
         \/ /\ faults < MaxFaults /\ faults' = faults + 1 /\ file' = file /\ hand' = hand
            /\ unrecorded' = unrecorded /\ forgotten' = forgotten \cup {p}
  BY DEF Remove
<1>2. /\ faults' \in 0..MaxFaults
      /\ file' \in [Path -> Tag \cup {0}]
      /\ hand' \subseteq Path /\ hand \ {p} \subseteq hand' /\ hand' \subseteq hand
      /\ \A q \in Path : file'[q] = file[q] \/ (q = p /\ file'[q] = 0)
  BY <1>1, ReleaseAssumption DEF Inv, TypeOK
<1>3. p \notin done
  BY <1>1 DEF Inv, Removing
<1>4. TypeOK'
  BY <1>1, <1>2 DEF Inv, TypeOK
<1>5. FromReleases'
  <2>1. \A q \in Path \ hand' : file'[q] # 0 => file'[q] \in published
    BY <1>1, <1>2 DEF Inv, FromReleases, TypeOK
  <2> QED
    BY <1>1, <2>1 DEF Inv, FromReleases
<1>6. Underway'
  BY <1>1, <1>2, <1>3 DEF Inv, Underway, TypeOK
<1>7. Removing'
  BY <1>1 DEF Inv, Removing
<1>8. RecordTellsTruth'
  BY <1>1, <1>2, NothingIsNoRecord DEF Inv, RecordTellsTruth, TypeOK
<1>9. NoOrphans'
  BY <1>1, <1>2 DEF Inv, NoOrphans
<1>10. Outdated'
  <2> SUFFICES ASSUME NEW q \in forgotten' \ (Config \cup hand' \cup unrecorded')
               PROVE  file'[q] <= record.tag
    BY <1>1 DEF Outdated
  <2>1. q \notin unrecorded /\ q \in Path
    BY <1>1 DEF Inv, TypeOK
  <2>2. record.tag \in Nat
    BY Versions DEF Inv
  <2>3. CASE q = p /\ file' = [file EXCEPT ![p] = 0]
    BY <2>1, <2>2, <2>3 DEF Inv, TypeOK
  <2>4. CASE q # p
    <3>1. file'[q] = file[q] /\ q \in forgotten /\ q \notin hand
      BY <1>1, <1>2, <2>1, <2>4
    <3> QED
      BY <2>1, <3>1 DEF Inv, Outdated
  <2>5. CASE q = p /\ file' = file /\ hand' = hand
    <3>1. p \in record.files
      BY <1>1 DEF Inv, Removing, Underway
    <3>2. file[p] \in Int /\ file[p] = record.tag
      BY <2>1, <2>2, <2>5, <3>1 DEF Inv, RecordTellsTruth
    <3> QED
      BY <2>2, <2>5, <3>2
  <2> QED
    BY <1>1, <2>3, <2>4, <2>5
<1> QED
  BY <1>4, <1>5, <1>6, <1>7, <1>8, <1>9, <1>10 DEF Inv

\* The steps that touch neither files nor record.
LEMMA QuietStepsKeepInv ==
  ASSUME Inv,
         \/ \E u \in User : Check(u) \/ Begin(u)
         \/ \E t \in Tag : Publish(t)
         \/ Stage \/ Merged \/ \E p \in Path : Meet(p)
  PROVE  Inv'
<1> USE DEF reviews, disk, helper, history
<1>a. /\ TypeOK /\ FromReleases /\ Underway /\ Removing
      /\ RecordTellsTruth /\ NoOrphans /\ Outdated
  BY DEF Inv
<1>b. /\ UNCHANGED <<file, record, history, hands, faults>>
      => RecordTellsTruth' /\ NoOrphans' /\ Outdated'
  BY <1>a DEF RecordTellsTruth, NoOrphans, Outdated
<1>1. ASSUME NEW u \in User, Check(u) PROVE Inv'
  <2>1. /\ \A v \in User \ {u} : op'[v] = op[v]
        /\ (op'[u] \in Operation /\ op'[u].tag \in published) \/ op'[u] = NoOperation
        /\ op' \in [User -> Operation \cup {NoOperation}]
    <3>1. CASE \E r \in published : Newest(r) /\ op' = [op EXCEPT ![u] = [tag |-> r, components |-> Built]]
                /\ Offered
      <4>1. Built \in (SUBSET Component) \ {{}}
        BY <3>1 DEF Offered, Built
      <4> QED
        BY <1>a, <3>1, <4>1 DEF TypeOK, Operation
    <3>2. CASE op' = [op EXCEPT ![u] = NoOperation]
      BY <1>a, <3>2 DEF TypeOK
    <3> QED
      BY <1>1, <3>1, <3>2 DEF Check
  <2>2. UNCHANGED <<published, disk, helper, history, hands, faults>>
    BY <1>1 DEF Check
  <2>3. TypeOK'
    BY <1>a, <2>1, <2>2 DEF TypeOK
  <2>4. FromReleases'
    BY <1>a, <2>1, <2>2 DEF FromReleases
  <2>5. Underway' /\ Removing'
    BY <1>a, <2>2 DEF Underway, Removing
  <2> QED
    BY <1>b, <2>2, <2>3, <2>4, <2>5 DEF Inv
<1>2. ASSUME NEW u \in User, Begin(u) PROVE Inv'
  <2>1. /\ op[u] # NoOperation /\ op' = [op EXCEPT ![u] = NoOperation] /\ pc = "idle"
        /\ UNCHANGED <<published, disk, todo, done, previous, at, history, hands, faults>>
        /\ \/ Allowed(op[u]) /\ pc' = "build" /\ job' = op[u]
           \/ pc' = pc /\ job' = job
    BY <1>2 DEF Begin
  <2>2. op[u] \in Operation /\ op[u].tag \in published
    BY <1>a, <2>1 DEF TypeOK, FromReleases
  <2>3. TypeOK'
    BY <1>a, <2>1, <2>2 DEF TypeOK
  <2>4. FromReleases'
    BY <1>a, <2>1, <2>2 DEF FromReleases, TypeOK
  <2>5. Allowed(op[u]) /\ record # NoRecord => op[u].tag > record.tag
    BY DEF Allowed, Installed
  <2>6. Underway'
    BY <1>a, <2>1, <2>5 DEF Underway
  <2>7. Removing'
    BY <2>1 DEF Removing
  <2> QED
    BY <1>b, <2>1, <2>3, <2>4, <2>6, <2>7 DEF Inv
<1>3. ASSUME NEW t \in Tag, Publish(t) PROVE Inv'
  <2>1. published' = published \cup {t}
        /\ UNCHANGED <<op, disk, helper, history, hands, faults>>
    BY <1>3 DEF Publish
  <2>2. TypeOK' /\ FromReleases'
    BY <1>a, <2>1 DEF TypeOK, FromReleases
  <2>3. Underway' /\ Removing'
    BY <1>a, <2>1 DEF Underway, Removing
  <2> QED
    BY <1>b, <2>1, <2>2, <2>3 DEF Inv
<1>4. CASE Stage
  <2>1. pc = "build" /\ UNCHANGED <<reviews, disk, history, hands, faults>>
    BY <1>4 DEF Stage
  <2>2. CASE Rests
    BY <2>1, <2>2, RestingKeepsInv, <1>a DEF TypeOK
  <2>3. CASE /\ pc' = "merge" /\ todo' = Staged(job) /\ done' = {}
             /\ previous' \in {record, NoRecord} /\ UNCHANGED <<job, at>>
    <3>1. job \in Operation /\ Staged(job) \subseteq Path
      BY <1>a, <2>1, Staging DEF FromReleases
    <3>2. TypeOK'
      BY <1>a, <2>1, <2>3, <3>1 DEF TypeOK
    <3>3. FromReleases'
      BY <1>a, <2>1, <2>3 DEF FromReleases
    <3>4. Underway'
      BY <1>a, <2>1, <2>3 DEF Underway
    <3>5. Removing'
      BY <2>3 DEF Removing
    <3> QED
      BY <1>b, <2>1, <3>2, <3>3, <3>4, <3>5 DEF Inv
  <2> QED
    BY <1>4, <2>2, <2>3 DEF Stage
<1>5. CASE Merged
  <2>1. /\ pc = "merge" /\ pc' = "remove" /\ todo' = previous.files \ (done \cup Config)
        /\ UNCHANGED <<reviews, disk, job, done, previous, at, history, hands, faults>>
    BY <1>5 DEF Merged, Superseded
  <2>2. TypeOK'
    BY <1>a, <2>1, NothingIsNoRecord DEF TypeOK
  <2>3. FromReleases'
    BY <1>a, <2>1 DEF FromReleases
  <2>4. Underway' /\ Removing'
    BY <1>a, <2>1, NothingIsNoRecord DEF Underway, Removing
  <2> QED
    BY <1>b, <2>1, <2>2, <2>3, <2>4 DEF Inv
<1>6. ASSUME NEW p \in Path, Meet(p) PROVE Inv'
  <2>1. /\ pc = "merge" /\ p \in Config
        /\ UNCHANGED <<reviews, file, record, job, previous, history, hands, faults>>
        /\ \/ pc' = "place" /\ at' = p /\ UNCHANGED <<beside, todo, done>>
           \/ /\ beside' = beside \/ beside' = [beside EXCEPT ![p] = job.tag]
              /\ todo' = todo \ {p} /\ done' = done \cup {p} /\ UNCHANGED <<pc, at>>
    BY <1>6 DEF Meet, AsConfig
  <2>2. job \in Operation /\ job.tag \in Tag
    BY <1>a, <2>1 DEF FromReleases, Operation
  <2>3. TypeOK'
    BY <1>a, <2>1, <2>2 DEF TypeOK
  <2>4. FromReleases'
    BY <1>a, <2>1 DEF FromReleases
  <2>5. Underway' /\ Removing'
    BY <1>a, <2>1 DEF Underway, Removing
  <2> QED
    BY <1>b, <2>1, <2>3, <2>4, <2>5 DEF Inv
<1> QED
  BY <1>1, <1>2, <1>3, <1>4, <1>5, <1>6

LEMMA NextKeepsInv == Inv /\ [Next]_vars => Inv'
<1> SUFFICES ASSUME Inv, [Next]_vars PROVE Inv'
  OBVIOUS
<1>1. CASE \/ \E u \in User : Check(u) \/ Begin(u)
           \/ \E t \in Tag : Publish(t)
           \/ Stage \/ Merged \/ \E p \in Path : Meet(p)
  BY <1>1, QuietStepsKeepInv
<1>2. ASSUME NEW p \in Path, Put(p) PROVE Inv'
  BY <1>2, WritingKeepsInv DEF Put, Inv, TypeOK
<1>3. CASE Place
  BY <1>3, WritingKeepsInv DEF Place, Inv, TypeOK
<1>4. CASE Fails
  <2>1. faults' \in 0..MaxFaults
    BY <1>4, ReleaseAssumption DEF Fails, Inv, TypeOK
  <2> QED
    BY <1>4, <2>1, RestingKeepsInv DEF Fails
<1>5. ASSUME NEW p \in Path, Remove(p) PROVE Inv'
  BY <1>5, RemovalKeepsInv
<1>6. CASE WriteRecord
  BY <1>6, RecordingKeepsInv
<1>7. CASE PersonStep
  <2>1. ASSUME NEW c \in Component, NEW t \in Tag, InstallByHand(c, t) PROVE Inv'
    <3>1. Ships[t][c] \ (Config \cup Outside) \in SUBSET Path
      BY ReleaseAssumption
    <3> QED
      BY <2>1, <3>1, HandsKeepInv DEF InstallByHand
  <2>2. ASSUME NEW p \in Path, Edit(p) PROVE Inv'
    BY <2>2, HandsKeepInv DEF Edit
  <2>3. ASSUME NEW p \in Path, Delete(p) PROVE Inv'
    BY <2>3, HandsKeepInv DEF Delete
  <2> QED
    BY <1>7, <2>1, <2>2, <2>3 DEF PersonStep
<1>8. CASE UNCHANGED vars
  BY <1>8 DEF vars, reviews, disk, helper, history, Inv, TypeOK, FromReleases,
              Underway, Removing, Outdated, RecordTellsTruth, NoOrphans
<1> QED
  BY <1>1, <1>2, <1>3, <1>4, <1>5, <1>6, <1>7, <1>8 DEF Next, HelperStep

LEMMA Invariance == Spec => []Inv
<1> QED
  BY InitInv, NextKeepsInv, PTL DEF Spec

-----------------------------------------------------------------------------
\* Every variable keeps its type, at every step of the review, the helper and
\* the people beside them.
THEOREM TypeCorrect == Spec => []TypeOK
<1>1. Inv => TypeOK
  BY DEF Inv
<1> QED
  BY <1>1, Invariance, PTL

\* Whatever fails and whenever the helper is killed, what the record lists under
\* the prefix is of the release it names (Record, release_install.rs).
THEOREM Truth == Spec => []RecordTellsTruth
<1>1. Inv => RecordTellsTruth
  BY DEF Inv
<1> QED
  BY <1>1, Invariance, PTL

\* Of what a newer release no longer ships nothing stays but what a run left
\* that never came to its record, what could not be removed, and what a record
\* listed that was not trusted.
THEOREM NoneOrphaned == Spec => []NoOrphans
<1>1. Inv => NoOrphans
  BY DEF Inv
<1> QED
  BY <1>1, Invariance, PTL

\* An update cut short over a recorded installation is offered again
\* (built_version() asks the record before the program).
THEOREM InterruptedOffered == Spec => []InterruptedIsOffered
<1>1. Inv => InterruptedIsOffered
  <2> SUFFICES ASSUME Inv, record # NoRecord, Built # {},
                      NEW p \in unrecorded \ hand, file[p] > record.tag
               PROVE  Offered
    BY DEF InterruptedIsOffered
  <2>1. p \in Path /\ file[p] \in Tag \cup {0} /\ record.tag \in Nat \ {0}
    BY NothingIsNoRecord, ReleaseAssumption DEF Inv, TypeOK
  <2>2. file[p] \in published
    BY <2>1, ReleaseAssumption DEF Inv, FromReleases
  <2>3. Installed = record.tag
    BY DEF Installed
  <2> QED
    BY <2>1, <2>2, <2>3 DEF Offered
<1> QED
  BY <1>1, Invariance, PTL

\* However old a user's review is, the helper that carries it out puts nothing
\* back to an earlier release (source() asks again under the lock).
THEOREM NeverTakenBack == Spec => NothingTakenBack
<1>1. Inv /\ [Next]_vars =>
        [\A p \in Path \ (Config \cup hand \cup unrecorded) :
           p \notin hand' => file'[p] >= file[p] \/ file'[p] = 0]_vars
  <2> SUFFICES ASSUME Inv, Next, NEW p \in Path \ (Config \cup hand \cup unrecorded),
                      p \notin hand'
               PROVE  file'[p] >= file[p] \/ file'[p] = 0
    BY DEF vars
  <2>0. file \in [Path -> Tag \cup {0}] /\ file[p] \in Int
    <3>1. file \in [Path -> Tag \cup {0}] /\ p \in Path
      BY DEF Inv, TypeOK
    <3>2. Tag \cup {0} \subseteq Int
      BY ReleaseAssumption
    <3> QED
      BY <3>1, <3>2
  <2>1. CASE file' = file
    BY <2>0, <2>1
  <2>2. ASSUME NEW q \in Path, Written(q), pc \in {"merge", "place"}
        PROVE  file'[p] >= file[p] \/ file'[p] = 0
    <3>1. job.tag \in Nat
      BY <2>2, ReleaseAssumption DEF Inv, FromReleases, Operation
    <3>2. file'[p] = IF p = q THEN job.tag ELSE file[p]
      BY <2>0, <2>2 DEF Written
    <3>3. CASE file[p] = 0
      BY <2>0, <3>1, <3>2, <3>3
    <3>4. CASE file[p] # 0
      <4>1. p \in record.files \cup forgotten
        BY <3>4 DEF Inv, NoOrphans
      <4>2. /\ record.tag \in Nat /\ file[p] \in Nat \ {0}
            /\ record.tag = 0 \/ record # NoRecord
        BY <3>4, NothingIsNoRecord, Versions DEF Inv, TypeOK
      <4>3. file[p] <= record.tag /\ record # NoRecord
        <5>1. file[p] <= record.tag
          BY <4>1, <4>2 DEF Inv, RecordTellsTruth, Outdated
        <5> QED
          BY <4>2, <5>1, NothingIsNoRecord
      <4>4. job.tag > record.tag
        BY <2>2, <4>3 DEF Inv, Underway
      <4> QED
        BY <2>0, <3>1, <3>2, <4>2, <4>3, <4>4
    <3> QED
      BY <3>3, <3>4
  <2>3. ASSUME NEW q \in Path, Put(q) PROVE file'[p] >= file[p] \/ file'[p] = 0
    BY <2>2, <2>3 DEF Put
  <2>4. CASE Place
    BY <2>2, <2>4 DEF Place, Inv, TypeOK
  <2>5. ASSUME NEW q \in Path, Remove(q) PROVE file'[p] >= file[p] \/ file'[p] = 0
    BY <2>0, <2>1, <2>5 DEF Remove
  <2>6. ASSUME NEW paths \in SUBSET Path, NEW t \in Tag \cup {0}, ByHand(paths, t)
        PROVE  file'[p] >= file[p] \/ file'[p] = 0
    BY <2>0, <2>6 DEF ByHand
  <2>7. CASE PersonStep
    <3>1. ASSUME NEW c \in Component, NEW t \in Tag, InstallByHand(c, t)
          PROVE  file'[p] >= file[p] \/ file'[p] = 0
      <4>1. Ships[t][c] \ (Config \cup Outside) \in SUBSET Path
        BY ReleaseAssumption
      <4> QED
        BY <2>6, <3>1, <4>1 DEF InstallByHand
    <3>2. ASSUME NEW q \in Path, Edit(q) \/ Delete(q)
          PROVE  file'[p] >= file[p] \/ file'[p] = 0
      BY <2>6, <3>2 DEF Edit, Delete
    <3> QED
      BY <2>7, <3>1, <3>2 DEF PersonStep
  <2>8. CASE \/ \E u \in User : Check(u) \/ Begin(u)
             \/ \E t \in Tag : Publish(t)
             \/ Stage \/ Merged \/ Fails \/ WriteRecord \/ \E q \in Path : Meet(q)
    BY <2>1, <2>8 DEF Check, Begin, Publish, Stage, Merged, Fails, WriteRecord, Meet, disk
  <2> QED
    BY <2>3, <2>4, <2>5, <2>7, <2>8 DEF Next, HelperStep
<1> QED
  BY <1>1, Invariance, PTL DEF Spec, NothingTakenBack

\* Configuration a person made or changed is neither replaced nor removed, but
\* for what appears between the look for it and its writing, and for what the
\* release ships as a link (merge()).
THEOREM ConfigurationKept == Spec => ConfigurationStays
<1>1. Inv /\ [Next]_vars =>
        [\A p \in Config \cap hand :
           \/ p \in hand'
           \/ pc = "place" /\ at = p
           \/ pc = "merge" /\ p \in Links[job.tag]]_vars
  <2> SUFFICES ASSUME Inv, Next, NEW p \in Config \cap hand
               PROVE  \/ p \in hand'
                      \/ pc = "place" /\ at = p
                      \/ pc = "merge" /\ p \in Links[job.tag]
    BY DEF vars
  <2>1. ASSUME NEW q \in Path, Put(q)
        PROVE  p \in hand' \/ (pc = "merge" /\ p \in Links[job.tag])
    BY <2>1 DEF Put, Written, AsConfig
  <2>2. CASE Place
    BY <2>2 DEF Place, Written
  <2>3. ASSUME NEW q \in Path, Remove(q) PROVE p \in hand'
    <3>1. q \notin Config
      BY <2>3 DEF Remove, Inv, Removing
    <3> QED
      BY <2>3, <3>1 DEF Remove
  <2>4. CASE PersonStep
    BY <2>4 DEF PersonStep, InstallByHand, Edit, Delete, ByHand
  <2>5. CASE \/ \E u \in User : Check(u) \/ Begin(u)
             \/ \E t \in Tag : Publish(t)
             \/ Stage \/ Merged \/ Fails \/ WriteRecord \/ \E q \in Path : Meet(q)
    BY <2>5 DEF Check, Begin, Publish, Stage, Merged, Fails, WriteRecord, Meet, history
  <2> QED
    BY <2>1, <2>2, <2>3, <2>4, <2>5 DEF Next, HelperStep
<1> QED
  BY <1>1, Invariance, PTL DEF Spec, ConfigurationStays
=============================================================================
