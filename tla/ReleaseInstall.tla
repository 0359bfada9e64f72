--------------------------- MODULE ReleaseInstall ---------------------------
(***************************************************************************)
(* One project of the family that is built from its source: the review     *)
(* each user holds (releases.rs) and the root helper that merges a newer   *)
(* release onto the machine (release_install.rs), while releases come out, *)
(* a person installs, edits and deletes by hand, and the helper may fail   *)
(* or be killed at any point.                                              *)
(*                                                                         *)
(* A version is a number; the contents of a path are the version they are  *)
(* of, and 0 is a path that is not there.                                  *)
(***************************************************************************)
EXTENDS Integers, FiniteSets

CONSTANTS
  User,       \* people with a coordinator, and a review, of their own
  Component,  \* what install.sh --component knows
  Path,       \* the paths any release has
  Config,     \* those of them in /etc
  Outside,    \* those neither in /etc nor under the prefix
  Tag,        \* the versions releases are tagged with
  Ships,      \* the paths of a component in a release
  Links,      \* the paths a release has as symbolic links
  Marker,     \* the path that says a component is installed
  Program,    \* the program that answers --version
  Says,       \* what it answers: the version without its pre-release
  MaxHands,   \* bound: how often a person changes something by hand
  MaxFaults   \* bound: how often the helper fails or is killed

ASSUME ReleaseAssumption ==
  /\ Tag \subseteq Nat \ {0} /\ IsFiniteSet(Tag)
  /\ Config \subseteq Path /\ Outside \subseteq Path
  /\ Ships \in [Tag -> [Component -> SUBSET Path]]
  /\ Links \in [Tag -> SUBSET Path]
  /\ Marker \in [Component -> Path \ Config]
  /\ Program \in Path
  /\ Says \in [Tag -> Nat]
  /\ MaxHands \in Nat /\ MaxFaults \in Nat

VARIABLES
  published,  \* the releases GitHub lists
  op,         \* per user the operation of the last review
  file,       \* what is at every path
  beside,     \* what is at its .lxbnew
  record,     \* share/lxb-updates/installed/<project>.json
  pc,         \* where the helper is
  job,        \* the operation it carries out
  todo,       \* the paths it has still to merge, or to remove
  done,       \* `installed' in merge()
  previous,   \* the record it read before the merge, and trusts
  at,         \* the configuration it found absent and is about to write
  hand,       \* history: the paths whose present contents a person made
  unrecorded, \* history: the paths a helper changed that no record speaks of
  forgotten,  \* history: what a run with a record left of the release before
  hands, faults

reviews == <<published, op>>
disk == <<file, beside, record>>
helper == <<pc, job, todo, done, previous, at>>
history == <<hand, unrecorded, forgotten>>
vars == <<reviews, disk, helper, history, hands, faults>>

NoTag == 0
Operation == [tag : Tag, components : (SUBSET Component) \ {{}}]
NoOperation == [tag |-> NoTag, components |-> {}]
Record == [tag : Tag, files : SUBSET Path]
NoRecord == [tag |-> NoTag, files |-> {}]

TypeOK ==
  /\ published \subseteq Tag
  /\ op \in [User -> Operation \cup {NoOperation}]
  /\ file \in [Path -> Tag \cup {0}]
  /\ beside \in [Config -> Tag \cup {0}]
  /\ record \in Record \cup {NoRecord}
  /\ pc \in {"idle", "build", "merge", "place", "remove"}
  /\ job \in Operation \cup {NoOperation}
  /\ previous \in Record \cup {NoRecord}
  /\ at \in Path
  /\ todo \subseteq Path /\ done \subseteq Path
  /\ hand \subseteq Path /\ unrecorded \subseteq Path /\ forgotten \subseteq Path
  /\ hands \in 0..MaxHands /\ faults \in 0..MaxFaults
-----------------------------------------------------------------------------
(* releases.rs: what is installed and what is offered *)

\* built(): the components whose markers are there.
Built == {c \in Component : file[Marker[c]] # 0}

\* Mutant: the program is asked first and the record only without it.
ProgramFirst ==
  IF file[Program] # 0 THEN Says[file[Program]] ELSE record.tag

\* built_version(): what the record says, else what the program answers; 0
\* when neither can say.
Installed ==
  IF record # NoRecord THEN record.tag
  ELSE IF file[Program] # 0 THEN Says[file[Program]] ELSE 0

Newest(t) == t \in published /\ \A s \in published : s <= t

\* plan(): the newest release is offered if it, and so any, is newer.
Offered ==
  /\ Built # {}
  /\ Installed # 0
  /\ \E t \in published : t > Installed

Check(u) ==
  /\ \/ /\ Offered
        /\ \E t \in published :
             Newest(t) /\ op' = [op EXCEPT ![u] = [tag |-> t, components |-> Built]]
     \/ ~Offered /\ op' = [op EXCEPT ![u] = NoOperation]
  /\ UNCHANGED <<published, disk, helper, history, hands, faults>>
-----------------------------------------------------------------------------
(* release_install.rs: source() *)

\* Mutant: the reviewed operation is trusted to be newer.
AllowedAsReviewed(o) ==
  /\ o.components \subseteq Built
  /\ Installed # 0

\* What the helper asks again, under the root lock: the reviewed components are
\* still installed, and the release is newer than what is.
Allowed(o) ==
  /\ o.components \subseteq Built
  /\ Installed # 0
  /\ o.tag > Installed

\* Update now.  The review is used up whether or not the helper goes on.
Begin(u) ==
  /\ pc = "idle"
  /\ op[u] # NoOperation
  /\ op' = [op EXCEPT ![u] = NoOperation]
  /\ IF Allowed(op[u])
     THEN pc' = "build" /\ job' = op[u]
     ELSE UNCHANGED <<pc, job>>
  /\ UNCHANGED <<published, disk, todo, done, previous, at, history, hands,
                 faults>>

Rests ==
  /\ pc' = "idle" /\ job' = NoOperation /\ previous' = NoRecord
  /\ todo' = {} /\ done' = {}
  /\ UNCHANGED at

\* A step that fails, or a helper that is killed.
Fails ==
  /\ pc # "idle"
  /\ faults < MaxFaults
  /\ faults' = faults + 1
  /\ Rests
  /\ UNCHANGED <<reviews, disk, history, hands>>

\* What install.sh stages.
Staged(o) == UNION {Ships[o.tag][c] : c \in o.components}

\* The release is built and staged, the record read, and every staged path held
\* against the prefix before any is written.  A record that others than root
\* could have written, or its directories, counts as none to the root helper.
Stage ==
  /\ pc = "build"
  /\ IF Staged(job) \cap Outside # {}
     THEN Rests
     ELSE /\ pc' = "merge"
          /\ todo' = Staged(job) /\ done' = {}
          /\ previous' \in {record, NoRecord}
          /\ UNCHANGED <<job, at>>
  /\ UNCHANGED <<reviews, disk, history, hands, faults>>

\* replace(): written beside and renamed over.
Written(p) ==
  /\ file' = [file EXCEPT ![p] = job.tag]
  /\ todo' = todo \ {p} /\ done' = done \cup {p}
  /\ hand' = hand \ {p}
  /\ unrecorded' = unrecorded \cup {p}
  /\ UNCHANGED <<beside, record, job, previous, at, forgotten>>

\* Configuration as the merge knows it: a path in /etc that is staged as a file.
\* A staged link is renamed over whatever is there, in /etc too.
AsConfig == Config \ Links[job.tag]

Put(p) ==
  /\ pc = "merge" /\ p \in todo \ AsConfig
  /\ Written(p)
  /\ UNCHANGED <<reviews, pc, hands, faults>>

\* Configuration that is there stays; the release's goes beside it if they
\* differ.  Configuration that is not there is written next.
Meet(p) ==
  /\ pc = "merge" /\ p \in todo \cap AsConfig
  /\ IF file[p] = 0
     THEN pc' = "place" /\ at' = p /\ UNCHANGED <<beside, todo, done>>
     ELSE /\ beside' = IF p \in hand \/ file[p] # job.tag
                       THEN [beside EXCEPT ![p] = job.tag] ELSE beside
          /\ todo' = todo \ {p} /\ done' = done \cup {p}
          /\ UNCHANGED <<pc, at>>
  /\ UNCHANGED <<reviews, file, record, job, previous, history, hands, faults>>

Place ==
  /\ pc = "place"
  /\ Written(at)
  /\ pc' = "merge"
  /\ UNCHANGED <<reviews, hands, faults>>

\* Mutant: nothing of the release before is taken away.
LeavesTheOld(r, files) == {}
\* Mutant: what the release before listed is taken away wherever it is.
TakesAll(r, files) == r.files \ files

\* What a newer release no longer ships, under the prefix only.
Superseded(r, files) == r.files \ (files \cup Config)

Merged ==
  /\ pc = "merge" /\ todo = {}
  /\ pc' = "remove"
  /\ todo' = Superseded(previous, done)
  /\ UNCHANGED <<reviews, disk, job, done, previous, at, history, hands, faults>>

\* A removal that fails is ignored, and the file forgotten.
Remove(p) ==
  /\ pc = "remove" /\ p \in todo
  /\ todo' = todo \ {p}
  /\ \/ /\ file' = [file EXCEPT ![p] = 0] /\ hand' = hand \ {p}
        /\ unrecorded' = unrecorded \cup {p}
        /\ UNCHANGED <<forgotten, faults>>
     \/ /\ faults < MaxFaults /\ faults' = faults + 1
        /\ forgotten' = forgotten \cup {p}
        /\ UNCHANGED <<file, hand, unrecorded>>
  /\ UNCHANGED <<reviews, beside, record, pc, job, done, previous, at, hands>>

\* Mutant: the list of the release before is carried on.
RecordsAll(files) == files \cup previous.files
Recorded(files) == files

\* The record comes last.  What the one before it listed and was not trusted
\* with is forgotten.
WriteRecord ==
  /\ pc = "remove" /\ todo = {}
  /\ record' = [tag |-> job.tag, files |-> Recorded(done)]
  /\ unrecorded' = {p \in unrecorded \ done : file[p] # 0}
  /\ forgotten' = {p \in (forgotten \cup (record.files \ previous.files)) \ done :
                     file[p] # 0}
  /\ Rests
  /\ UNCHANGED <<reviews, file, beside, hand, hands, faults>>
-----------------------------------------------------------------------------
(* GitHub and people *)

Publish(t) ==
  /\ t \notin published
  /\ published' = published \cup {t}
  /\ UNCHANGED <<op, disk, helper, history, hands, faults>>

\* By hand: contents at some paths, of any version, or none.
ByHand(paths, version) ==
  /\ hands < MaxHands
  /\ hands' = hands + 1
  /\ file' = [p \in Path |-> IF p \in paths THEN version ELSE file[p]]
  /\ hand' = hand \cup paths
  /\ UNCHANGED <<reviews, beside, record, helper, unrecorded, forgotten,
                 faults>>

\* install.sh, out of a checkout of some version.
InstallByHand(c, t) == ByHand(Ships[t][c] \ (Config \cup Outside), t)
Edit(p) == \E t \in Tag : p \in Config /\ ByHand({p}, t)
Delete(p) == file[p] # 0 /\ ByHand({p}, 0)
-----------------------------------------------------------------------------
\* A copy of the first release, installed by this helper or by hand.
Init ==
  \E components \in (SUBSET Component) \ {{}}, byHelper \in BOOLEAN, t \in Tag :
    LET ships == Staged([tag |-> t, components |-> components]) \ Outside IN
    /\ published = {t}
    /\ op = [u \in User |-> NoOperation]
    /\ file = [p \in Path |-> IF p \in ships THEN t ELSE 0]
    /\ beside = [p \in Config |-> 0]
    /\ record = IF byHelper THEN [tag |-> t, files |-> ships] ELSE NoRecord
    /\ pc = "idle" /\ job = NoOperation /\ previous = NoRecord
    /\ todo = {} /\ done = {} /\ at = Program
    /\ hand = IF byHelper THEN {} ELSE ships
    /\ unrecorded = {} /\ forgotten = {}
    /\ hands = 0 /\ faults = 0

HelperStep ==
  \/ Fails \/ Stage \/ Place \/ Merged \/ WriteRecord
  \/ \E p \in Path : Put(p) \/ Meet(p) \/ Remove(p)
PersonStep ==
  \/ \E c \in Component, t \in Tag : InstallByHand(c, t)
  \/ \E p \in Path : Edit(p) \/ Delete(p)

Next ==
  \/ \E u \in User : Check(u) \/ Begin(u)
  \/ HelperStep
  \/ PersonStep
  \/ \E t \in Tag : Publish(t)

Spec == Init /\ [][Next]_vars
-----------------------------------------------------------------------------
(* Safety *)

\* The record tells the truth: what it lists under the prefix is of the release
\* it names, whatever failed since, except where a person or a later run that
\* never came to its record was at work (docs/updates.md:273).
RecordTellsTruth ==
  \A p \in record.files \ (Config \cup hand \cup unrecorded) :
    file[p] = record.tag

\* What a newer release no longer ships does not stay: every file a helper put
\* under the prefix is in the record, except what a run left that never came to
\* its record, and two kinds a run with a record leaves, which no later run
\* finds: what could not be removed (`let _ = fs::remove_file', an error nobody
\* sees) and what a record listed that was not trusted.
NoOrphans ==
  \A p \in Path \ (Config \cup hand) :
    file[p] # 0 => p \in record.files \cup unrecorded \cup forgotten

\* An update that was cut short over an installation with a record is offered
\* again, although its programs may already answer with the new version.
InterruptedIsOffered ==
  (/\ pc = "idle" /\ record # NoRecord /\ Built # {}
   /\ \E p \in unrecorded \ hand : file[p] > record.tag)
    => Offered

\* Nothing that is installed is downgraded, by whichever user's review and
\* however old it is (docs/updates.md:259), unless a person put it there or
\* a run left it that never came to its record.
NothingTakenBack ==
  [][\A p \in Path \ (Config \cup hand \cup unrecorded) :
       p \notin hand' => file'[p] >= file[p] \/ file'[p] = 0]_vars

\* Configuration an administrator has made or changed is neither replaced nor
\* removed (merge(), release_install.rs:470), with two exceptions: what appears,
\* or was deleted, where the merge looked and found nothing, and what the release
\* ships as a link, which takes the place of the administrator's file.
ConfigurationStays ==
  [][\A p \in Config \cap hand :
       \/ p \in hand'
       \/ pc = "place" /\ at = p
       \/ pc = "merge" /\ p \in Links[job.tag]]_vars
=============================================================================
