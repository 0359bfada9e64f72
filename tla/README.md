# A verification project for LineXinBar

LineXinBar is a console-style Wayland desktop written in Rust: a compositor, a
shell, an xdg-desktop-portal backend, helpers for game libraries, and an update
system with a coordinator process and a root worker. This directory holds TLA+
models of the parts whose order of steps matters most, the TLC runs that check
them on small instances, and proofs that TLAPS checks for every instance.

Paths below are relative to the repository; `service.rs`, `authorization.rs`
and so on without a directory are in `crates/lxb-updates/src/`.

## 1. Inventory

### The update system (`crates/lxb-updates`, client in `crates/lxb-desktop/src/updates.rs`)

| Part | State | Operations | What makes it correct |
| --- | --- | --- | --- |
| **Coordinator** (`service.rs`) | `State`: snapshot, cancel flag, persistence error, activity lock, transcript, terminal, events, threads; on disk `status.json`, `history.json`, `events.json`, `<job>.log` | requests Check, CancelCheck, Install, Restart, INPUT, Delivered, Acknowledge, Output; threads `check_job`, `install_job`, `restart`; start-up recovery; idle exit and replaced exit | every native operation is written down before it starts and starts once; what the desktop is told survives a crash truthfully; a cancelled check is never installed; ended attempts are kept; a power action and an installation exclude each other |
| **Power exclusion** (`protection.rs`, `service.rs:398-426`) | `activity.lock` (per user), `/run/linexinbar/updates.lock` (root) | the coordinator's shared lock, the worker's lock, the shell's exclusive permit | no permit while a tool writes to the machine |
| **Root worker** (`authorization.rs`) | one-use grant, list of consumed steps, the root lock, at most one tool; on the coordinator's side a `Session` | open (polkit), run a step, input, close, drop; forwarding of a tool's terminal | only granted steps, each at most once; never two root tools; authority ends with the channel, but never under a running tool; an answer is the answer to the step that was asked |
| **Journal** (`journal.rs`) | one capped log per job | append, read a chunk, rotate | a log exists as long as its job is retained; never above 16 MiB |
| **Prompt tracker** (`prompt.rs`) | the active and the answered question | observe a snapshot, answered | a question a tool waits with is in the queue until somebody answers it |
| **Discovery and policy** (`discovery.rs`, `policy.rs`, `preflight.rs`, `listing.rs`, `custom.rs`, `firmware.rs`, `proton.rs`) | none of its own | which tools exist, what they would update, in which steps | reviewed steps are those that run |
| **Releases** (`releases.rs`, `release_install.rs`) | a review per user, the installed tree, a record per project | check, build, merge, remove, record | the record tells the truth, whatever was cut short; nothing is left behind or taken back; configuration stays |
| **Desktop client** (`updates.rs` of the shell) | the last response, what was announced, the notes in the centre | polls, starts a coordinator when there is none, tells events, takes back obsolete ones, types answers | the end of a job is told; nothing is told twice; no note outlives its question |

The coordinator's main thread and its job threads share one mutex; each change
of the snapshot is one critical section with one atomic file replacement. It
talks to the root worker over an anonymous socket pair, to native package tools
over a pseudo-terminal, to the shell over a socket, and to the machine through
two lock files. Everything hard about it comes from that: requests are accepted
between two critical sections of a thread, a process may be killed between a
save and the act it announces, tools outlive the coordinator that started them,
and a channel can break on one side before the other.

### Beside it

| Part | State | Operations | What makes it correct |
| --- | --- | --- | --- |
| **Application sleep** (compositor, `sleep.rs`, `teardown.rs`, Close in `shell_control.rs`) | who is asleep with which processes, who refused, was shown, was asked to end; graces that run | a pass after every event, the shell's exemptions and hiding, close and kill, the shell's end, the session's | what is stopped is always continued; no signal leaves the session, and none reaches a process that only inherited a number |
| **Staying awake** (shell, `power_bus.rs`; portal, `inhibit.rs`) | cookies and their owners; requests and the cookies each has | Inhibit, UnInhibit, owner lost, start over; portal Inhibit, Close | an inhibition lasts until its owner lets go or leaves, no longer and no shorter |
| **Turns** (`lxb-steam`: `turns.rs`, `client.rs`, `setup.rs`, `webui.rs`) | a mutex and a file lock for each of three things; the debugging marker with its note and lease; the account list | wake, set up, install, sign out, give back, tidy | one at a time, never all waiting; a wake's marker is there when its client reads it and gone later; two writers of the list do not undo each other |

### The rest

| Part | What is hard there | Model |
| --- | --- | --- |
| Compositor: curtains, blackout, hand-over, idle | timers against late frames; what covers the screen when | none yet, the next candidate |
| Compositor: windows, input, rendering, outputs, HDR | protocol handlers over a library, GPU and DRM I/O, floating point | none: what is right is what is shown |
| Portal: screencast, file chooser | conversations with PipeWire and the shell | none |
| Steam: client, chat, account | the other side of the protocol is not in the repository | only the flows that take turns |
| Desktop: transfer, trash, archive | moves and copies that may fail half way | none yet, a candidate |
| Desktop: notifications, polkit agent, power menu, controller guard | timers and conversations with services | none yet, candidates |
| Desktop: menus, settings, drawing, libraries | single-threaded user interface | none |
| Heroic, Proton, RetroArch, RPCS3 helpers | parsing and installing, sequential | none |
| `third_party`, packaging, site | not the program's logic | none |

PROJECT.json lists every part with the reason it is or is not modelled, and
every hazard with its line and the properties that watch it. By far the most
lines of the repository are the shell's user interface (`main.rs`, `ui.rs`,
`settings.rs` of `lxb-desktop`), one thread that draws; the models are of the
few thousand lines where processes, threads, kills and files meet.

## 2. Plan

Done, in this order:

1. The coordinator with its surroundings: `UpdateJob` (the promise),
   `UpdateCoordinator` (the program), its instance and two proof modules.
2. The root worker's channel: `RootAuthority` (the promise) and
   `JobAuthorization`, the first implemented by the second.
   `UpdateCoordinator`'s variables `grant`, `linked` and its root tools are the
   abstraction of this module.
3. `UpdateEvents`: prompt tracker, event queue, delivery, the desktop client.
4. `Teardown` and `ApplicationSleep`.
5. `StayAwake` (the shell and the portal composed) and `SteamTurns`.
6. `ReleaseInstall`.
7. For every invariant and action property of a run that passes a theorem, and
   for both refinements (section 6).

Left, in the order of what they would add:

* the transcript's 16 MiB cap and its chunked reader (`journal.rs`);
* projects installed as packages (`release_install.rs`, one transaction of the
  package manager);
* the compositor's curtains and hand-over; transfer and trash; notifications.

## 3. The modules and the code

```
UpdateJob      <-- implemented by --  UpdateCoordinator  <-- MCUpdateCoordinator
                                        ^ UpdateCoordinator_proofs <- UpdateRecord_proofs
RootAuthority  <-- implemented by --  JobAuthorization   <-- MCJobAuthorization
                                        ^ JobAuthorization_proofs
UpdateEvents   <-- MCUpdateEvents       ^ UpdateEvents_proofs
Teardown <- ApplicationSleep          <-- MCApplicationSleep
                                        ^ ApplicationSleep_proofs
StayAwake      <-- MCStayAwake          ^ StayAwake_proofs
SteamTurns     <-- MCSteamTurns         ^ SteamTurns_proofs
ReleaseInstall <-- MCReleaseInstall     ^ ReleaseInstall_proofs
```

### `UpdateJob`

What the desktop may believe: the job it is told about, its phase, and the
native tools that were asked for and started. `Check`, `CheckEnds`, `Install`,
`AskTool`, `InstallEnds`, `Restart`, `RestartFails` are the steps of `enum Phase`;
`Interrupt`, `DropReview` and `MachineRestarted` are what the recovery at a
start (`service.rs:458-482`) may make of a job. `StartDue` and `DropDue` are the
root worker's, with the one tool (`due`) it was asked for: an order in its
socket cannot be taken back, so that this tool, and no other, may start after
its job was told ended.

### `UpdateCoordinator`

| State | In the code |
| --- | --- |
| `status`, `history`, `logs` | `status.json`, `history.json`, `<job>.log` |
| `up` | a process holds `coordinator.lock` |
| `snap`, `cancelCheck`, `perr`, `activity`, `transcript` | the fields of `State` |
| `thr` | `State::workers`: per thread the point it has reached, its job, the sources still to do, the step, and whether all went well |
| `tools`, `grant`, `linked`, `rootFile` | native tools alive; the root worker and its channel; `/run/linexinbar/updates.lock` |
| `sent` | a `Start` written to the channel that the worker has not yet served |
| `permit`, `permitRoot`, `boot` | the shell's `PowerPermit`; `boot_id` |
| `gone`, `asked`, `started`, `cancelled`, `faults`, `crashes` | history for the properties, counters for the bounds |

One action is one critical section of `Mutex<State>` together with the write of
`status.json` it makes (`change`, `service.rs:207-240`), so a request of the
desktop, a kill or another thread can come between any two of them. The stages
of a thread are the values of `thr[w].pc`:

* a check is `Launch`, `Query` or `StopQuery`, `Conclude`, `Publish` (`check_job`);
* an installation is `Launch`, `Prepare` (or `Refused`), `Begin`, then for every
  selected source, per step, `NextSource`, `Checkpoint`, `Spawn` (a tool of the
  coordinator's own) or `Ask` (a `Start` for the root worker), `Child`, `Reap`,
  or `Denied`; then `Stage`, `Result`; then `Close`, `Finish`, `Release`,
  `Notice`, `Archive`, `Recount` (`install_job`, `install_source`, `execute`,
  `transaction`, `archive`, `recount`);
* a restart is `Launch`, for dnf5 a tool like any other, `Reboots` or
  `RestartFails`.

The main thread is `Check`, `CancelCheck`, `Install`, `Restart`, `TakePermit`,
`DropPermit`, `IdleExit` and `ReplacedExit`; `Start` is `serve_with` up to its
loop, with the recovery of whatever the last coordinator left. The root worker
serves what it was asked (`Serve`), answers that it will not, or is killed before
it could (`Deny`), and leaves when its channel is lost and nothing is left in its
hands (`WorkerEnds`); it does the first two whether or not the coordinator that
asked is still there. `Crash` and `Reboot` may come at any moment. A write that
fails (`Change`), a thread that cannot be started and output that cannot be
recorded each cost one of `MaxFaults`; a kill and a lost channel each cost one
of `MaxCrashes`. The checkpoint on disk, the order to the worker, the start of
the tool and the save of its process are four different steps.

### `RootAuthority` and `JobAuthorization`

`RootAuthority` is what one polkit authorization is worth: hold the root lock,
try each granted step at most once and one after the other, give it all up for
good, and never under a tool that is alive.

`JobAuthorization` is the program: `session` is where the job's thread is in
`Session::open`, `run`, `close` and `execute`; `broken` and `terminal` are the
fields of `Session` and `State`; `worker` is where the root worker is in
`serve`, `serve_grant` and `forward`, with its `consumed` list, its `tool` and
`connected`; `requests` and `events` are the two directions of the socket pair.
`Attend`, `Ask`, `Hear`/`HearEnd`, `Settle` are one call of `execute`. `Input`
is the coordinator's main thread, which writes to the same stream and does not
know what the job's thread or the worker are doing. `Sent` and `Unsent`, `Told`
and `Untold` are a write that succeeds and one that fails or times out; a
request whose write timed out may or may not have arrived, which is why the
session is `broken` afterwards. A request torn in two by a typed line between
its small writes has the effect of the line arriving first: the worker's reader
finds something that is no request.

Frames and events carry the step they are about. The code's events do not: the
note is there for the properties to say whose answer an answer is, and no guard
reads it.

### `UpdateEvents`

The coordinator's half: `job`, `phase`, `child`, `output`, `secret` are the
snapshot as far as questions are concerned, `active` and `answered` the
tracker's, `queue` is `State::events` and `file` is `events.json`. `Change` is
`change()` (`service.rs:207`): it changes the snapshot, lets the tracker look
at it, queues the event of a new question and drops that of an old one (`Only`
keeps some events of a queue in their order), and saves; `Save` may fail after
or before it replaced the file. `Check`, `Install`, `BeginTool`, `Read`,
`Sample`, `Detach`, `Settle` and `Finish` are the steps of a job's thread and
of those that pump a tool's output and watch its echo; `Archive` files the job
and queues its end. `Receive` is the main thread with a request of the desktop:
a poll, a typed line (`Typed`), `Delivered` or `Acknowledge`, each with the
events that go back.

The shell's half: `sent` and `replies` are the worker that has one request
under way at a time and the answers the loop has not yet seen, `view` and
`pending` what the last answer said of the job and of the events, `notes` what
was announced, `listed` the notification centre. `Pass` is a turn of the
shell's loop: new events are announced, obsolete ones taken back, the next
request goes out. `Unanswered` is a request that times out, loses its
coordinator or finds none; it takes the answer, which is then no news, or the
request away. `Kill` and `ShellKilled` end either program at any moment.

A line of output is where it stands, what it asks, and whether an answer has
been echoed behind it. The tool is external: it asks, takes what was typed,
says something, ends.

### `Teardown` and `ApplicationSleep`

`Teardown` is what an application is, asked of one reading of `/proc`: the walk
from a window's process to the top of its application (`ApplicationRoot`), the
processes below it, what of them a sleep may stop (`Sleeping`) and a close may
end (`Ending`), and which of the processes once read are still the same
(`Reached`). `ApplicationSleep` has the state of `Sleepers` (`asleep`,
`refused`, `lastShown`, `ending`), the graces a close leaves running, the
windows, what the shell said plays or hides, and the processes of the machine.
The compositor handles one event at a time, so a handler is one action:
`Pass` (`refresh_application_sleep`, after every other event),
`KeepApplicationAwake`, `KeepOutOfSight`, `ShellGone`, `RequestWindowClose`,
`KillWindow`, `GraceOver`, `SessionEnds`. Between them processes `Fork`, `Exit`
and are given old numbers, and windows move.

### `StayAwake`

`held`, `next`, `left` are the shell's `Inhibitions` and the departures its
second thread has heard of; `request` is the portal's state per request, one
stage for every `await` of `inhibit.rs`; `got` is what other programs were
given. `Ask`/`Answer` are a program's call, `PortalAsked`, `PortalHolds`,
`PortalKeeps`, `PortalCannotKeep` the portal's `Inhibit`, `CloseArrives`,
`PortalReleases`, `PortalForgets` its `Close`. `ShellDies` and `ShellStarts`
replace the shell by one that counts from one again.

### `SteamTurns`

`pc`, `flow`, `goal` say where each thread of each session is; `local` and
`file` are the mutex and the `flock` of each of the three things. `TakeLocal`,
`TakeFile`, `DropFile`, `DropLocal` are `take` and the drop of a turn in the
order of its fields; `Try` is `take_if_free`. A wake is `Decide`, `Act`,
`Expose`, `WriteLease`, `WriteNote`, `Start`, `Watch`, `Withdraw`, `Unlease`,
`Unmark`; a setup is the same but for `Start`, which may return on the spot when
its launcher would not start (`setup.rs:265`); the edits of the account list are
`ReadList`, `ForgetClaim`, `WriteList`, `Claim`; the tidying of a start is
`Look`, `Try`, `Judge`, `TakeBack`, `Unnote`, `Forgotten`. `Kill` ends a session
wherever it is, with the file locks it held and nothing else undone. `Machine`
is what the state directory's locks are worth: they exclude, only pretend to,
fail, or cannot be made. With `Hands` people and Valve's client touch the files
as well.

### `ReleaseInstall`

`op` is the operation each user's last review offers; `file`, `beside` and
`record` are the machine: what is at every path, at its `.lxbnew`, and the
project's record. `Check` is a review, `Begin` the root helper's questions
asked again, `Stage` the build, `Meet`, `Place` and `Merged` the files one by
one, `Remove` what is no longer shipped, `WriteRecord` the end, `Fails` a
failure or a kill anywhere. A version is a number and the contents of a path
are the version they come from. `Links` are the paths a release has as symbolic
links, which the merge renames over whatever is there (`Put`), in `/etc` too; only
a staged file is compared with the configuration it meets (`AsConfig`, `Meet`).
`Stage` reads the record, or takes it for none when others than root could have
written it; a removal that fails is ignored. `hand`, `unrecorded` and `forgotten`
are history: the paths a person changed, those a helper changed that no record
speaks of, and those of the release before that a run with a record left behind.

## 4. The runs

| Run | Instance | Question |
| --- | --- | --- |
| `crash` | 2 jobs, 1 privileged source of 2 steps, 2 boots, dnf5's offline activation, 1 kill or lost channel, no other fault | is the desktop told the life of a job across kills (`ImplementsJob`); root tools apart from each other and from power actions (`RootExclusion`); a tool attended to has its job on disk (`EvidenceOnDisk`); no step twice (`StartedOnce`); cancelled stays cancelled; history well formed; a staged restart is not forgotten; stepping aside loses nothing |
| `live` | 1 job over an unprivileged and a privileged source, 1 fault, 1 kill or lost channel, fairness | every job ends (`JobEnds`) |
| `channel` | 3 requests for 2 granted steps and 1 other, 2 typed lines, 2 faults, fairness | answers are to their question, only typed lines reach a tool, `Closed` comes after the release, the promise is implemented; a step is answered and the worker leaves |
| `sleep` | 4 process tables of up to 3 processes: a launcher with two windows, a guest of another login, Steam with a title, Steam from a terminal | what is stopped is remembered and continued; who may be signalled at all |
| `awake` | 2 programs, 1 request of the portal, 2 shells, fairness | the portal's account with the shell, stranded requests excepted; an inhibition is held until released; a close is carried out |
| `turns` | 2 sessions with 3 threads, any 2 of online wake, offline wake, setup and sign-out, a kill of each, locks that exclude, fairness | exclusion, the marker and that each wake takes back its own, the account list, and that every turn comes |
| `mutex_only` | 2 sessions with 3 threads, file locks that fail, other hands at the files; any 2 of all the flows | exclusion within a process, where the mutex is all there is |
| `releases` | 2 users, 2 components, 3 releases, 2 changes by hand, 2 faults | what the record is worth, what is offered, nothing left behind or taken back, configuration stays |
| `events` | a queue of 1 place, 2 jobs, 1 tool with 2 questions, 1 line typed, 1 trouble, fairness | questions and ends are told, once, and taken back |
| `lock_race`, `late_start`, `sleep_seen` | the smallest instance that shows it | one statement of the repository each, which the code does not keep (section 7) |

Every property of a passing run has a mutant in PROJECT.json: a definition
changed the way a plausible mistake in the code would change it, with which TLC
finds the property violated.

### Bounds, and why they are enough

* **Jobs: 2.** The races between jobs are between one and the next: the thread
  of the first is filing or releasing while the second is checked or installed.
  A third finds the same states. `HistoryKept = 1` instead of 3 makes the
  second job already push the first out of the history, with its log.
* **Threads: 2.** One that is winding down and one at work.
* **Steps: 2** in `crash`, to have a kill between the steps of a source; 1
  elsewhere. **Sources: 2** in `live`, the second of them privileged, so that a
  job goes through both kinds; 1 elsewhere, privileged in `crash` and
  `late_start`, not in `lock_race`, where a worker's lock would hide the race.
  The theorems of section 6 hold for any number.
* **Kills and lost channels: 1, faults: 1.** A second kill would hit a
  coordinator that has just recovered and saved what it recovered; the theorems
  about root exclusion, the record on disk and the stream have no bound on
  either, and allow failed writes together with kills, which `crash` does not.
* `crash` has no faults because of what a failed save means: the write may have
  replaced the file before it failed (`atomic`, `service.rs:90-105`), and then
  the next coordinator finds a check under way that this one never admitted,
  which `UpdateJob` does not promise to exclude.
* `live` has one job: what must end is a job, and more jobs only put requests of
  the desktop, which nothing obliges anybody to make, between them.
* **`channel`: 3 requests** allow an answer to arrive one and two requests late;
  2 typed lines, one on each side of a tool's end; 2 faults, a lost write and a
  kill.
* **`sleep`: tables.** Each has one of the shapes the code makes a case of: two
  windows in one tree, another login's window, an interface that is its
  supervisor's, a supervisor that was started from something else. Start times
  run to 1, so that a number is handed out twice.
* **`awake`:** 3 cookies and 2 shells, so that a cookie of the second shell has
  the number one of the first gave to somebody else.
* **`turns`, `mutex_only`:** one session has a second thread, so that mutex and
  file are both contended. Two flows at a time are what every race here is
  between, besides the tidying of each session that is started again after a
  kill (`turns`). Giving Offline Mode back, another writer of the list, and the
  wizard are in `mutex_only`, which has no kill: what a kill leaves behind is
  files and file locks, which exclude nobody there. The theorems have all.
* **`releases`:** three releases, because a file can be dropped by one and
  configuration brought back by the next; the first is a pre-release of the
  second, whose programs answer with the same version; the second has as a link
  what the others have as a file of configuration.
* **`events`:** one place in the queue instead of 32, so that two events
  already overflow it. One trouble, a kill, a failed save or a request that
  times out, anywhere. `MaxSpent` lets an execution have a second job or a
  typed line, not both: a line is typed for a question of a tool, and a second
  job begins with neither.

Job threads, granted steps, sessions and users are interchangeable, which
`SYMMETRY` uses in the runs without liveness properties. Deadlock is checked
where a system always has a next step: a coordinator can be started again, a
finished authorization stutters (`Over`), a helper can be run again, other hands
can touch a file again (`mutex_only`). It is not in `sleep` and `sleep_seen`,
where the session ends; nor in `awake`, `turns` and `events`, where everything
that was to be asked has been asked and everybody may be at rest.
`EveryTurnComes` is what says of the turns that this rest is not a deadlock.

## 5. Fairness

Nothing obliges the desktop to ask, the machine to restart, a write to fail or
anyone to be killed: those actions have no fairness. Weak fairness is assumed of

* each job thread (`Runs(w)`): the operating system schedules it, and it holds
  the mutex only for one section at a time, so it is not kept out for good;
* native tools of the coordinator (`ToolExits`): the code never kills a package
  writer and waits as long as it takes, so that a job ends *because* its tool
  does is the most that can be said;
* the root worker (`Serve` or `Deny`, `WorkerEnds`; `WorkerRuns`), which reads
  its next request when it has none in hand, polls every 100 ms while a tool
  runs, and reads the end of its stream when the session is gone;
* the session's thread (`SessionRuns`), which is blocked in a read that returns
  with a frame or the end of the stream;
* in `StayAwake` each request's task (`PortalStep`), and the shell's supervisor,
  which starts it again;
* in `SteamTurns` each thread, which is blocked in a mutex, a `flock` or a wait
  that has a timeout. Weak fairness does not promise a mutex under endless
  contention; the flows asked for are bounded, so that the property is about
  waiting in a circle and not about being overtaken;
* in `UpdateEvents` the shell's loop, which turns and polls by itself; its worker,
  which starts a coordinator when there is none (`Start`); the coordinator's
  main thread (`Receive`) and its threads' filing (`Archive`). Tools and
  persons have none: nothing makes them ask, answer or end.

Opening an authorization waits for polkit; `WorkerRuns` includes its answer,
which a person may take long to give. The code bounds that wait at 180 s.

## 6. What is proved

All theorems hold for every value of the constants that satisfies the named
assumptions: sources are positive numbers and the system is one of them
(`SourceAssumption`), a staged update is activated normally or by dnf5
(`StagedAssumption`), granted steps are steps and `NoStep` is none
(`GrantAssumption`), bounds are natural numbers (`BoundAssumption`); processes
are not init and not the session's (`TeardownAssumption`); a name, a lease or a
marker is not nobody's (`NoneAssumption`); releases ship paths
(`ReleaseAssumption`); the event queue has a place (`EventsAssumption`). Kills
and faults are in all of them.

The process tables that a run of the sleep starts from are a constant, and
`TableAssumption` says of them what a kernel guarantees: a parent runs or is
init; another login's processes and the session's own descend from no process
of ours, and a group that one of ours leads has only ours in it (`TableOf`);
processes were started one after the other, a parent before its child
(`Ordered`), and none in the future. TLC evaluates it for the tables of the runs.

**Types** (`TypeCorrect` of six modules, `ChannelTypes`). A type invariant is
proved and in no run. One lemma per kind of helper (what a
thread, a snapshot, a frame looks like after it), then one case per action.

**Root exclusion** (`Exclusion`, `RootToolsBlockPower`, `NeverTwoRootTools`). That
two root tools are never alive together is not inductive: nothing in it says why
`Spawn` finds none. `RootExclusion` adds the reason. While the phase is busy no
new job is accepted, so exactly one thread is in the middle of the job
(`OwnerHoldsJob`, `OneOwner`), and as long as the channel to the root worker
holds, a root tool is the one that thread waits for, and so is the one that the
worker was asked for and has not started (`RootToolAwaited`). Once the channel is
lost nobody asks for another root tool, but one that was asked for may still be
started, when its job has been told ended and the next one is being checked. It
is the only one (`OneRootToolAlive` counts it with those that run), and no new
worker gets the root lock before the old one has served or dropped it and seen
its tool end (`LinkHasWorker`). A power
permit with the root lock is only given while no worker has it
(`WorkerHoldsLock`). `JobNamed` is there because job 0 is no job.

**Authority** (`Authority`): `JobAuthorization` implements `RootAuthority`, by
`WorkerHolds`: the worker has the lock exactly while it serves, refuses or runs,
a tool is alive only while it runs, and what it runs has been consumed. With it,
`ReleasedFirst`: only a worker that leaves says `Closed` (`ClosedTold`), so a session
that reads it knows the root lock to be free and no tool alive.

**Answers and typed lines** (`Stream`, `AnswersAreToTheirQuestion`,
`ToolsReadTypedLines`). Events name no step, so that an answer belongs to the
question follows only from counting: `StreamInvariant` says that at most one
request is in the stream, none while the worker has a step in hand
(`OneRequest`, `BusyWithOne`), that an unbroken session between two calls has
nothing to read and a worker that is at rest (`NothingPending`), and that while
it waits everything in either direction is about the step it asked for
(`AskedOfWorker`, `OnlyItsRequest`, `OnlyItsEvents`). It is because a session is
broken after the first failed write, and never finished or asked again, that
this survives loss; the mutant that forgets it violates it.

**What is on disk** (`Evidence`, `CancelKept`, `NeverTwice`,
`RestartKept`, in `UpdateRecord_proofs`). All four say that memory, disk and
the machine agree about tools, and none is inductive: `StartedOnce` for
instance is about a step of a thread, and what excludes it is where that thread
is. `Record` ties the three together. `PartTold`: the phase is that of what the
one thread in the middle of the job does. `ToolAnnounced`: from its checkpoint
to its end, `status.json` names the job and the phase; this is where the order
of the code, save first and start then, is used, and it survives failed saves
because a persistence error keeps any further tool from starting. `DiskAhead`
says what else may be on disk: a save that failed after it had replaced the
file. `CancelTold` and `StartTold` keep a cancelled job and one that ran a tool
away from every phase that leads to an installation, in memory and in whatever
the next coordinator loads. `TriedInOrder`: the tools asked for so far are of
sources the thread is through with, and of earlier steps of the present one. That
the worker, which may start its tool long after, does not start one twice is
`SentIsNew`: what it still has to serve was never started.

**The promise to the desktop** (`Refinement`, `RefinementIfSaved`, `LeavesClean`).
`UpdateCoordinator` implements `UpdateJob`. A step of the coordinator that
lives maps to a step of the job or to none by `Record`, one of the worker to
`StartDue` or `DropDue`, whatever the job is told to be by then; what is hard is the
step from memory to disk and back, a kill and the next start, in which what is
told is first the snapshot and then the file. `Saved` says that both tell of
the same job in the same phase, but for a check that was concluded and not yet
saved. It is kept as long as no fault occurs, which `Refinement` assumes
because without it the statement is false (section 4, `crash`). Less is
enough: `RefinementIfSaved` only asks for `Saved` at the moments when a
coordinator ends, whatever failed before. `LeavesClean` comes from the same
invariant and from every open transcript having the thread that will file it
(`TranscriptHasThread`).

**History** (`HistoryKeptWell`). That a job is filed behind all others needs that
only jobs up to the present one are, in memory and on disk (`HistoryPast`), and
that who files is the job's thread or a start (`Carried` and `Record`). Here any
save may fail.

**Sleep** (`Remembered`, `NoneStaysStopped`). `StoppedIsRemembered` is inductive
with `OnlySignalledStop`, what is stopped runs and may be signalled, so that the
SIGCONT for a remembered process reaches it; and a session that has ended
remembers nobody.

**Whom a signal reaches** (`SignalsOurOwn`, `SupervisorSpared`, `RecycledLeft`,
`StoppedWhenHidden`). The code decides by walking up from a window's process
and down again. `OwnInvariant` says that the table stays one that a kernel may
have, through every fork, exit and number given out again, and that what is
stopped or awaits the end of a grace is ours. That the walk up ends, and ends
below the session, is an induction over the processes in the order they were
started; what may then be signalled hangs below its end, so that none of it is
the shell, the compositor or another login's. A number given out again has a
later start than the process a grace remembers.

**Staying awake** (`AccountKept`, `HeldUntil`). A release names a number, not an
owner, so that nobody's inhibition ends by another's release follows from
counting: no cookie held is ahead of the counter (`HeldCounted`), and whoever
was given a number by the shell that runs owns what it stands for
(`GotMatches`, `MineMatches`). A number of an earlier shell matches by chance
only, which is the exception in the property. `AccountKept` says that each
cookie of the portal is on the account of a request, and that a close can still
let that request go unless it is `Stranded`: its object could not be exported, or
its close came before there was one. The code keeps no promise about those, and
neither does the theorem (section 7).

**Turns** (`TurnsExclude`, `ClientFindsItsMarker`, `WakesTakeBackTheirOwn`,
`EditsKeepToTheirField`, `NobodyWaitsInACircle`). Exclusion from who holds which
lock at which point of which flow, for every kind of machine; the others, for
machines whose locks exclude and files nobody else touches, from what a wake
inside its turn knows of marker, lease and list. `WakesTakeBackTheirOwn` excepts
the setup whose launcher would not start, which gives up its turn with the
marker in place (section 7). `TidyingSpares` needs the locks only: whoever else
edits the files, a start that tidies up takes the client's turn first, so that
no client which somebody has started loses its marker to it. That nobody waits
in a circle holds on every machine: every turn that is taken belongs to a thread
that is where it has it (`Owned`, the converse of what exclusion needs), and
turns are waited for in one order, the process's mutex, the file's lock, the
list's mutex and the list's file. So whoever holds the last one in which
somebody waits, waits for none.

**Releases** (`Truth`, `NoneOrphaned`, `InterruptedOffered`, `NeverTakenBack`,
`ConfigurationKept`). While a helper is at work the truth of the record rests on
the record it read being the one that is there, or none, and on what it has
merged so far being of its release (`Underway`), and while it removes, on
everything neither merged nor still to be removed having been tried (`Removing`).
That the helper takes nothing back needs that it asks again, as root, what the
review knew, and of what no record lists any more, because it could not be
removed or the record was not trusted, that it is of no release after the
recorded one (`Outdated`).

**Questions and events** (`TracksItsQuestion`, `RingsOnceOnly`,
`OwedStaysOnDisk`). All relate what
the coordinator has in memory and on disk with what a shell knows from replies
that may be several steps old, and none is inductive.

A question that a tool waits with is the tracker's: `Following` ties the
question on screen, the line last read and the question last answered together,
position by position. The tracker's question is in the queue or was put away
(`TheQuestion`), for only the shell takes a question from the queue. And what
the shell takes back was put away by the person, or no longer waits (`Acks`).

The last, and that nothing rings twice, follow from one fact about an event and
the replies a shell has still to read (`Goes`): when some reply does not show
the event any more, it no longer waits to be told, and no later reply shows it.
No invariant about the present state says this of all events; it is true of an
event from the first reply that lists it (`SeenGoes`), and so, once it was
announced, from now on (`ToldGoes`). An event that is marked as shown while a
reply from before the mark is still unread needs a clause of its own
(`MarkedGoes`), or a shell that replaces a killed one would ring for what the
disk has as shown. Behind `Goes` stands that an event that does not wait never
waits again (`WaitsNever`): numbers are not reused (`KnownAll`), a queue on its
way to disk loses no end of a job but by being pushed out (`OnDisk`), and marks
are not taken back (`MarksKept`). Exempt are the ends of jobs that were pushed
out of a full queue or filed twice; both exceptions are in the property.

That an end which is owed stays on disk (`OwedOnDisk`) needs the other
direction: what is owed is in no acknowledgement, of this shell or on its way,
and known to no shell (`OwedIsUntold`), and between two saves a queue loses no
end but by being pushed out (`EndsSavedBut`).

**Waiting** (`SomebodyAnswers`, `LockHasItsThread`, with `NobodyWaitsInACircle`
and `OwedStaysOnDisk` above). The liveness properties are not proved, but the
way in which interleavings would break them is excluded for every value of the
constants: a state in which something is waited for and nobody is left to bring it. A Session
in `open` has a worker that polkit may still admit, one in `run` a worker that
has the step, is still to find it, or has answered, and one in `close` a worker
that leaves or is still to find that it should (`NobodyStranded`). This needs
`StreamInvariant`: a worker with a step in hand reads no request as a typed line,
and finds none that was meant for another call. The activity lock, while it is
held, has a thread with an installation in hand (`LockIsInUse`). Its converse is
false: that is the finding of `lock_race`.

**Only model-checked.** Liveness: `JobEnds`, `StepAnswered`, `WorkerLeaves`,
`KeptIsReleased`, `EveryTurnComes`, `FinishedIsTold` and `NoObsoletePrompt`;
fairness and `ENABLED` are beyond the prover. Of `JobEnds`, `StepAnswered`,
`EveryTurnComes` and `FinishedIsTold` the safety half is proved (**Waiting**);
that the one who is there goes on is fairness and stays with TLC. So are `RECURSIVE` operators
(there are none here) and the library's induction theorems, which take an
operator as a parameter. Induction itself is not: where a proof needs it, over
the processes of a table or the places of a queue, it is stated for sets
(`SetInduction`, from the least number of a set of numbers), which the provers
can instantiate. The three runs that expect a violation have no theorem.

## 7. Where the code differs from what it says

Three runs find what the repository says violated:

| Run | The statement | What happens |
| --- | --- | --- |
| `lock_race` | `tests/coordinator.rs:381`: no power action while a tool writes | a thread's late `activity = None` drops the next installation's lock; its tool, which needs no root worker, runs, and the permit is granted |
| `late_start` | `docs/updates.md:703`: "connection loss starts no further privileged operations" | a `Start` written before the coordinator was killed is still in the socket; the root worker serves it, and a privileged tool starts after the loss |
| `sleep_seen` | `sleep.rs:46-48`: a tree with a window somebody looks at is not stopped | a tree is stopped for a hidden window; when another of its windows comes on screen, the first is still hidden and the tree stays stopped |

The models also take the steps below. They follow from the code, and the
properties above are stated around them; no run of its own is spent on them.

*The coordinator.*

* A Check accepted between an outcome and its filing is what gets filed, and
  the attempt that ended is in no history.
* The idle exit does not ask for threads, so it can come between an outcome and
  its filing; so can a kill, and the next coordinator files only what it finds
  Running. Such a job is not told of either.
* A kill between a tool's start and the save of its process leaves an
  unprivileged tool no journal names; a Check is then accepted beside it.
* By the time of such a late start the next coordinator may have told the job
  as Interrupted, and a check may be under way. The promise to the desktop
  (`UpdateJob`) is stated around it: an end that was told is the end of what is
  asked for, not of what is written. What holds all the same is that it is one
  tool at most, that it is in the grant and was never started before
  (`StartedOnce`), and that the worker keeps its lock meanwhile, against power
  actions and other workers (`RootExclusion`).

*The channel.*

* After the session is lost its worker may take one further step, the one
  already in the stream. `RootAuthority` allows it, and does not say that it is
  at most one: that is `OneRequest`, in the invariant of the theorem `Stream`.
* A line typed while no tool reads ends the root worker and all later
  privileged steps of the job. This needs no failure. Safety is not touched:
  the session is broken and says so.

*Questions and events.*

* A password asked for again before anything else was read is not told again:
  the question is only the process (`Secret`), although a comment in `prompt.rs`
  says that repeated questions after a response get a new event.
* The late filing of a previous job files the new one's event, clears its
  attention events, and files it a second time later: it may be told twice.
* An answer goes to whatever the tool asks by the time it arrives.
* An attention event may push an untold final one out of a full queue.

*Sleep.* What spares an application is asked of the process of the hidden
window; its tree is stopped with what the shell spared or a Close asked to end.

*Staying awake.* A Close that arrives before the request's object is exported
finds nothing, and an object that cannot be exported leaves nothing to close: in
both cases the shell holds what was taken for the request until the portal's
backend leaves the bus. In the second the log says "the request could not be
kept, so nothing is held" (`inhibit.rs:94`), which is not so.
`PortalKeepsAccount` excepts these requests as `Stranded`. Who leaves before the
shell's match rule is in place is never forgotten. A program that outlived a
shell may release another's cookie.

*Turns.* Whose the marker is is read before the turn, or when the panel is
raised, and acted on later; with other hands at the files, and on machines
whose locks do not exclude, a note, an offer or a choice can be stale by then.
A session that dies between making the marker and its note leaves one nobody
takes back. A setup whose launcher would not start returns at once
(`setup.rs:265`), before it would withdraw its marker: marker, note and lease
stay, and because the process that holds the lease lives, nobody else tidies
them up until it ends. The comment below it (`setup.rs:271-273`) says "Whatever
happened" of the withdrawal.

*Releases.* A first update that had no record to start from is not offered
again after it was cut short; what it had merged is in no record. A component
that was put in by hand between check and update is merged over. A build newer
than any release "is never taken back to the release" (`docs/updates.md:228`):
true of one that answers for itself, not of one that a person put over an
installation with a record, which is compared by the record's tag and may be
merged over by a release between the two; `NothingTakenBack` is about what the
updater installed. A file that could not be removed (`release_install.rs:446`,
whose error nobody sees) or was listed in a record that others than root could
have written (`release_install.rs:426`) stays and is in no later record, so that
no later update removes it; `NoOrphans` excepts both as `forgotten`. "A file in
`/etc` that differs from the new one is kept" (`docs/updates.md:271`) holds for
files: a staged link is renamed over whatever is there
(`release_install.rs:513-521`), before anything is compared; and a link in `/etc`
that leads nowhere counts as no file (`exists`, `release_install.rs:523`).

## 8. What is left out of the modelled parts

* **`UpdateCoordinator`**: the contents of reviews and grants, wording, notices,
  progress, preferences. Process ids: a tool is its (job, source, step), so that
  a recorded id is never another process's. The user flatpaks and other
  unprivileged tools have the same stages as the privileged ones without the
  channel; two privileged sources differ in nothing the model looks at.
* **`JobAuthorization`**: `Output`, `Echo` and `CustomResult` events, which
  change no control. The session's own copy of the root lock's descriptor, which
  can only keep the lock longer than the worker does. A failing `waitpid` in
  `forward`, and I/O errors other than a failed write.
* **`UpdateEvents`**: the wording of questions; that a reply is composed in a
  second critical section after the request was carried out; the idle exit,
  which is a kill at a moment when nothing is under way; the 500 ms for which a
  tool's last output is waited for.
* **`ApplicationSleep`**: the display option `seen_anyway` and the blackout,
  which only change which windows are shown; what a recipe does to end an
  application that is not ended by signals.
* **`StayAwake`**: reasons and names; what the shell does with the answer.
* **`SteamTurns`**: what the client, the wizard and Valve do, other than read
  the marker, exit and edit the list.
* **`ReleaseInstall`**: download and signature, the build itself, projects
  installed as packages, parsing of versions, and a build into a home
  directory, which has no `/etc` and one user.

PROJECT.json lists the parts of the system without a model and the reason.
