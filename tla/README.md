# plugkill, verified

A TLA+ development kept beside [plugkill](../src/README.md), a daemon that powers a
machine off when its hardware changes unexpectedly: a USB stick appears, a Thunderbolt
dock or SD card is swapped, a PCI device or monitor turns up, the charger, a network link
or the lid is pulled. Around the daemon there are a relay, which tells other machines to do
the same, and a desktop program with a tray icon, a dashboard and a settings window.

None of these programs is large, but nearly everything in them is shared between threads or
machines, and most of it is acted on some time after it was read. The specifications are
about that: which interleavings of threads, messages, device events, failures and people can
make the daemon blind, make it kill for nothing, accept what nobody accepted, lose a kill on
its way, leave something behind on the disk, or show a person something that is not so.

Source references are to `src/`; `PROJECT.json` maps every definition to the lines it
stands for.

## 1. Inventory

| Component | State | Operations | Talks to |
|---|---|---|---|
| Poll loop (`crates/plugkill/src/main.rs`) | per-iteration locals `now`, `is_armed`, `needs_rebaseline`, `remote_kill`, the violation found | start, drain flags, re-baseline, reload, checks, admit, record, handle | state mutex, config and baseline `RwLock`s, device enumeration, kill sequence |
| Shared state (`daemon_state.rs`, `plugkill-core/allowances.rs`, `state.rs`) | armed, mode, disarm deadline, pending flags, allowances, pairing window, violation history, counters, grace start times, baselines | `record_violation`, `is_disarm_expired`, `admit_paired`, `sweep`, add, remove | written by the loop and by every socket thread |
| Control socket (`socket.rs`) | one thread per connection | disarm, arm, learn, enforce, reload, pair, allow_last, revoke, revoke_all, kill; status, devices, violations | the three locks; polkit (`authz.rs`); flags the loop drains |
| Device buses (`usb.rs`, `thunderbolt.rs`, `sdcard.rs`, `pci.rs`, `display.rs`, `sysfs.rs`) | snapshots | enumerate entry by entry, `detect_changes` | sysfs, devctl |
| Event buses (`power.rs`, `network.rs`, `lid.rs`) | baseline reading, time a condition was first seen, last reported text | read, check with a policy and a grace period | sysfs, logind |
| Kill sequence (`kill.rs`) | none | shred, commands, sync, swap wipe, melt, power off | the file system, child processes |
| Configuration (`config.rs`, `config/emit.rs`) | file, live `Config` | load, validate and clamp, override from the command line, emit | loop, settings window |
| Authorization (`authz.rs`) | none | find the session of a peer, ask polkit about it | socket threads, system bus |
| Relay mesh (`plugkill-relay`) | replay cache, peers, key | listen, acknowledge, fan out, trigger the local kill | other relays over UDP, the daemon over its socket |
| Relay watcher (`watcher.rs`) | last counter seen | poll status, fan out on a rise | daemon socket, sender |
| Tray and dashboard (`plugkill-gui`) | last status, notice and its age, open windows, queues between three threads | poll, draw, send commands | daemon socket |
| Settings window (`plugkill-gui/src/settings`) | the configuration as loaded and as edited, the lists drawn | load, edit, cover, expand, copy out | the file, the poller's updates, the person |
| IPC client, CLI, monitor identity, packaging | none | see `PROJECT.json` | |

How they interact. The loop wakes every `poll_interval`, takes the state mutex once to end
an expired disarm and drain the flags the socket threads left, and releases it. It may then
re-capture the baselines, reload the configuration, and run the checks one by one, each
under its own short locks. A finding goes through the pairing window, into the history, and
to the mode decision, again under separate acquisitions of the mutex. A socket thread may
run a handler between any two of these. A handler that needs authentication asks polkit
first, with no lock held, and a person may take any time to answer. The relay and the tray
are clients of the socket: each polls `status`, and the relay sends `kill`.

What is hard, and therefore what the properties are for (the full list, each at its line, is
`hazards` in `PROJECT.json`):

- *Stale reads.* A decision uses a flag, a clock, a baseline, a pid, a status or a drawn row
  that was read several steps earlier.
- *Two sides of a comparison.* An allowance changes what a check reads, what a capture stores,
  or both; where the two disagree the daemon kills with no hardware change.
- *Sequences.* Disarm, arm, reload, pair, allow and expiry in any order must neither leave the
  daemon disarmed for ever nor let a device slip into a baseline.
- *Partial failure.* Any enumeration, read, reload, file, command, packet or bus call may fail,
  and so may the power-off.
- *A world that changes under a walk*, over sysfs or over a tree of files.
- *Waiting*: three locks, prompts that last two minutes, relays that wait for each other.
- *Delivery*: lost, doubled, delayed and reordered packets; requests made during requests.

What makes each component correct:

- Poll loop: a check never uses a baseline from before a disarm; a bus under guard is never
  silently dropped; what stays wrong is acted on; a kill that was accepted is run.
- Shared state: disarmed exactly while there is a bounded deadline; the history is capped, with
  what was just reported on top, and a standing condition does not fill it alone; an allowed
  device is taken into no baseline.
- Socket and authorization: a client who cannot authenticate weakens nothing; polkit is asked
  about the caller; nobody who asks stops the loop or anybody else's answer.
- Buses: what was there throughout a reading is in it; nothing is reported when nothing
  changed; an allowance hides its own device and no other; a countdown is kept and respected.
- Configuration: a reload is served and accepts no device; the window emits what was edited.
- Kill sequence: whatever fails, everything named is destroyed, on the disk and in the right
  order, nothing is touched that it does not lead to, and the sequence ends.
- Relay: a kill that is heard is acted on, once, and brings the machine down unless its daemon
  spares it; it spreads along peers only.
- Desktop: a click is one command; what is on screen becomes, and stays, what is so.

## 2. Modules

```
DeviceBuses ─┬─ DaemonState ─┬─ ControlSocket ─┐
             │               └─ EventBuses ────┴─ PlugkillDaemon ── DaemonProperties ── MCPlugkillDaemon
             │                                                        │  ▲ INSTANCE DisarmWindow
             │                                                        └─ DaemonProofs ── DaemonBaselineProofs
             └─ Enumeration ── EnumerationProperties ─┬─ MCEnumeration
                                                      └─ EnumerationProofs

SocketThreads ── SocketProperties ─┬─ MCSocketThreads     KillSequence ── KillProperties ─┬─ MCKillSequence
                                   └─ SocketProofs                                        └─ KillProofs
RelayMesh ── RelayProperties ─┬─ MCRelayMesh              SettingsEditor ── SettingsProperties ─┬─ MCSettingsEditor
           ▲ INSTANCE         └─ RelayProofs                                                    └─ SettingsProofs
           KillSpread
Desktop ── DesktopProperties ─┬─ MCDesktop
                              └─ DesktopProofs
```

`X` is a component, `XProperties` states what it has to keep true, `MCX` gives TLC small
instances of it, and `…Proofs` is for TLAPS. Definitions named `X_Y` next to a definition `X`
are broken variants of it, kept to show that the property that guards `X` can tell the
difference. Nothing uses them.

### The daemon

**DeviceBuses** is pure: the snapshot types and, for each bus, which changes
`detect_changes` can report against a baseline, and what an allowance does to either side
(`UsbWhitelist`, `SkipAllowedUsb`, `HideAllowedDisplays`). USB is a count per vendor and
product id; Thunderbolt, SD card and PCI are sets; a display snapshot is a function from
connectors to a monitor, `off`, or not listed. The code returns the *first* change of an
iteration over a hash map, so each comparison gives a set and the caller picks any member.

**DaemonState** declares the state the threads share, and translates `DaemonState`'s own
methods and the allowance table. Times are integers; `None` stands for Rust's `None`.
The violation counter wraps at `LOG_WRAP` (2^64 in the code).

**ControlSocket** has one operator per handler. A request that asks polkit is two steps,
`Authorize` and `RunAuthorized`, as the code holds no lock while it asks. A refused request
is no step.

**EventBuses** has the power, network and lid checks. Each is split into the disjunct that
returns quietly (with whatever it does to timers and baseline) and the one that fires.

**PlugkillDaemon** composes them. `pc` names the critical section the loop is about to
enter; each action is one of them:

| Action | Code | |
|---|---|---|
| `Start` | `main.rs:376-665` | load, first capture of every bus; no start without a USB baseline |
| `PollTop` | `main.rs:683-721` | expiry of a disarm, sweep, drain of the flags, the poll's clock reading |
| `Rebaseline` | `main.rs:723-728` | capture of every watched bus |
| `TakeReload`, `Load`, `Recapture` | `main.rs:730-784` | the flag, the file, the buses that have no baseline |
| `DrainKill`, `SkipChecks` | `main.rs:788-796`, `876-893` | a queued kill first, then the armed flag |
| `DetectViolations` | `main.rs:926-1033` | USB, Thunderbolt, SD card, each of which may fail to enumerate |
| `CheckPower` … `CheckDisplay` | `main.rs:1151-1583` | one step per bus that is watched and has a baseline |
| `AdmitPaired`, `Keep` | `daemon_state.rs:201-231`, `main.rs:895-921` | the pairing window |
| `RecordViolation`, `HandleViolation` | `main.rs:824-827`, `1585-1605` | history, mode |
| `KillReturns`, `PowerOff`, `ShutdownFails` | `main.rs:828-843`, `kill.rs` | the ends of a kill: the patrol goes on after a dry run, and after a power-off command that only said it went well; the machine is off; the process exits |
| `Client`, `Serve` | `socket.rs` | a request arrives; an authorized one runs |
| `Tick`, `ChangeHardware`, `EditFile`, `Crash` | external | the clock, the devices, the administrator, the operating system |

The steps of the poll that lock nothing shared are merged with their neighbours. A check
that returns at once (bus off, or no baseline) has no step: only the loop writes what makes
it so. `stale` is a history variable: TRUE from a disarm to the capture after the re-arm.

**DisarmWindow** is the abstract specification of arming: three phases and what is accepted
on each bus. While the machine is *guarding*, acceptance on a bus may only be narrowed, begin
or end with the bus being watched, or follow the reading of a bus some configuration only
monitors. Anything may be accepted while the window is *open*, or in the *settling* that
follows it or a start. `DaemonProperties` holds the refinement mapping (`Phase`, `Window`).

### What the daemon is made of

Three modules open up what `PlugkillDaemon` takes as one step.

**Enumeration** walks one bus. `Open` lists the directory, `Visit` goes to the next entry,
`ReadAttribute`, `ReadFails` and `ReadRefused` read one attribute of it in the order the code
reads them, `Take` keeps or skips the entry, and `Finish` makes the snapshot, while `Plug`,
`Unplug` and `Chmod` change the entries in between. A walk is made for a baseline, a check or a
whitelist that a listing generates; `Changes` compares a check's snapshot with the baseline by
the comparisons of `DeviceBuses`. Eleven readings are walked: five device buses on Linux,
`usb`, `sdcard` and `network` on FreeBSD, network links, power supplies, and logind's sessions
with their lock hints. `disturbed` is a history variable: the entries that changed, or were
misread, since each walk began. `IdOf` says what an entry that shows some values is; no walk
reads it, the properties and `ContentAssumption` do.

**SocketThreads** has the locks: `config` and `baselines`, which are `RwLock`s whose readers
queue behind a waiting writer, and the state mutex. A *program* is the sequence of
acquisitions and releases of one handler or one part of a poll (`StatusLocks`, `CaptureLocks`,
`DetectLocks` …), written from the scopes of the guards in the source; `LockStep` runs one
operation of one thread. `Demand`, `Ask`, `BusAnswers` and `BusTimesOut` are the conversation
with logind and polkit behind a verdict, call by call (`authz.rs`), including a pid that was
given to somebody else and the way over the display session.

**KillSequence** is `execute_kill_sequence` over a tree of files with links, a page cache and
a disk. It begins with the entry in the program's log, which makes the log anew where it was
gone. A file is opened, overwritten pass by pass with an fsync after each, and unlinked; a
directory is walked with an explicit stack in any order of entries; each of these may fail,
and a failure is logged and left behind. A directory whose listing breaks off is left with what it
had yet to return (`EndListing`). Commands may hang and are killed at their timeout.
Sync, swapoff, the overwriting of swap, the melt and the power-off follow. Without `sync`, what
is not flushed is still `intact` on the disk when the power goes.

### The programs around it

**RelayMesh** has the relays of a set of machines: per node a listener, a watcher and possibly
a `--trigger`, each of which may be in a `fan_out` (`FanOut`, `SendToPeers`, `CollectAck`,
`NextTry`, `AckDeadline`). `Receive` is everything the listener does with a packet up to the
fan-out: signature, sender, timestamp window, replay cache, ack. `TriggerLocalKill` asks
the daemon and tries to power the machine off where the daemon refuses or is not there. The daemon
beside each relay has what a relay can see and drive: its mode, which a command may change at any
time (`SetMode`), the kill its socket took and its loop has yet to drain (`DrainKill`), violations of
its own (`DetectViolation`), the second look at the mode (`HandleViolation`), and a sequence that ends
with the power (`PowerOff`), comes back from a dry run or a power-off that did nothing
(`KillReturns`), or fails and takes the daemon with it (`KillFails`) until it is started again
(`StartDaemon`). `spared` is a history variable: since the last kill came in, one was dropped for
learn mode, run dry, or did not get the power off. The reason is
a text that gains a prefix per hop and is cut at its maximum length, possibly in the middle of
a character, which makes the packet unreadable. The network keeps every packet that was sent
(`net`) and delivers any of them any number of times, in any order, or never; acks likewise.
`Restart` empties the replay cache. **KillSpread** is the abstract specification: a machine is
told only by one that began or was told, along a configured edge, and is brought down only
if told.

**Desktop** has the tray's poller, the sender thread and the GTK loop, the four channels
between them, the tray under its lock, the daemon as its status shows it, other clients of
it, and a person. `OnTick` … `PollWalk` are the steps of one tick of `poll::run`; `TakeCommand`,
`SendCommand`, `SayNotice` the sender's; `HandleNotice`, `HandleUpdate`, `HandleEvent` the GTK
loop's futures. `MenuOffers` and `BoardOffers` say what is there to be clicked, from the
status each view last drew, and a click takes any of it; a board that has drawn none yet offers
presets and mode switches as it was built.

**SettingsEditor** has the editor's configuration from load to paste. The panels offer rows
from the devices and violations they last drew (`offers`, `rows`), which may be stale by the
time of a click; `ListCoverOne`, `Expanded` (the `list_add_instances` of everything behind a
node), `Expansion` and `TakesInstance` are the functions that decide what a click does to the
whitelist. `Total` is the count of the instances all entries of a device stand for; `PortOrder` is
the order the daemon lists ports in. `UpdateWindow` is a status that may name another file;
`Paste` puts the output into the file it is for; `DaemonLoads` validates and clamps what is
there. Root may edit any file at any time (`RootEdits`), with one exception: in the file the
window has open, the kill commands stay: the window reads a file once, so that a paste after such
an edit would put the old ones back (section 5).

## 3. What is checked

| Run | Instance | Properties |
|---|---|---|
| `Arming` | scenes: one Thunderbolt port under disarm, arm and kill by a user with polkit pending, crashes, dry run on and off, horizon 4; eight configurations of the event buses, graces of 0–2; two monitors on two connectors under allowances; display, PCI, power, network and lid also under the monitor policy | `DisarmHasDeadline`, `ChecksUseFreshBaseline`, `StrangerIsSeen`, `DisarmWindowSpec`, `MonitoredIsLoggedOnce`, `GraceKept` |
| `Allowances` | scenes: a USB bus with 0–2 instances of one id; a Thunderbolt and a PCI device; a monitor on either of two connectors; pair, allow_last, revoke_all, disarm, arm, reload, with and without `--for` | `PairedKeptOut`, `QuietStaysQuiet`, `RearmIsQuiet` |
| `Reloads` | scenes: three files that switch buses on and off and one that does not load, failing captures and power-off; every request of a user polkit refuses, a history of three | `TypeOK`, `NewestIsHandled`, `LockedDown`, `LockedDownBaselines`, `NeverBlind` |
| `Liveness` | scenes: a device that comes and goes under every arming command and mode switch; a charger, a session that is locked or will not say, a file that switches the bus off and on | `DisarmEnds`, `RemoteKillRuns`, `IntruderIsKilled`, `CutIsKilled`, `ReloadIsServed` |
| `KillSequence` | thirteen nodes: files, an empty file, a folder that no link leads out of, with a link to itself and one to a file, and a folder with links back up and to a directory outside; two failing nodes; the full sequence over the first folder, a dry run over both, one without sync, one over the second | `NoRemovalBeforeOverwrite`, `DestroysExactly`, `FlushedAtPowerOff`, `SequenceEnds` |
| `Relay` | three machines as a line, as a ring with a send-only peer and a skewed clock, and around a relay and a daemon that run dry; retries, three nonces, a restart, modes that change while a kill is in the daemon's hands | `AckIsTrue`, `ActsOnce`, `SpreadSpec`, `HeardKillLands` |
| `Threads` | the loop, a user's handler and root's, three locks, two sessions | `StatusIsOneMoment`, `SubjectIsCallersOwn`, `PatrolGoesOn`, `StatusIsAnswered`, and no deadlock |
| `Enumeration` | eleven buses, three entries of which one is a part, two events | `SteadyIsSeen`, `StillIsQuiet`, `ReadingIsTrue` |
| `Desktop` | presets of 1 and 2, two clicks, two changes by others | `ClicksAreKept`, `NoticeGoesAway`, `ViewsCatchUp` |
| `Settings` | two files, three ports of which one hangs off another, two models one of which can be spelled in two ways | `EditsSurvive`, `CoverIsRight`, `PasteKeeps` |
| `RelayWatcher`, `PciAllowance` | as `Relay` and `Allowances` | a counterexample: section 5 |

In words, the daemon:

- `DisarmHasDeadline`: there is no indefinite disarm, and never a deadline on an armed daemon.
- `ChecksUseFreshBaseline`: after a disarm ends, no check runs against the baseline from before
  it until the re-capture was done. This is what reading both flags in one critical section
  (`main.rs:685`) is for.
- `NeverBlind`: while guarding, a watched bus that has a baseline keeps one.
- `QuietStaysQuiet`: a step that changes neither hardware, configuration nor time, and ends no
  allowance, never makes a check report. The comments at `main.rs:1106` tell of a bug of this
  kind; it is the mutant.
- `RearmIsQuiet`: the poll that re-captured finds nothing to report. A PCI capture that fails is
  excepted: it leaves the old baseline (`FailedPciCapture`, section 5).
- `StrangerIsSeen`: whichever monitors are allowed, another one is reported on every connector
  that is not ignored.
- `MonitoredIsLoggedOnce`: on each of the five buses that have a policy, the check that sees a change
  under the monitor policy leaves a baseline that no longer differs from what it saw, and one that
  sees none leaves the baseline alone. Where PCI cannot be read, its check may do nothing.
- `GraceKept`: a running countdown keeps its start, and its end moves only to what a reloaded grace
  gives from that start (`CountdownKept`); and a bus with a grace fires only after a countdown that
  ran to its end, unless the session lock decides (`FiresAfterCountdown`).
- `NewestIsHandled`: the violation being handled is the newest entry of the history, its limit
  reached or not, which is what `allow_last` promotes; and one that stands takes one slot, as no two
  neighbours are the same. Two that stand together do fill the history (`TwoStanding`, section 5).
- `PairedKeptOut`: while an allowance stands, no step takes its device into a baseline of any of the
  five device buses: its id into a set, all its instances on USB, its monitor at a connector it was
  not at (`AllowedStaysOut`). One admitted through a window is in no baseline that goes by ids
  (`PairedStaysOut`). An admitted monitor may still be in the baseline at the connector it came from;
  the next capture drops it from there too (`MonitorDropped`).
- `LockedDown`, `LockedDownBaselines`: no sequence of requests by an unauthenticated user
  disarms, leaves enforce mode, allows a device or causes a re-capture; no baseline moves but that
  of a bus whose policy is to follow what it sees (`Follows`).
- `DisarmWindowSpec`: the daemon implements the arming contract.
- `IntruderIsKilled`: a device that stays unaccepted while armed and enforcing ends in a kill.
- `DisarmEnds`, `RemoteKillRuns`: a disarm ends unless it is extended; a kill the socket accepted
  is run, armed or not. The exception is learn mode entered before the loop handles it, which
  `main.rs:843` names as intended.
- `CutIsKilled`: a power cut that stays is acted on after its grace, a lock nobody can read
  included.
- `ReloadIsServed`: a reload requested while another is being served is not lost.

The parts of the daemon:

- `SteadyIsSeen`: a device that was plugged in for the whole of a walk is in its snapshot, each
  instance of it, and what else is in it is accounted for by what changed.
- `StillIsQuiet`: on a machine where nothing happened since the baseline's walk began, a check
  finds nothing, although permissions come and go on the buses that tell a refusal from an
  absence; a whitelist generated from a listing covers the machine it was taken on.
- `ReadingIsTrue`: no reading of power, links or session locks is the opposite of something
  that was so all the time.
- `StatusIsOneMoment`: no status shows a countdown next to a baseline taken after it began.
- `SubjectIsCallersOwn`: the session polkit is asked about belongs to the caller.
- `PatrolGoesOn`, `StatusIsAnswered`: neither prompts nor other clients stop the loop or an
  answer; only a kill sequence keeps the loop, and not the answers. With `CHECK_DEADLOCK` on,
  the run also shows that the three locks are never waited for in a circle.
- `NoRemovalBeforeOverwrite`: a name never goes before its contents are overwritten on the disk,
  so that a power cut in the middle leaves nothing that was already dealt with.
- `DestroysExactly`: whatever fails, what was named is gone at the end, or failed itself or lies
  in a directory that did (`NothingSpared`). What is touched is a listed file, or was reached from a
  named folder by entries and by links to directories (`OutsideUntouched`): the code follows such a
  link to what nobody named (section 5). Where none leads out of the named folders, nothing but what
  is named is touched (`OnlyNamedTouched`).
- `FlushedAtPowerOff`, `SequenceEnds`: under `do_sync` the disk holds everything when the power
  goes; the sequence ends although commands hang.

The programs around it:

- `AckIsTrue`: a peer that `fan_out` reports as having acknowledged took that very kill.
- `ActsOnce`: a kill that is resent or doubled is acted on once by a running process.
- `SpreadSpec`: the mesh implements `KillSpread`.
- `HeardKillLands`: a good kill in a node's queue brings the machine down, though it goes stale
  behind another or the listener sits in a fan-out to peers that sit in theirs; unless a
  relay died with an acknowledged kill in hand, or the daemon spared it: put in learn mode after it
  had answered ok (`main.rs:843`), in a dry run, or with a power-off that fails.
- `ClicksAreKept`: every click is one command and nothing else is, and an extension never ends
  before the disarm the person saw.
- `NoticeGoesAway`: a command's notice does not stay on the dashboard for good.
- `ViewsCatchUp`: once nothing changes, tray, dashboard, ring and open lists show what is so.
- `EditsSurvive`: what a person added stays until removed.
- `CoverIsRight`: no click raises a whitelist entry past the devices that were there; the panel
  calls "in the whitelist" exactly what the daemon would admit; a row that offers a device
  adds it.
- `PasteKeeps`: root's kill commands survive a paste, and the daemon runs what was shown. The spin
  button goes higher than the loader allows (`SPIN_SLEEP`, above `MAX_SLEEP`), so the clamp bites at
  both ends.

### Bounds

*Constants.* In the daemon one connection is enough for a request to be overtaken by the loop
and by a request that asks nobody on the same connection before or after; handlers of two
threads are each one critical section, so a second pending request adds orderings of the same
two sections only (what two threads do *inside* a handler is `Threads`). One or two devices
per bus distinguish "this device" from "another one"; two instances of a USB id are what the
one-instance credit of an allowance is about. The horizon leaves room for a disarm to be made,
extended and to expire, or for a grace to be started, kept and ended. A request whose deadline
lies past the horizon is not made (`WithinHorizon`), so that every deadline that exists can be
reached. `HISTORY_LEN` is 3 where it matters and 1 elsewhere; `LOG_WRAP` is 2 where learn mode
counts. `SHRED_PASSES` is 2 instead of 3, the first and the last; `MAX_LINKS` is 1 instead of
40, which is what ends the walk of a cycle. Three machines are two hops and the smallest ring;
three nonces are a kill and its two descendants. Three entries of a bus are two devices, which
may be of one model, and a part; two events are a change in each of the two walks that a
check compares, or two in one. Two sessions are the caller's and a stranger's.

*Scenes.* Where one run asks about several situations, its `CONSTRAINT` keeps them apart: a scene
bounds file, hardware, clock and requests by the configuration the daemon started with. Under
fairness (`LiveScene`) only what nobody has to do is cut: hardware, file, requests.

*Action constraints.* They cut what the environment does, or choose one of several orders of
steps that commute. `Calm` (relay) lets one kill begin on `a`, whose daemon is put in other modes and finds violations
before that, and on the ring is put in another mode while a kill is in its relay's or its own hands;
a relay restarts on the line only, and time passes on the ring only. `FewAndPrompt` (desktop) bounds clicks and
changes together, lets time pass while a deadline runs, keeps the settings window for a quiet
daemon, and lets the futures of the GTK loop run before the next step of another thread.
`RootAsksLittle` (threads) keeps the second handler to the requests of a relay.

*Symmetry.* `Arming` takes monitors and connectors as symmetric, `Enumeration` the two devices:
no definition tells one from another, and both runs have invariants and step properties only.

The theorems of section 4 have none of these bounds.

### Fairness

Only threads and service managers are fair; clients, people, administrators, hardware, the
network, crashes and the authority never are.

- `PlugkillDaemon`: weak fairness of `Poll` (the loop sleeps and polls again, `main.rs:854`, and no
  step of it waits for a client), `Start` (the service is restarted on failure,
  `nix/module.nix:168`), `Tick`, and `Serve` of each connection. `IntruderIsKilled` and
  `CutIsKilled` are stated for conditions that persist, as the code looks only when it polls.
- `KillSequence`: weak fairness of the process. Commands have a timeout; `dd` and the swap
  commands have none, and are assumed to end with the device.
- `RelayMesh`: weak fairness of each relay's threads, whose socket deadlines pass, and of the loop of
  the daemon beside it from a kill to the end of its sequence. None of the network: `HeardKillLands` begins with a packet that arrived.
- `SocketThreads`: strong fairness of each thread. A lock that is free again and again is
  obtained at last: the loop sleeps between polls, a handler ends, and each socket has a read
  timeout. None of the bus or of the person at the prompt, and none of a kill sequence.
- `Desktop`: weak fairness of the two threads and the three futures, of the daemon's loop unless it
  is stuck, and of the age of a notice.

`CHECK_DEADLOCK FALSE` is set where the system does stop: a machine that is off, a clock at its
horizon, a mesh with no kill left to send. `Threads`, `Enumeration`, `Desktop` and `Settings`
check for deadlock.

## 4. What is proved

TLAPS checks these for every value of the constants: any number of devices, connections,
requests and configurations, any horizon and history length; any tree of files, any mesh, any
directory and any number of events under a walk; any presets and clicks, any files, ports and
spellings.

| Theorem | Module | Statement |
|---|---|---|
| `TypeCorrect` | `DaemonProofs` | `Spec => []TypeOK` |
| `DeadlineCorrect` | `DaemonProofs` | `Spec => []DisarmHasDeadline` |
| `FreshBaselineCorrect` | `DaemonProofs` | `Spec => []ChecksUseFreshBaseline` |
| `HistoryCorrect` | `DaemonProofs` | `Spec => []NewestIsHandled` |
| `LockdownCorrect` | `DaemonProofs` | `Spec => []LockedDown`, assuming `Locked` |
| `Refinement` | `DaemonProofs` | `Spec => DisarmWindowSpec` |
| `StrangerCorrect` | `DaemonBaselineProofs` | `Spec => []StrangerIsSeen` |
| `NeverBlindCorrect` | `DaemonBaselineProofs` | `Spec => NeverBlind` |
| `PairedCorrect` | `DaemonBaselineProofs` | `Spec => PairedKeptOut` |
| `RearmCorrect` | `DaemonBaselineProofs` | `Spec => RearmIsQuiet` |
| `LoggedCorrect` | `DaemonBaselineProofs` | `Spec => MonitoredIsLoggedOnce` |
| `QuietCorrect` | `DaemonBaselineProofs` | `Spec => QuietStaysQuiet` |
| `LockedBaselinesCorrect` | `DaemonBaselineProofs` | `Spec => LockedDownBaselines`, assuming `Locked` |
| `CountdownCorrect` | `DaemonBaselineProofs` | `Spec => CountdownKept` |
| `GraceCorrect` | `DaemonBaselineProofs` | `Spec => GraceKept`, assuming `Decisive` |
| `KillTypeCorrect` | `KillProofs` | `Spec => []TypeOK` |
| `OverwriteFirst` | `KillProofs` | `Spec => []NoRemovalBeforeOverwrite` |
| `DryRunCorrect` | `KillProofs` | `Spec => DryRunTouchesNothing` |
| `FlushCorrect` | `KillProofs` | `Spec => []FlushedAtPowerOff` |
| `DestroysExactlyCorrect` | `KillProofs` | `Spec => []DestroysExactly` |
| `RelayTypeCorrect` | `RelayProofs` | `Spec => []TypeOK` |
| `AckCorrect` | `RelayProofs` | `Spec => []AckIsTrue` |
| `ActsOnceCorrect` | `RelayProofs` | `Spec => ActsOnce`, assuming `CacheHoldsAll` |
| `SpreadRefinement` | `RelayProofs` | `Spec => SpreadSpec` |
| `SubjectCorrect` | `SocketProofs` | `Spec => []SubjectIsCallersOwn` |
| `StatusCorrect` | `SocketProofs` | `Spec => []StatusIsOneMoment` |
| `WalkTypeCorrect` | `EnumerationProofs` | `Spec => []TypeOK` |
| `SteadyCorrect` | `EnumerationProofs` | `Spec => []SteadyIsSeen` |
| `ReadingCorrect` | `EnumerationProofs` | `Spec => []ReadingIsTrue` |
| `StillCorrect` | `EnumerationProofs` | `Spec => []StillIsQuiet`, assuming `DistinctNames` on display |
| `DesktopTypeCorrect` | `DesktopProofs` | `Spec => []TypeOK` |
| `ClicksCorrect` | `DesktopProofs` | `Spec => ClicksAreKept` |
| `SettingsTypeCorrect` | `SettingsProofs` | `Spec => []TypeOK` |
| `EditsCorrect` | `SettingsProofs` | `Spec => []EditsSurvive` |
| `PasteCorrect` | `SettingsProofs` | `Spec => PasteKeeps` |
| `CoverageCorrect` | `SettingsProofs` | `Spec => [](CoverageIsTrue /\ ClickCovers)` |
| `CoverCorrect` | `SettingsProofs` | `Spec => []CoverIsRight`, assuming `SingleEntries` |

### Assumptions

The named ASSUMEs of the modules hold of every theorem, and TLC evaluates each of them. Most
type a constant or say that `None` is nothing else (`ReadingAssumption`: no reading of a bus;
`WalkAssumption`: no name, no value). Those that say more:

- `IdentityAssumption`: the identities of different buses differ, as the code's `DeviceRef` is
  tagged with the bus. Without it an allowance for a device of one bus would let one of another
  through, and `PairedKeptOut` fails.
- `KillAssumption`: only a directory has entries, and `SHRED_PASSES` is not 0.
- `RelayAssumption`: a mesh is one `validate` of the relay accepts, and no machine lists itself as
  a peer.
- `SettingsAssumption`: a built-in configuration lists no device (`config.rs`, `Default`); a device has
  one identity, which is a spelling of itself; two ports have different places in the daemon's
  order.
- `DesktopAssumption`: every preset is a duration of at most `MAX_DISARM`, and five minutes is one.
- `ContentAssumption`: an entry has the attribute files a walk may open, and is what these say it
  is: a USB device its vendor and product, a supply that feeds the machine an adapter on line or a
  battery that charges. This is the kernel's side of a walk.

Six theorems have a hypothesis of their own. `Locked`: every loadable configuration requires
authentication, no caller is root, no verdict is yes, and the daemon starts in enforce mode.
`Decisive`: the daemon acts on what it finds, with no learn mode, dry run, monitor policy or
session-lock condition, and a power-off that works (below). `CacheHoldsAll`: the replay cache has room for the nonces that
exist. In the code it has room for 1000 (`crypto.rs:6`), and a kill is dropped for its age when it is
older than the timestamp window, so that a thousand others would have to come within one. `DistinctNames`: two entries
that are connectors have different names; where they do not, the property is false
(`SharedConnector`, section 5). `SingleEntries`: no file lists an identity twice, by hand; without it a
part of `CoverIsRight` is false (`ListedTwice`, section 5), and `CoverageCorrect` states the rest of it
for any files.

### The daemon

*Types.* The type invariant is inductive once it says that a check which has a step is of a
bus that is watched and has a baseline (`Watched`), and that something that appeared has
an identity: without the first, a comparison would be of a snapshot with `None`, without the
second `AdmitPaired` would index the allowance table with `None`. The proof goes action by
action; captures, event checks and handlers have a lemma each.

*Deadlines.* `DisarmHasDeadline` is inductive by itself given `TypeOK`.

*Fresh baselines.* The invariant (`FreshInv`) is that a stale baseline implies that the daemon
is disarmed, that a re-capture is pending, or that the loop is at the re-capture. `PollTop`
moves a state from the first two cases to the third in one step, which is the reason for
its single critical section; with the arm handler not setting the flag, or the loop reading
it elsewhere, the invariant fails.

*History.* `HistoryStep` shows that recording keeps neighbours different through the push and the
truncation; `RecordedHead` that what it records is in front afterwards, for any length but 0, and
`HeadStep` that nothing else touches the history before the violation is handled.

*Lockdown.* The invariant (`LockInv`) adds to `LockedDown` that no connection holds an authorized
request. For the baselines it is joined by `Settled`: after the start the loop is never again
at a load or a re-capture of what is missing, because nobody can ask for one.

*Refinement.* `LoopInv` ties `needs_rebaseline` to the position of the loop and the live
configuration to an overridden file. Each action is shown to be a step of `DisarmWindow` or
a stutter: captures in *settling*, the reload by the fact that `Captures` with
`only_missing` leaves a standing baseline alone, the monitor policy by `Followed`.

*Baselines.* `BaselineStep` lists every way in which a step can change a baseline: a full capture,
a capture of what is missing, a bus switched off by a reload, a monitored reading. It is proved
once of every action, and `NeverBlind` and `LockedDownBaselines` follow from its cases.

*Allowances.* `PairedKeptOut` is three facts. That nothing allowed is taken in, and that a capture
drops an allowed monitor, are read off what each capture and check may store. That a paired device is
in no baseline of ids needs `AdmissionInv`: a device on its way to be admitted is outside of
the baselines already, as it was reported against them by the check of the same poll, and no
capture comes between the check and the admission. `RearmIsQuiet` and `QuietStaysQuiet` are
statements about the operators: for every bus, a comparison of a reading with what a capture of
the same reading stores is empty for any allowances, which is where what the check hides and
what the capture leaves out must agree.

*Countdowns.* `TimerInv`, that a countdown has a start, gives `CountdownKept` in every instance. That
nothing fires without a countdown is false in general: a bus that is only monitored, a dry run,
learn mode, and a violation that is held back while the session is open all leave the start time
without a countdown, so that a policy or lock that turns later fires at once. Under `Decisive` the
invariant `DecisiveInv` holds, that a start time without a countdown is of a violation that is being
acted on.

### The kill sequence

`NoRemovalBeforeOverwrite` needs two facts (`KInv`): a file that has had a pass flushed is not intact
on the disk (`Overwritten`), and a pass that is not flushed is one of the file that is open
(`Pending`). A file is unlinked only when no pass is left, hence after at least one flush, for
which `SHRED_PASSES` must not be 0. A dry run opens nothing and starts no child (`Idles`), so each
step of it leaves the world alone. For the flush, `FlushInv` says that from the sync on, in a
configuration that has it, cache and disk are equal and nothing is open.

`DestroysExactly` has three parts. How far the walk reaches is `ExposeInv`: everything on the
stack, to do, or open lies under a folder that was named, along entries and links to directories.
`NothingBeyondNamed` adds that this is no more than what was named where no such link leads out. That nothing is
left is `SpareInv`: every file and folder of a list up to the current position is dealt with
(`FilesDone`, `FoldersDone`), where a node is dealt with if it is gone, failed, or lies in a directory
that failed. No induction over the tree is needed, because of `Emptied` (`TreeInv`): a directory that
is gone has no entry that is not. A directory goes only when it is empty, and a walk leaves
an entry behind only if it failed.

### The relay

`AckIsTrue` holds because an ack and the count of it name the kill that was taken (`AckInv`): the
network can double and delay an ack, and cannot make one. `ActsOnce` needs `MemoryInv`: the queue of
the replay cache and its set have the same members, and the queue has no repetition, so that it is
never longer than the nonces are many and evicts none. For the refinement, `PathInv` says that
whatever is in flight, queued or in a fan-out comes from a machine that began or was told and is
addressed to one of its peers, and `handling` is of a machine that was told; each step of a relay is
then a step of `KillSpread` or a stutter. The type invariant carries that a fan-out does not get past
its last retry and that no reason is longer than the maximum.

### The threads

`SubjectIsCallersOwn` follows from `AskInv`, which follows the conversation with the bus call by call: a
session whose owner was asked for is the caller's by the time its verdict is, whatever pid led to it,
because the uid is compared and the pid is not trusted. `StatusIsOneMoment` is about positions in
programs: `HandlerFits` says that no handler writes the baselines, and reports or lets go of the
lock only after it took it; `LoopFits`, that a capture lies inside the loop's write section and its
countdown restarts before that section ends. Together (`OneMoment`) a report and a half-done capture
would both hold the baselines. The programs are typed, and `Shaped` and `Fit` shown of every
handler's and of each part of a poll, for any requests.

### The walks

`WalkInv` is the state of a walk that has not ended. `RowsInv`: an entry that was kept is behind the
walk, was read to its end, and if it is untouched is what it shows. `OnceInv`: none is kept
twice, which makes a count of rows one of devices. `AtInv`: so far the entry that is being read is wanted
and, if untouched, agrees. `SeenInv`: an untouched entry is to come, being read, kept, or left out
for what it is. `AnswerInv`: an answer is the snapshot of a whole walk or was settled by one entry. At
the end the rows of untouched entries are exactly the devices that stayed; for the counts, rows and
entries are in bijection, and what is there besides injects into what was touched. For
`StillIsQuiet`, `MemoryInv` adds that a baseline, or whitelist, that nothing happened since *fits* the
machine (`Fits`), and that what happened since the walk began happened since the baseline as
well; two snapshots that fit the same machine show no change (`SameIsQuiet`), and a whitelist that
fits covers it (`CoveredIsNotAdded`).

### The desktop

`ClicksAreKept` has three parts. That every click is one command (`EveryClickOnce`) is inductive: each
step moves one command from a click to a channel, a channel to the sender, or the sender to the
daemon, and `WaitingIn` and `WaitingOut` count what is in a queue after a send or a receive. That
nothing else becomes a command is a matter of each action. That an extension never ends before
what the person saw needs `DeadlineInv`, which ties a status to the clock at any later time:
wherever it is on its way, poller, channel, tray or dashboard, it never shows a deadline later
than now and the time it says is left, nor later than now and the maximum (`Dated`). Both bounds
get weaker as time passes, which is why a status may be old; the second is the one that matters for
the presets that are cut to the maximum. What is clicked is then an extension that, run now or later,
reaches what was seen (`Extends`), and it stays so through the queue, behind a prompt, and in
the hands of a daemon that runs it after the sender had given up.

### The settings window

The lists are sequences, and what is done to them is said without recursion: positions, sets of
instances and a bijection from a set (`InOrder`, `SetToSeq`), whose existence is shown once with the
least element of a set of numbers (`LeastOf`).

`EditsSurvive` needs `EditInv`: what a person added was not in what was loaded. So a window that
holds some of it is not one that nobody touched, and a new file does not replace it; and an
entry that is listed counts, as a file with an entry of count 0 does not load. Adding a device that was in the file
already changes nothing, and is not among what a person added.

`PasteKeeps` needs `PasteInv`: a window that says it read a file holds that file's kill commands, as no
edit can change them, and `Placeholder` keeps any other window from offering a paste. That nothing
is clamped afterwards is that clamping twice is clamping once.

`CoverageIsTrue` compares two ways of counting: the panel numbers the devices of a model in the
daemon's order and marks those below the total, the daemon compares how many there are with the total.
`LeftIffMore` shows that one is left over exactly if there are more: the devices that are not left are
those with fewer than the total before them, and the one with the most before it has all others
before it. It holds of any list, in any order of ports. `CoverNeverExceeds` is of rows drawn long
ago, where nothing relates the whitelist to what the row knows except the comparison in
`list_cover_one`. This compares the *first* entry's count with what is present, and not the total, so
the files and everything the window does to them must keep an identity in one entry (`SingleInv`).

### What the proofs changed

Attempts that failed corrected the models: the room for a relay's reason could be negative on paper
(`TextRoom`); identities of different buses had to be told apart; guards of a CASE that can hold at once
let TLA+ pick any branch, where the code takes the first (`Visit`, `Take`, `PowerOf`, `LockOf`). They
also sharpened properties that TLC had found true of its instances only: `StrangerIsSeen` excepts
ignored connectors, `RearmIsQuiet` and `MonitoredIsLoggedOnce` a capture that fails, and `GraceKept` a
reload that changes the grace. `UnplugTime` in section 5 came out of the proof of `GraceCorrect`, and
`ListedTwice` out of that of `CoverCorrect`. The settings window's lists were folds and filters
over sequences, and are now the positions and sets described above; TLC compared both forms on all
configurations of up to three entries before the old ones went. Its root, who could edit the other
file only, now edits any.

### Only model-checked

The liveness properties and what else needs fairness or ENABLED, which are outside the prover:
`DisarmEnds`, `RemoteKillRuns`, `IntruderIsKilled`, `CutIsKilled`, `ReloadIsServed`, `SequenceEnds`,
`HeardKillLands`, `PatrolGoesOn`, `StatusIsAnswered`, `NoticeGoesAway`, `ViewsCatchUp`; the absence of
deadlock. Every other property of a passing run is proved. And the disagreements below.

## 5. Where the code and its documentation disagree

Each line has a `.cfg` of the same name that TLC ends with a counterexample. The first two
are runs of `PROJECT.json`; the others are checked with
`tlc -config <name>.cfg <MC module>`.

| Configuration | Text | What happens |
|---|---|---|
| `PciAllowance` | `README.md:88` an allowance lets one device through without disarming anything | `check_pci_violation` filters the allowed device from the reading and not from the baseline: allowing a PCI device that is in the baseline reports it as removed |
| `RelayWatcher` | `watcher.rs:18` a new violation in enforce mode is returned | the count it compares rises in learn mode only (`main.rs:1599`), so a violation in enforce mode is never passed on |
| `MonitorMoved` | `README.md:114` an allowed monitor moved to another connector stays allowed | not on a connector the baseline did not list: the connector itself is reported as appeared |
| `AllowedInBaseline` | `README.md:108` an allowed device is kept out of the baseline while the allowance stands | `allow_last` may promote a device a re-arm has captured since |
| `FailedPciCapture` | `README.md:464` a failed capture leaves the bus unmonitored | on PCI it leaves the old baseline in force |
| `SymlinkFollowed` | `kill.rs:162` a symlink is removed, never followed | a link to a directory inside a folder is (`kill.rs:277`) |
| `PolkitWait` | `authz.rs:93` the call's timeout is short of the client's wait, so that the user sees the refusal | the timeout is per call and there are up to four: the client can give up first, and a late yes still runs |
| `TwoStanding` | `daemon_state.rs:169` 50 slots hold 50 distinct events rather than 12 seconds of one | a violation is compared with the newest entry only: two devices that stand together in learn mode or a dry run are recorded in turns and fill the history |
| `UnplugTime` | `daemon_state.rs:95` the time power went from AC to battery | under the monitor policy the time stays when the charger comes back (`main.rs:1298-1311`): after a reload to a kill policy, the grace of the next cut is counted from the old one |
| `UnreadHint` | `power.rs:132` unlocked if all sessions are | a session whose hint cannot be read counts as unlocked (`power.rs:216`) |
| `SharedConnector` | `display.rs:287` the first difference against the baseline | connectors are looked up by name, and two cards may have one of the same name |
| `HubTwin` | `devices.rs:384` everything behind a hub is added | a twin of a device behind the hub that hangs elsewhere may be the one that stays uncovered |
| `ListedTwice` | `editor/model.rs:174` the raise never passes how many the daemon lists, so a click cannot authorise a device nobody has plugged in | of a file that lists an identity twice it does: the raise compares the first entry alone, and the daemon adds them up. It takes a row of the violations panel, which stays after both are covered |

Others that can be read either way, or that the models do not reach:

- A second instance of an allowed USB id is admitted through a window, which closes, and is a
  violation again on the next poll, as an allowance credits one instance
  (`daemon_state.rs:223`, `main.rs:1902`). A second admission with `--for` replaces a permanent
  allowance by one that expires (`daemon_state.rs:224`).
- A disarm answered after the poll read the armed flag does not stop a grace period that runs
  out in that poll (`main.rs:792`, `README.md:147`).
- A baseline taken on battery also excuses a cut made after the charger came back
  (`main.rs:1327`).
- A kill whose ack was lost is a replay when it is resent, and is dropped without another ack
  (`listener.rs:86`): the sender reports a timeout for a peer that acted.
- The replay cache does not survive a restart of the relay: a kill is then acted on twice.
- The settings window reads a file once, until the daemon names another (`editor.rs:605`): where root
  changes the kill commands of that file meanwhile, pasting the window's output undoes it.
- An admitted monitor may be in the baseline already, at the connector it was on before: unplugged and
  back there after the allowance was revoked, it is accepted (`README.md:108`), until a capture
  drops it. With two instances of a USB id of which one was allowed, unplugging either leaves the
  count that was accepted, and revoking does nothing.
- Under the monitor policy the baseline follows a lid that closes or a link that goes down, and not
  one that opens or comes back (`main.rs:1417-1430`, `1525-1540`): the second closing, or the second
  cut of the same link, is not logged until the next capture.
- The tray calls a daemon stalled, which means its poll loop has stopped (`status.rs:167`), that was
  armed after more than 30 s of disarm, until its next poll (`status.rs:199`).
- A regular file listed under `folders_to_remove` is spared without a word (`kill.rs:263`).
- A FreeBSD PCI selector such as `pci0:1:0:0` is refused by `is_pci_selector`
  (`allowances.rs:112`) and so left out of an export.

## 6. What is not modelled

- `last_poll` in the daemon, friendly names, `due_to_warn`, `soonest_grace` as `status` uses them:
  nothing in the loop decides on them.
- A second handler at a prompt in `SocketThreads`: one waits, and the others are answered. Each waits
  alone, with no lock held (`PatrolGoesOn`), so that a second one adds no lock step.
- `is_ignored` for PCI and display matches substrings; the model takes the set of ids or
  connectors that the tokens match.
- FreeBSD: the opaque display generation, `DISPLAY_IDENTITY`, and the PCI and Thunderbolt
  backends. The daemon's model is of the Linux build.
- `--dry-run` with no configuration file, which falls back to a default; the permission check
  on the file.
- The checks of `kill.rs:140-153` and `249-254` on relative paths and `..`: `validate_path`
  (`config.rs:421-432`) lets no such path through a load.
- A log file that lies in a shredded folder: the entry is made before the walk, and the folder's
  listing then holds it.
- SIGTERM, which ends the loop cleanly, is a `Crash`: what matters afterwards is the same.
- Cryptography: a signature is by whom it says. Name resolution: a name that resolves
  elsewhere is a packet that does not arrive.
- The diagnostics panel and the log view, which show and change nothing; widgets, icons, layout.
- The command line client and the allowance export, which print.
- Parsing and formatting everywhere: EDID, TOML, JSON, sysfs text, with the two exceptions
  the relay's reason (its length) and the whitelist's spelling.
- A poisoned mutex. A thread that panics under a lock makes the loop panic on its next
  `lock().unwrap()`, which ends the process: a `Crash`.
- The services, but for their restart on failure.

## 7. Plan

1. *Reloads*: other policies switched while a monitored baseline stands; `UnplugTime` is one.
2. *Export*: what `--allowances` prints, loaded again.
