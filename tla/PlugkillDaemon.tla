--------------------------- MODULE PlugkillDaemon ---------------------------
(***************************************************************************)
(* One plugkill daemon: the poll loop of main.rs, with the socket threads  *)
(* of ControlSocket running between any two of its critical sections, the  *)
(* hardware and the config file changing under it, and the service manager *)
(* starting it again when it stops.                                        *)
(***************************************************************************)
EXTENDS ControlSocket, EventBuses

CONSTANTS
  StartMode,        (* "Learn" under --learn-mode, "Enforce" otherwise      *)
  CliOff,           (* the buses the --no-* flags switch off                *)
  CliDryRun,        (* --dry-run                                            *)
  World,            (* bound: what the hardware can look like               *)
  Files,            (* bound: what the config file can hold, None when it   *)
                    (* cannot be loaded                                     *)
  FaultyBuses,      (* the buses whose enumeration may fail                 *)
  ShutdownMayFail,  (* whether a power-off may fail, or take its time       *)
  MayCrash,         (* whether the process may stop at any point            *)
  MayEdit           (* whether the config file changes under the daemon     *)

ASSUME LoopAssumption ==
  /\ StartMode \in {"Enforce", "Learn"}
  /\ CliOff \subseteq Bus
  /\ CliDryRun \in BOOLEAN
  /\ World \subseteq Hardware
  /\ Files \subseteq Configs \cup {None}
  /\ FaultyBuses \subseteq {"usb", "thunderbolt", "sdcard", "pci"}
  /\ ShutdownMayFail \in BOOLEAN
  /\ MayCrash \in BOOLEAN
  /\ MayEdit \in BOOLEAN

VARIABLES
  pc,                 (* where the loop is, or "down", or "dead"            *)
  now,                (* the poll's own reading of the clock                *)
  needs_rebaseline, is_armed, remote_kill,   (* what it drained             *)
  violation,          (* what it detected, or None                          *)
  file,               (* the config file                                    *)
  stale               (* history: TRUE from a disarm to the capture that    *)
                      (* follows the re-arm                                 *)

locals == <<now, needs_rebaseline, is_armed, remote_kill, violation>>
world  == <<clock, hw, file>>
vars   == <<sharedVars, config, baselines, eventVars, conns, pc, locals, world, stale>>

Up == pc \notin {"down", "dead"}

---------------------------------------------------------------------------
(* The end of an iteration; the sleep has no step of its own.              *)
Sleep ==
  /\ pc' = "top"
  /\ now' = 0
  /\ needs_rebaseline' = FALSE
  /\ is_armed' = FALSE
  /\ remote_kill' = FALSE
  /\ violation' = None

(* The process is gone, and with it everything it held in memory.          *)
Exit(to) ==
  /\ pc' = to
  /\ now' = 0
  /\ needs_rebaseline' = FALSE
  /\ is_armed' = FALSE
  /\ remote_kill' = FALSE
  /\ violation' = None
  /\ NewState(StartMode)
  /\ NewEvents
  /\ baselines' = NoBaselines
  /\ conns' = [c \in Conn |-> None]
  /\ stale' = FALSE

(* The command line keeps overriding the file.                             *)
Overridden(cfg) ==
  [cfg EXCEPT !.watch = @ \ CliOff, !.dry_run = @ \/ CliDryRun]

---------------------------------------------------------------------------
Captures_All(cfg, bus, only_missing) == bus \in cfg.watch
                                             (* a bug: a reload re-arms    *)

(* Taking baselines.  only_missing leaves a bus that has one alone; a bus  *)
(* switched off loses its own.                                             *)
Captures(cfg, bus, only_missing) ==
  bus \in cfg.watch /\ ~(only_missing /\ baselines[bus] # None)

(* a bug: the allowed devices leave a standing USB baseline too            *)
Captured_Strips(cfg, bus, only_missing, broken, reading) ==
  IF bus \notin cfg.watch THEN None
  ELSE IF ~Captures(cfg, bus, only_missing)
       THEN IF bus = "usb" THEN SkipAllowedUsb(baselines["usb"], Active(now)) ELSE baselines[bus]
  ELSE IF bus \notin broken THEN reading ELSE None

(* PCI is the one bus a failed capture leaves with what it had.            *)
Captured(cfg, bus, only_missing, broken, reading) ==
  IF bus \notin cfg.watch THEN None
  ELSE IF ~Captures(cfg, bus, only_missing) THEN baselines[bus]
  ELSE IF bus \notin broken THEN reading
  ELSE IF bus = "pci" THEN baselines[bus] ELSE None

Without_Nothing(snapshot, allowed) == snapshot   (* a bug: a capture takes them in *)

(* Whether its capture is new or standing, a bus whose allowances match by *)
(* identity alone drops the allowed devices.                               *)
Without(snapshot, allowed) == IF snapshot = None THEN None ELSE snapshot \ allowed

CaptureBaselines(cfg, only_missing, allowed, broken) ==
  LET Take(bus, reading) == Captured(cfg, bus, only_missing, broken, reading)
      display == Take("display", ListedDisplays(hw.display, cfg.display.ignore))
  IN  /\ baselines' =
           [usb         |-> Take("usb", SkipAllowedUsb(hw.usb, allowed)),
            thunderbolt |-> Without(Take("thunderbolt", hw.thunderbolt), allowed),
            sdcard      |-> Without(Take("sdcard", hw.sdcard), allowed),
            pci         |-> Take("pci", hw.pci \ (cfg.pci.ignore \cup allowed)),
            display     |-> IF display = None THEN None
                            ELSE HideAllowedDisplays(display, allowed),
            power       |-> Take("power", hw.power),
            network     |-> Take("network", Links(cfg)),
            lid         |-> Take("lid", hw.lid)]
      /\ ResetTimers({b \in EventBus : Captures(cfg, b, only_missing)})

(* Startup has nothing allowed and every bus to capture.  Without a USB     *)
(* baseline it gives up, and the service manager tries again; any other    *)
(* bus that cannot be read is left without one.                            *)
FirstBaselines(cfg) ==
  \E broken \in SUBSET (FaultyBuses \ {"usb"}) : CaptureBaselines(cfg, FALSE, {}, broken)

Start ==
  /\ pc = "down"
  /\ file # None
  /\ config' = Overridden(file)
  /\ FirstBaselines(Overridden(file))
  /\ pc' = "top"
  /\ UNCHANGED <<sharedVars, conns, locals, world, stale>>

---------------------------------------------------------------------------
(* One iteration.  The first critical section ends an expired disarm,      *)
(* sweeps the allowances, and drains the flags.                            *)
PollTop ==
  /\ pc = "top"
  /\ now' = clock
  /\ LET rearm == ~armed /\ IsDisarmExpired
     IN  /\ pc' = IF rebaseline_pending \/ rearm THEN "rebaseline" ELSE "reload"
         /\ armed' = (armed \/ rearm)
         /\ is_armed' = (armed \/ rearm)
         /\ disarm_until' = IF rearm THEN None ELSE disarm_until
         /\ needs_rebaseline' = (rebaseline_pending \/ rearm)
  /\ rebaseline_pending' = FALSE
  /\ remote_kill' = kill_pending
  /\ kill_pending' = FALSE
  /\ allowances' = Sweep(clock)
  /\ pairing' = IF pairing # None /\ pairing.until <= clock THEN None ELSE pairing
  /\ UNCHANGED <<mode, reload_pending, violations, violations_logged, config, baselines,
                 eventVars, conns, violation, world, stale>>

Rebaseline ==
  /\ pc = "rebaseline"
  /\ pc' = "reload"
  /\ needs_rebaseline' = FALSE
  /\ \E broken \in SUBSET FaultyBuses :
       CaptureBaselines(config, FALSE, Active(now), broken)
  /\ stale' = ~armed
  /\ UNCHANGED <<sharedVars, config, conns, now, is_armed, remote_kill, violation, world>>

(* A reload clears its flag before it reads the file, so that a request    *)
(* made while it reads is not lost.                                        *)
TakeReload ==
  /\ pc = "reload"
  /\ reload_pending' = FALSE
  /\ pc' = IF reload_pending THEN "load" ELSE "check"
  /\ UNCHANGED <<armed, mode, disarm_until, rebaseline_pending, kill_pending, allowances,
                 pairing, violations, violations_logged, config, baselines, eventVars,
                 conns, locals, world, stale>>

Load ==
  /\ pc = "load"
  /\ \/ file = None /\ pc' = "check" /\ UNCHANGED config
     \/ file # None /\ pc' = "recapture" /\ config' = Overridden(file)
  /\ UNCHANGED <<sharedVars, baselines, eventVars, conns, locals, world, stale>>

(* a bug: the flag is cleared once more when the reload is done            *)
Recapture_ClearsFlag ==
  /\ pc = "recapture"
  /\ pc' = "check"
  /\ CaptureBaselines(config, TRUE, Active(now), {})
  /\ reload_pending' = FALSE
  /\ UNCHANGED <<armed, mode, disarm_until, rebaseline_pending, kill_pending, allowances,
                 pairing, violations, violations_logged, config, conns, locals, world, stale>>

Recapture ==
  /\ pc = "recapture"
  /\ pc' = "check"
  /\ \E broken \in SUBSET FaultyBuses :
       CaptureBaselines(config, TRUE, Active(now), broken)
  /\ UNCHANGED <<sharedVars, config, conns, locals, world, stale>>

---------------------------------------------------------------------------
(* The checks, each reached only while the ones before it found nothing.   *)
(* Only the loop writes what makes a check return at once, so one that     *)
(* does has no step.                                                       *)
Order == [check |-> 0, power |-> 1, network |-> 2, lid |-> 3, pci |-> 4, display |-> 5]

Later == {b \in {"power", "network", "lid", "pci", "display"} :
            Order[b] > Order[pc] /\ Watched(b)}

Goto(next) ==
  /\ pc' = next
  /\ UNCHANGED locals

NextCheck ==
  \/ Later = {} /\ Sleep
  \/ \E b \in Later : (\A c \in Later : Order[b] <= Order[c]) /\ Goto(b)

Detects(v) ==
  /\ violation' = v
  /\ pc' = "admit"
  /\ UNCHANGED <<now, needs_rebaseline, is_armed, remote_kill>>

(* A queued kill goes before the checks and does not ask whether the       *)
(* daemon is armed.                                                        *)
DrainKill ==
  /\ pc = "check"
  /\ remote_kill
  /\ Detects(Event("relay", "RemoteKill", None))
  /\ UNCHANGED <<sharedVars, config, baselines, eventVars, conns, world, stale>>

(* a bug: the armed flag is looked at before the queued kill               *)
SkipChecks_First ==
  /\ pc = "check"
  /\ ~is_armed
  /\ Sleep
  /\ UNCHANGED <<sharedVars, config, baselines, eventVars, conns, world, stale>>

SkipChecks ==
  /\ pc = "check"
  /\ ~remote_kill
  /\ ~is_armed
  /\ Sleep
  /\ UNCHANGED <<sharedVars, config, baselines, eventVars, conns, world, stale>>

(* A violation carries an identity for pair and allow_last to act on; one  *)
(* for something that appeared may be admitted.                            *)
Found(bus, change) ==
  Device(bus, change, change.id # None /\ change.kind \notin {"Removed", "CountDecreased"})

EnumerationFailure(bus) == Event(bus, "EnumerationFailure", None)

(* What one bus may report: None where nothing changed.                    *)
Outcomes(bus, changes) ==
  (IF changes = {} THEN {None} ELSE {Found(bus, c) : c \in changes})
  \cup {EnumerationFailure(b) : b \in FaultyBuses \cap {bus}}

UsbOutcomes(allowed) ==
  IF ~Watched("usb") THEN {None}
  ELSE Outcomes("usb", UsbChanges(hw.usb, baselines["usb"],
                                  UsbWhitelist(config.whitelist, allowed)))

SetOutcomes(bus, current, whitelist) ==
  IF ~Watched(bus) THEN {None}
  ELSE Outcomes(bus, SetChanges(current, baselines[bus], whitelist))

(* detect_violations: the first of the three buses to report.              *)
DetectViolations ==
  /\ pc = "check"
  /\ ~remote_kill
  /\ is_armed
  /\ \E u \in UsbOutcomes(Active(now)),
        t \in SetOutcomes("thunderbolt", hw.thunderbolt, config.tb_whitelist \cup Active(now)),
        s \in SetOutcomes("sdcard", hw.sdcard, config.sd_whitelist \cup Active(now)) :
       LET first == IF u # None THEN u ELSE IF t # None THEN t ELSE s
       IN  IF first = None THEN NextCheck ELSE Detects(first)
  /\ UNCHANGED <<sharedVars, config, baselines, eventVars, conns, world, stale>>

CheckPower ==
  /\ pc = "power"
  /\ \/ PowerQuiet /\ NextCheck
     \/ PowerFires /\ Detects(Event("power", "Unplugged", None))
  /\ UNCHANGED <<sharedVars, config, conns, world, stale>>

CheckNetwork ==
  /\ pc = "network"
  /\ \/ NetworkQuiet /\ NextCheck
     \/ NetworkFires /\ \E i \in LinksDown : Detects(Event("network", "LinkDown", i))
  /\ UNCHANGED <<sharedVars, config, conns, world, stale>>

CheckLid ==
  /\ pc = "lid"
  /\ \/ LidQuiet /\ NextCheck
     \/ LidFires /\ Detects(Event("lid", "Closed", None))
  /\ UNCHANGED <<sharedVars, config, conns, world, stale>>

(* Allowed PCI devices are left out of the enumeration, as ignored ones.   *)
PciRead == hw.pci \ (config.pci.ignore \cup Active(now))

CheckPci ==
  /\ pc = "pci"
  /\ LET changes == PciChanges(PciRead, baselines["pci"])
     IN  \/ /\ changes = {} \/ "pci" \in FaultyBuses
            /\ NextCheck
            /\ UNCHANGED baselines
         \/ /\ changes # {}
            /\ config.pci.policy = "Monitor"
            /\ NextCheck
            /\ Follow("pci", PciRead)
         \/ /\ config.pci.policy = "Kill"
            /\ \E c \in changes : Detects(Found("pci", c))
            /\ UNCHANGED baselines
  /\ UNCHANGED <<sharedVars, config, eventVars, conns, world, stale>>

(* Allowed monitors are blanked on both sides.                             *)
DisplayRead ==
  HideAllowedDisplays(ListedDisplays(hw.display, config.display.ignore), Active(now))

CheckDisplay ==
  /\ pc = "display"
  /\ LET changes == DisplayChanges(DisplayRead,
                                   HideAllowedDisplays(baselines["display"], Active(now)))
     IN  \/ changes = {} /\ NextCheck /\ UNCHANGED baselines
         \/ /\ changes # {}
            /\ config.display.policy = "Monitor"
            /\ NextCheck
            /\ Follow("display", DisplayRead)
         \/ /\ config.display.policy = "Kill"
            /\ \E c \in changes : Detects(Found("display", c))
            /\ UNCHANGED baselines
  /\ UNCHANGED <<sharedVars, config, eventVars, conns, world, stale>>

---------------------------------------------------------------------------
(* An open window takes in what appeared, and closes behind it.            *)
Admissible == violation.appeared /\ pairing # None /\ pairing.until > now

AdmitPaired ==
  /\ pc = "admit"
  /\ Admissible
  /\ allowances' = [allowances EXCEPT ![violation.id] = NewAllowance("Paired", now, pairing.ttl)]
  /\ pairing' = None
  /\ Sleep
  /\ UNCHANGED <<armed, mode, disarm_until, rebaseline_pending, reload_pending, kill_pending,
                 violations, violations_logged, config, baselines, eventVars, conns, world,
                 stale>>

Keep ==
  /\ pc = "admit"
  /\ ~Admissible
  /\ Goto("record")
  /\ UNCHANGED <<sharedVars, config, baselines, eventVars, conns, world, stale>>

(* a bug: a violation already at the head of the history is not handled    *)
RecordViolation_Once ==
  /\ pc = "record"
  /\ violations' = Recorded(violation)
  /\ IF violations' = violations THEN Sleep ELSE Goto("handle")
  /\ UNCHANGED <<armed, mode, disarm_until, rebaseline_pending, reload_pending, kill_pending,
                 allowances, pairing, violations_logged, config, baselines, eventVars, conns,
                 world, stale>>

RecordViolation ==
  /\ pc = "record"
  /\ violations' = Recorded(violation)
  /\ Goto("handle")
  /\ UNCHANGED <<armed, mode, disarm_until, rebaseline_pending, reload_pending, kill_pending,
                 allowances, pairing, violations_logged, config, baselines, eventVars, conns,
                 world, stale>>

(* The mode is read here, after the checks: a remote kill that meets learn *)
(* mode is dropped.                                                        *)
HandleViolation ==
  /\ pc = "handle"
  /\ \/ mode = "Enforce" /\ Goto("kill") /\ UNCHANGED violations_logged
     \/ mode = "Learn" /\ Sleep /\ violations_logged' = (violations_logged + 1) % LOG_WRAP
  /\ UNCHANGED <<armed, mode, disarm_until, rebaseline_pending, reload_pending, kill_pending,
                 allowances, pairing, violations, config, baselines, eventVars, conns, world,
                 stale>>

(* The sequence comes back to the loop after a dry run, and when the       *)
(* power-off command says it went well before the machine is off, where    *)
(* melt_self has removed the config directory; otherwise the machine is    *)
(* off, or the power-off failed and the process exits.                     *)
KillReturns ==
  /\ pc = "kill"
  /\ config.dry_run \/ ShutdownMayFail
  /\ Sleep
  /\ file' = IF config.melt_self /\ ~config.dry_run THEN None ELSE file
  /\ UNCHANGED <<sharedVars, config, baselines, eventVars, conns, clock, hw, stale>>

PowerOff ==
  /\ pc = "kill"
  /\ ~config.dry_run
  /\ Exit("dead")
  /\ UNCHANGED <<config, world>>

ShutdownFails ==
  /\ ShutdownMayFail
  /\ pc = "kill"
  /\ ~config.dry_run
  /\ Exit("down")
  /\ file' = IF config.melt_self THEN None ELSE file
  /\ UNCHANGED <<config, clock, hw>>

Poll ==
  \/ PollTop \/ Rebaseline \/ TakeReload \/ Load \/ Recapture
  \/ DrainKill \/ SkipChecks \/ DetectViolations
  \/ CheckPower \/ CheckNetwork \/ CheckLid \/ CheckPci \/ CheckDisplay
  \/ AdmitPaired \/ Keep \/ RecordViolation \/ HandleViolation
  \/ KillReturns \/ PowerOff \/ ShutdownFails

---------------------------------------------------------------------------
(* The socket threads, the machine and its owner.                          *)
SocketFrame ==
  /\ stale' = (stale \/ ~armed')
  /\ UNCHANGED <<config, baselines, eventVars, pc, locals, world>>

Client(c) ==
  /\ Up
  /\ \E req \in Requests, caller \in Callers :
       /\ WithinHorizon(req)
       /\ \/ \E verdict \in Verdicts : Authorize(c, req, caller, verdict)
          \/ RunUnasked(c, req, caller)
  /\ SocketFrame

Serve(c) ==
  /\ Up
  /\ conns[c] # None
  /\ WithinHorizon(conns[c])
  /\ RunAuthorized(c)
  /\ SocketFrame

Tick ==
  /\ pc # "dead"
  /\ clock < Horizon
  /\ clock' = clock + 1
  /\ UNCHANGED <<sharedVars, config, baselines, eventVars, conns, pc, locals, hw, file, stale>>

ChangeHardware ==
  /\ pc # "dead"
  /\ \E h \in World : h # hw /\ hw' = h
  /\ UNCHANGED <<sharedVars, config, baselines, eventVars, conns, pc, locals, clock, file, stale>>

EditFile ==
  /\ MayEdit
  /\ pc # "dead"
  /\ \E f \in Files : f # file /\ file' = f
  /\ UNCHANGED <<sharedVars, config, baselines, eventVars, conns, pc, locals, clock, hw, stale>>

(* A panic, a signal or the out-of-memory killer.                          *)
Crash ==
  /\ MayCrash
  /\ Up
  /\ Exit("down")
  /\ UNCHANGED <<config, world>>

---------------------------------------------------------------------------
Init ==
  /\ clock = 0
  /\ hw \in World
  /\ file \in Files
  /\ config \in {Overridden(f) : f \in (IF file = None THEN Files ELSE {file}) \ {None}}
  /\ baselines = NoBaselines
  /\ InitState(StartMode)
  /\ InitEvents
  /\ conns = [c \in Conn |-> None]
  /\ pc = "down"
  /\ now = 0
  /\ needs_rebaseline = FALSE
  /\ is_armed = FALSE
  /\ remote_kill = FALSE
  /\ violation = None
  /\ stale = FALSE

Next ==
  \/ Start
  \/ Poll
  \/ \E c \in Conn : Client(c) \/ Serve(c)
  \/ Tick
  \/ ChangeHardware
  \/ EditFile
  \/ Crash

Spec == Init /\ [][Next]_vars

(* The loop keeps polling and time passes; the service manager restarts    *)
(* the daemon; an authorized request gets the lock.                        *)
Fairness ==
  /\ WF_vars(Poll)
  /\ WF_vars(Start)
  /\ WF_vars(Tick)
  /\ \A c \in Conn : WF_vars(Serve(c))

FairSpec == Spec /\ Fairness

============================================================================
