-------------------------- MODULE DaemonProperties --------------------------
(***************************************************************************)
(* What a plugkill daemon has to keep true, over the behaviours of         *)
(* PlugkillDaemon.  The runs say which of these they check and where; the  *)
(* last section holds what the documentation says and the code does not do. *)
(***************************************************************************)
EXTENDS PlugkillDaemon

LoopTypeOK ==
  /\ pc \in {"down", "dead", "top", "rebaseline", "reload", "load", "recapture", "check",
             "power", "network", "lid", "pci", "display", "admit", "record", "handle", "kill"}
  /\ now \in 0..clock
  /\ needs_rebaseline \in BOOLEAN
  /\ is_armed \in BOOLEAN
  /\ remote_kill \in BOOLEAN
  /\ violation \in Violation \cup {None}
  /\ violation # None => (violation.appeared => violation.id # None)
  /\ pc \in {"admit", "record", "handle", "kill"} => violation # None
  /\ \A b \in {"power", "network", "lid", "pci", "display"} : pc = b => Watched(b)
  /\ file \in Files \cup {None}
  /\ stale \in BOOLEAN

(* Every variable stays in its type: daemon_state.rs:80, state.rs:44.  A   *)
(* check that has a step is of a bus with something to compare against,    *)
(* and only something with an identity is a candidate for admission.       *)
TypeOK == StateTypeOK /\ EventTypeOK /\ SocketTypeOK /\ LoopTypeOK

(* There is no indefinite disarm: a daemon is disarmed exactly while it    *)
(* has a deadline, and the deadline is never more than the maximum away,   *)
(* whatever the socket threads and the loop do in between.                 *)
DisarmHasDeadline ==
  /\ armed <=> disarm_until = None
  /\ disarm_until # None => disarm_until <= clock + MAX_DISARM_SECS

Checking == pc \in {"check", "power", "network", "lid", "pci", "display"}

(* No check of an armed daemon with no re-arm pending compares with a      *)
(* baseline taken before a disarm that has since ended: main.rs takes      *)
(* armed and the re-baseline flag in one critical section for this.        *)
ChecksUseFreshBaseline ==
  Checking /\ armed /\ ~rebaseline_pending => ~stale

(* Where the daemon stands between two disarms.                            *)
Phase ==
  IF pc = "down" \/ pc = "dead" THEN "settling"
  ELSE IF ~armed THEN "open"
  ELSE IF rebaseline_pending \/ needs_rebaseline THEN "settling"
  ELSE "guarding"

(* A bus that is watched and has a baseline does not lose it while the     *)
(* daemon is guarding: a capture that fails can only leave a bus           *)
(* unmonitored in the settling that follows a disarm.                      *)
NeverBlind ==
  [][Phase = "guarding" /\ Phase' = "guarding"
       => \A b \in config'.watch : baselines[b] # None => baselines'[b] # None]_vars

NeighboursDiffer ==
  \A i \in 1..(Len(violations) - 1) : ~SameViolation(violations[i], violations[i + 1])

(* The violation being handled is the newest of the history, the limit of  *)
(* the history reached or not, so that allow_last promotes what was just   *)
(* reported; and one that fires poll after poll does not push a copy of    *)
(* itself.  Two that stand together do fill the history, in turns.         *)
NewestIsHandled ==
  /\ pc \in {"handle", "kill"} =>
       violations # <<>> /\ SameViolation(violations[1], violation)
  /\ NeighboursDiffer

---------------------------------------------------------------------------
(* The changes the checks would report on one bus, the allowances of time  *)
(* t taken into account.                                                   *)
ChangesOn(bus, t) ==
  IF ~Watched(bus) THEN {}
  ELSE CASE bus = "usb" ->
              UsbChanges(hw.usb, baselines["usb"], UsbWhitelist(config.whitelist, Active(t)))
         [] bus = "thunderbolt" ->
              SetChanges(hw.thunderbolt, baselines["thunderbolt"],
                         config.tb_whitelist \cup Active(t))
         [] bus = "sdcard" ->
              SetChanges(hw.sdcard, baselines["sdcard"], config.sd_whitelist \cup Active(t))
         [] bus = "pci" ->
              PciChanges(hw.pci \ (config.pci.ignore \cup Active(t)), baselines["pci"])
         [] bus = "display" ->
              DisplayChanges(
                HideAllowedDisplays(ListedDisplays(hw.display, config.display.ignore), Active(t)),
                HideAllowedDisplays(baselines["display"], Active(t)))

(* The buses whose allowance is taken into account at detection, on the    *)
(* side of the comparison that keeps a standing baseline comparable.       *)
DetectionBuses == {"usb", "thunderbolt", "sdcard", "display"}

Quiet(buses, t) == \A b \in buses : ChangesOn(b, t) = {}

NothingRevoked ==
  \A d \in DeviceRef : allowances[d] # None =>
    IsActive(allowances[d], clock) /\ IsActive(allowances'[d], clock)

(* A machine nothing has happened to stays quiet: no step that leaves the  *)
(* hardware, the configuration and the time alone, and lets no allowance   *)
(* lapse, makes the checks report a change.  A capture on a reload, with an *)
(* allowance standing, is where this was got wrong before.                 *)
QuietStaysQuiet ==
  [][Quiet(DetectionBuses, clock) /\ UNCHANGED <<hw, config, clock>> /\ NothingRevoked /\ pc # "down"
       => Quiet(DetectionBuses, clock)']_vars

(* A re-arm accepts what is plugged in: the poll that captured it finds    *)
(* nothing to report, whatever is allowed.  A PCI capture that fails is    *)
(* the exception, as it leaves the baseline there was.                     *)
RearmIsQuiet ==
  [][pc = "rebaseline" /\ pc' = "reload"
       => Quiet(DetectionBuses \cup ({"pci"} \ FaultyBuses), now)']_vars

(* An allowance is for a monitor and not for its port: one that is neither *)
(* allowed nor what the baseline has there is reported, whichever others   *)
(* are allowed, unless its connector is ignored.                           *)
StrangerIsSeen ==
  Watched("display") =>
    \A c \in Connector \ config.display.ignore :
      hw.display[c] \in Monitor \ (Active(clock) \cup {baselines["display"][c]})
        => ChangesOn("display", clock) # {}

(* The buses that have a policy, and what the check of each compares: the  *)
(* adapter with its baseline, the links that were up, a lid that was not   *)
(* closed, and the devices.                                                *)
PolicyBus == EventBus \cup {"pci", "display"}

Differs(bus, t) ==
  CASE bus = "power"   -> Watched("power") /\ hw.power # baselines["power"]
    [] bus = "network" -> Watched("network") /\ LinksDown # {}
    [] bus = "lid"     -> Watched("lid") /\ LidClosed /\ baselines["lid"] # "Closed"
    [] OTHER           -> ChangesOn(bus, t) # {}

(* A bus that is only monitored reports a change once: the check that sees *)
(* one leaves a baseline that no longer differs, and one that sees none    *)
(* leaves the baseline alone.  Where PCI cannot be read, its check does    *)
(* the second whatever there is to see.                                    *)
MonitoredIsLoggedOnce ==
  [][\A b \in PolicyBus, t \in {now} :
       pc = b /\ pc' # b /\ Up' /\ config[b].policy = "Monitor" =>
         \/ ~Differs(b, t)' /\ (Differs(b, t) \/ UNCHANGED baselines)
         \/ b \in FaultyBuses /\ UNCHANGED baselines]_vars

(* The buses whose baseline is a set of ids.                               *)
IdBuses == {"thunderbolt", "sdcard", "pci"}

(* A step takes device d into a baseline: its id into a set, every         *)
(* instance of it on USB, or its monitor at a connector it was not at.     *)
TakesIn(d) ==
  \/ \E b \in IdBuses :
       /\ baselines'[b] # None /\ d \in baselines'[b]
       /\ baselines[b] = None \/ d \notin baselines[b]
  \/ /\ d \in UsbId
     /\ baselines'["usb"] \notin {None, baselines["usb"]}
     /\ hw.usb[d] > 0 /\ baselines'["usb"][d] >= hw.usb[d]
  \/ /\ d \in Monitor
     /\ baselines'["display"] # None
     /\ \E c \in Connector :
          /\ baselines'["display"][c] = d
          /\ baselines["display"] = None \/ baselines["display"][c] # d

AllowedStaysOut == [][\A d \in Active(clock) : ~TakesIn(d)]_vars

(* One admitted through a pairing window was in no baseline that goes by   *)
(* ids to begin with.                                                      *)
PairedOutside ==
  \A d \in Active(clock) : allowances[d].granted_by = "Paired" =>
    \A b \in IdBuses : baselines[b] # None => d \notin baselines[b]

PairedStaysOut == [][PairedOutside']_vars

(* A capture leaves no allowed monitor in the display baseline, not even   *)
(* at the connector it was at before it was admitted at another.           *)
MonitorDropped ==
  [][pc' # pc /\ pc \in {"rebaseline", "recapture"} /\ baselines'["display"] # None
       => \A c \in Connector : baselines'["display"][c] \notin Monitor \cap Active(clock)]_vars

(* No re-arm, reload or check takes an allowed device into the baseline of *)
(* any bus while its allowance stands, which is what makes revoking it     *)
(* mean anything.  On Thunderbolt, SD card and PCI one that was paired is  *)
(* in none; an admitted monitor may stay in the baseline at the connector  *)
(* it came from, until the next capture.                                   *)
PairedKeptOut == PairedStaysOut /\ AllowedStaysOut /\ MonitorDropped

(* Under a file that requires authentication, as every file before it did, *)
(* and with nobody able to give it, a client of the socket weakens nothing: *)
(* the daemon stays armed and in enforce mode, with no allowance, no       *)
(* window and no pending re-capture.                                       *)
LockedDown ==
  Up /\ config.require_auth => /\ armed /\ mode = "Enforce"
        /\ allowances = NoAllowances /\ pairing = None
        /\ ~reload_pending /\ ~rebaseline_pending /\ ~needs_rebaseline

(* ... and what it accepts stays what it accepted at startup, but for a    *)
(* bus that is only monitored.                                             *)
Follows == {b \in PolicyBus : config[b].policy = "Monitor"}

LockedDownBaselines ==
  [][config.require_auth /\ Up /\ Up'
       => \A b \in Bus \ Follows : baselines'[b] = baselines[b]]_vars

---------------------------------------------------------------------------
(* A grace period that is running is the one its bus announced: counted    *)
(* from when the condition was first seen, with an end that stays where it *)
(* is, or goes with a reload to what the file now says from the same start. *)
CountdownKept ==
  [][\A b \in EventBus : grace[b] # None /\ grace'[b] # None =>
       /\ since'[b] = since[b]
       /\ \/ grace'[b] = grace[b]
          \/ pc = b /\ grace'[b] = since[b] + config[b].grace_secs]_vars

(* Unless it depends on the session lock, which may be turned long after   *)
(* the cable came out, a violation that has a grace period fires only      *)
(* after a countdown was running for it, and not before the grace is over. *)
FiresAfterCountdown ==
  [][pc' = "admit" /\ pc \in EventBus /\ config[pc].grace_secs > 0 /\ ~config.power.require_locked
       => grace[pc] # None /\ clock >= since[pc] + config[pc].grace_secs]_vars

(* So a grace period is neither cut short, nor drawn out, nor skipped.     *)
GraceKept == CountdownKept /\ FiresAfterCountdown

---------------------------------------------------------------------------
(* What is accepted changes through a disarm window only: the abstract     *)
(* specification of arming, implemented by the socket and the loop.        *)
DeviceBus == {"usb", "thunderbolt", "sdcard", "pci", "display"}

Narrows(bus, b, a) ==
  CASE bus = "usb"     -> \A d \in UsbId : b[d] <= a[d]
    [] bus = "display" -> \A c \in Connector : b[c] \in {a[c], "off"}
    [] OTHER           -> b \subseteq a

(* The buses some configuration only monitors.                             *)
MonitoredBuses ==
  {b \in {"pci", "display"} : \E cfg \in Configs : cfg[b].policy = "Monitor"}

Window ==
  INSTANCE DisarmWindow WITH
    phase <- Phase, accepted <- [b \in DeviceBus |-> baselines[b]],
    Buses <- DeviceBus, Nothing <- None, Narrower <- Narrows, Followed <- MonitoredBuses

DisarmWindowSpec == Window!Spec

---------------------------------------------------------------------------
(* Every disarm comes to an end unless it is extended.                     *)
DisarmEnds == \A t \in 0..Horizon : disarm_until = t ~> disarm_until # t

(* A kill the socket accepted is run, armed or not, unless the daemon is   *)
(* put in learn mode or goes down first.                                   *)
RemoteKillRuns == kill_pending ~> pc = "kill" \/ mode = "Learn" \/ ~Up

(* A change that stays is acted on: no daemon stays up, armed, enforcing   *)
(* and settled for ever beside an unaccepted device.                       *)
Intrusion ==
  /\ Up /\ armed /\ mode = "Enforce" /\ ~config.dry_run
  /\ ~Quiet(DeviceBus, clock)

IntruderIsKilled == []<>~Intrusion

(* A power cut that stays is acted on after its grace, if that ends before *)
(* the horizon does.                                                       *)
PowerCut ==
  /\ Up /\ armed /\ mode = "Enforce" /\ ~config.dry_run
  /\ Watched("power") /\ config.power.policy = "AcRequired"
  /\ config.power.require_locked => hw.locked # FALSE
  /\ OnBattery

CutIsKilled ==
  []<>~(/\ PowerCut /\ baselines["power"] # "Battery"
        /\ SinceNow("power") + config.power.grace_secs <= Horizon)

(* A reload asked for is served by what the file holds by then.            *)
ReloadIsServed ==
  \A f \in Files \ {None} :
    []((reload_pending /\ Up /\ [](file = f /\ Up)) => <>(config = Overridden(f)))

---------------------------------------------------------------------------
(* README.md says that an allowance lets a device through without          *)
(* disarming anything.  One granted for a PCI device that is in the        *)
(* baseline is itself reported as a removal.                               *)
AllowanceIsHarmless ==
  [][Quiet({"pci"}, clock) /\ UNCHANGED <<hw, config, clock>> /\ NothingRevoked /\ pc # "down"
       => Quiet({"pci"}, clock)']_vars

(* README.md says that an allowed monitor moved to another connector stays *)
(* allowed.  It does not on a connector the baseline did not list.         *)
AllowedMonitorMayMove ==
  \A change \in ChangesOn("display", clock) :
    change.kind = "Appeared" => hw.display[change.at] \notin Active(clock)

(* README.md says that an allowed device is kept out of the baseline while *)
(* the allowance stands.  One promoted from the history after a re-arm     *)
(* captured it is in the baseline already.                                 *)
AllowedKeptOut ==
  \A d \in Active(clock) : baselines["thunderbolt"] # None => d \notin baselines["thunderbolt"]

(* README.md says that a PCI capture that fails on a re-arm leaves the bus *)
(* unmonitored.  It leaves it compared with what it held before.           *)
FailedCaptureUnmonitors ==
  [][pc = "rebaseline" /\ pc' = "reload"
       => baselines'["pci"] \in {None, hw.pci \ (config.pci.ignore \cup Active(now))}]_vars

(* daemon_state.rs says that 50 slots hold 50 distinct events.  Of two     *)
(* devices that stand together a poll reports either, the head is refreshed *)
(* only when it is the same one, and the two fill the history in turns.    *)
SlotsDistinct ==
  \A i, j \in 1..Len(violations) : i # j => ~SameViolation(violations[i], violations[j])

(* daemon_state.rs says that power_unplug_at is when power went from AC to *)
(* battery.  The check of an adapter that is only monitored leaves the     *)
(* time of an earlier cut there although it sees AC: after a change of     *)
(* policy back, the next cut is dated by it and gets no grace.             *)
UnplugTimeIsOfThisCut ==
  [][pc = "power" /\ pc' # "power" /\ hw.power = "Ac" => since'["power"] = None]_vars

============================================================================
