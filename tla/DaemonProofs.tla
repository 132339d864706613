-------------------------- MODULE DaemonProofs --------------------------
(***************************************************************************)
(* The type invariant of PlugkillDaemon, its safety, and that it           *)
(* implements DisarmWindow, proved for every instance. The lemmas of the   *)
(* first part type the operators the daemon is built from.                 *)
(***************************************************************************)
EXTENDS DaemonProperties, SequenceTheorems, TLAPS

(* What the checks can find: a violation that may be admitted has a device *)
(* to admit.                                                               *)
Detectable == {v \in Violation : v.appeared => v.id # None}

(* The command line keeps a configuration a configuration.                 *)
LEMMA OverriddenType ==
  ASSUME NEW cfg \in Config
  PROVE  Overridden(cfg) \in Config
BY LoopAssumption DEF Overridden, Config

(* A file that can be loaded holds a configuration.                        *)
LEMMA FileType ==
  ASSUME NEW f \in Files, f # None
  PROVE  Overridden(f) \in Config
BY OverriddenType, LoopAssumption, DaemonAssumption

(* Events carry no device.                                                 *)
LEMMA EventType ==
  ASSUME NEW bus \in Bus \cup {"relay"}, NEW kind \in EventKind,
         NEW at \in {None} \cup Iface
  PROVE  Event(bus, kind, at) \in Detectable
BY DEF Event, Detectable, Violation

(* What a device bus reports is a violation that carries the device of the *)
(* change, when there is one.                                              *)
Changes ==
  [kind : ChangeKind, id : DeviceRef \cup {None},
   at   : {None} \cup PciId \cup Connector \cup (Nat \X Nat)]

LEMMA FoundType ==
  ASSUME NEW bus \in Bus, NEW change \in Changes
  PROVE  Found(bus, change) \in Detectable
<1>1. ASSUME NEW b \in BOOLEAN, b => change.id # None
      PROVE  Device(bus, change, b) \in Detectable
  BY <1>1 DEF Device, Detectable, Violation, Changes
<1>2. QED
  BY <1>1 DEF Found

LEMMA OutcomesType ==
  ASSUME NEW bus \in Bus, NEW changes \in SUBSET Changes
  PROVE  Outcomes(bus, changes) \subseteq Detectable \cup {None}
<1>1. EnumerationFailure(bus) \in Detectable
  BY EventType DEF EnumerationFailure, EventKind
<1>2. QED
  BY <1>1, FoundType DEF Outcomes

(* The comparisons return changes.                                         *)
LEMMA UsbChangesType ==
  ASSUME NEW current \in UsbSnapshot, NEW baseline \in UsbSnapshot,
         NEW whitelist \in UsbSnapshot
  PROVE  UsbChanges(current, baseline, whitelist) \subseteq Changes
<1>1. UsbGains(current, baseline, whitelist) \subseteq Changes
  BY DEF UsbGains, Change, ChangeKind, Changes, UsbSnapshot, DeviceRef
<1>2. UsbLosses(current, baseline) \subseteq Changes
  BY DEF UsbLosses, Change, ChangeKind, Changes, UsbSnapshot, DeviceRef
<1>3. QED
  BY <1>1, <1>2 DEF UsbChanges, FirstOf

LEMMA SetChangesType ==
  ASSUME NEW current \in SUBSET DeviceRef, NEW baseline \in SUBSET DeviceRef,
         NEW whitelist
  PROVE  SetChanges(current, baseline, whitelist) \subseteq Changes
BY DEF SetChanges, FirstOf, Change, ChangeKind, Changes

LEMMA PciChangesType ==
  ASSUME NEW current \in SUBSET PciId, NEW baseline \in SUBSET PciId
  PROVE  PciChanges(current, baseline) \subseteq Changes
BY DEF PciChanges, FirstOf, Change, ChangeKind, Changes, DeviceRef

LEMMA DisplayChangesType ==
  ASSUME NEW current, NEW baseline
  PROVE  DisplayChanges(current, baseline) \subseteq Changes
<1>1. \A port : Identity(port) \in DeviceRef \cup {None}
  BY DEF Identity, DeviceRef
<1>2. DisplayGains(current, baseline) \subseteq Changes
  BY <1>1 DEF DisplayGains, Change, ChangeKind, Changes
<1>3. DisplayLosses(current, baseline) \subseteq Changes
  BY DEF DisplayLosses, Change, ChangeKind, Changes
<1>4. QED
  BY <1>2, <1>3 DEF DisplayChanges, FirstOf

(* An allowance adds to a USB whitelist, hides a connector, and takes from *)
(* a baseline no more than there is.                                       *)
LEMMA UsbWhitelistType ==
  ASSUME NEW configured \in UsbSnapshot, NEW allowed
  PROVE  UsbWhitelist(configured, allowed) \in UsbSnapshot
BY DEF UsbWhitelist, UsbSnapshot

LEMMA SkipAllowedUsbType ==
  ASSUME NEW snapshot \in UsbSnapshot, NEW allowed
  PROVE  SkipAllowedUsb(snapshot, allowed) \in UsbSnapshot
BY DEF SkipAllowedUsb, UsbSnapshot

LEMMA HideAllowedDisplaysType ==
  ASSUME NEW snapshot \in DisplaySnapshot, NEW allowed
  PROVE  HideAllowedDisplays(snapshot, allowed) \in DisplaySnapshot
BY DEF HideAllowedDisplays, DisplaySnapshot, Port, Unplugged

LEMMA ListedDisplaysType ==
  ASSUME NEW snapshot \in DisplaySnapshot, NEW ignore
  PROVE  ListedDisplays(snapshot, ignore) \in DisplaySnapshot
BY DEF ListedDisplays, DisplaySnapshot, Port, Unplugged


---------------------------------------------------------------------------
(* A reading of the hardware types the baseline taken from it.             *)
LEMMA CapturedType ==
  ASSUME NEW S, NEW cfg, NEW bus, NEW only_missing, NEW broken, NEW reading \in S,
         baselines[bus] \in S \cup {None}
  PROVE  Captured(cfg, bus, only_missing, broken, reading) \in S \cup {None}
BY DEF Captured

LEMMA LinksType ==
  ASSUME NEW cfg, hw \in Hardware
  PROVE  Links(cfg) \in [Iface -> LinkState]
BY DEF Links, Hardware, LinkState

LEMMA CaptureBaselinesType ==
  ASSUME NEW cfg \in Config, NEW only_missing, NEW allowed, NEW broken,
         baselines \in Baselines, hw \in Hardware, EventTypeOK,
         CaptureBaselines(cfg, only_missing, allowed, broken)
  PROVE  baselines' \in Baselines /\ EventTypeOK'
<1> DEFINE Take(bus, reading) == Captured(cfg, bus, only_missing, broken, reading)
           listed == ListedDisplays(hw.display, cfg.display.ignore)
           display == Take("display", listed)
<1>1. Take("usb", SkipAllowedUsb(hw.usb, allowed)) \in UsbSnapshot \cup {None}
  BY CapturedType, SkipAllowedUsbType DEF Baselines, Hardware
<1>2. Without(Take("thunderbolt", hw.thunderbolt), allowed) \in (SUBSET TbId) \cup {None}
  <2>1. Take("thunderbolt", hw.thunderbolt) \in (SUBSET TbId) \cup {None}
    BY CapturedType DEF Baselines, Hardware
  <2>2. QED
    BY <2>1 DEF Without
<1>3. Without(Take("sdcard", hw.sdcard), allowed) \in (SUBSET SdId) \cup {None}
  <2>1. Take("sdcard", hw.sdcard) \in (SUBSET SdId) \cup {None}
    BY CapturedType DEF Baselines, Hardware
  <2>2. QED
    BY <2>1 DEF Without
<1>4. Take("pci", hw.pci \ (cfg.pci.ignore \cup allowed)) \in (SUBSET PciId) \cup {None}
  <2>1. hw.pci \ (cfg.pci.ignore \cup allowed) \in SUBSET PciId
    BY DEF Hardware
  <2>2. QED
    BY <2>1, CapturedType DEF Baselines
<1>5. (IF display = None THEN None ELSE HideAllowedDisplays(display, allowed))
        \in DisplaySnapshot \cup {None}
  <2>1. display \in DisplaySnapshot \cup {None}
    BY CapturedType, ListedDisplaysType DEF Baselines, Hardware
  <2>2. QED
    BY <2>1, HideAllowedDisplaysType
<1>6. Take("power", hw.power) \in PowerState \cup {None}
  BY CapturedType DEF Baselines, Hardware
<1>7. Take("network", Links(cfg)) \in [Iface -> LinkState] \cup {None}
  BY CapturedType, LinksType DEF Baselines
<1>8. Take("lid", hw.lid) \in LidState \cup {None}
  BY CapturedType DEF Baselines, Hardware
<1>9. baselines' \in Baselines
  <2> HIDE DEF Take, display
  <2>1. baselines' =
          [usb         |-> Take("usb", SkipAllowedUsb(hw.usb, allowed)),
           thunderbolt |-> Without(Take("thunderbolt", hw.thunderbolt), allowed),
           sdcard      |-> Without(Take("sdcard", hw.sdcard), allowed),
           pci         |-> Take("pci", hw.pci \ (cfg.pci.ignore \cup allowed)),
           display     |-> IF display = None THEN None
                           ELSE HideAllowedDisplays(display, allowed),
           power       |-> Take("power", hw.power),
           network     |-> Take("network", Links(cfg)),
           lid         |-> Take("lid", hw.lid)]
    BY DEF CaptureBaselines, Take, display
  <2>2. QED
    BY <1>1, <1>2, <1>3, <1>4, <1>5, <1>6, <1>7, <1>8, <2>1 DEF Baselines
<1>10. EventTypeOK'
  BY DEF CaptureBaselines, ResetTimers, EventTypeOK
<1>11. QED
  BY <1>9, <1>10

---------------------------------------------------------------------------
(* The history stays within its length, and holds violations.              *)
LEMMA RecordedType ==
  ASSUME NEW v \in Violation, violations \in Seq(Violation), Len(violations) <= HISTORY_LEN
  PROVE  Recorded(v) \in Seq(Violation) /\ Len(Recorded(v)) <= HISTORY_LEN
<1> DEFINE longer == <<v>> \o violations
           n == IF Len(longer) < HISTORY_LEN THEN Len(longer) ELSE HISTORY_LEN
<1>1. longer \in Seq(Violation) /\ Len(longer) \in Nat
  OBVIOUS
<1>2. n \in Nat /\ n <= HISTORY_LEN /\ n <= Len(longer)
  BY <1>1, DaemonAssumption
<1>3. \A i \in 1..n : longer[i] \in Violation
  <2> HIDE DEF longer, n
  <2>1. TAKE i \in 1..n
  <2>2. i \in 1..Len(longer)
    BY <1>1, <1>2
  <2>3. QED
    BY <1>1, <2>2, ElementOfSeq
<1>4. SubSeq(longer, 1, n) \in Seq(Violation) /\ Len(SubSeq(longer, 1, n)) <= HISTORY_LEN
  <2> HIDE DEF longer, n
  <2>1. SubSeq(longer, 1, n) \in Seq(Violation)
    BY <1>2, <1>3, SubSeqProperties
  <2>2. Len(SubSeq(longer, 1, n)) = IF 1 <= n THEN n - 1 + 1 ELSE 0
    BY <1>2, <1>3, SubSeqProperties
  <2>3. QED
    BY <1>2, <2>1, <2>2, DaemonAssumption
<1>5. Truncate(longer) = SubSeq(longer, 1, n)
  BY DEF Truncate
<1>6. QED
  BY <1>4, <1>5 DEF Recorded

(* Wrapping keeps the counter of logged violations in its width.           *)
LEMMA WrapType ==
  ASSUME violations_logged \in 0..(LOG_WRAP - 1)
  PROVE  (violations_logged + 1) % LOG_WRAP \in 0..(LOG_WRAP - 1)
BY DaemonAssumption

(* Every handler keeps the shared state in its types.                      *)
LEMMA DispatchType ==
  ASSUME NEW req \in Requests, NEW caller, SharedTypeOK, clock \in 0..Horizon,
         Dispatch(req, caller)
  PROVE  SharedTypeOK'
<1> USE DEF SharedTypeOK
<1>1. /\ req.secs \in Nat
      /\ req.for \in Nat \cup {None}
  BY SocketAssumption DEF Request
<1>2. clock \in Nat
  BY DaemonAssumption
<1>3. CASE HandleDisarm(req.secs)
  <2>1. clock + req.secs \in Nat
    BY <1>1, <1>2
  <2>2. QED
    BY <1>3, <2>1 DEF HandleDisarm
<1>4. CASE HandleArm
  BY <1>4 DEF HandleArm
<1>5. CASE HandleMode("Learn") \/ HandleMode("Enforce")
  BY <1>5 DEF HandleMode
<1>6. CASE HandleReload
  BY <1>6 DEF HandleReload
<1>7. CASE HandlePair(req.secs, req.for)
  BY <1>1, <1>2, <1>7 DEF HandlePair, PairingWindow
<1>8. CASE HandleAllowLast(req.for)
  <2>1. NewAllowance("Promoted", clock, req.for) \in Allowance
    BY <1>1, <1>2 DEF NewAllowance, Allowance
  <2>2. allowances' \in [DeviceRef -> Allowance \cup {None}]
    BY <1>8, <2>1 DEF HandleAllowLast
  <2>3. QED
    BY <1>8, <2>2 DEF HandleAllowLast
<1>9. CASE HandleRevoke({req.id}) \/ HandleRevoke(DeviceRef)
  BY <1>9 DEF HandleRevoke
<1>10. CASE HandleKill(caller)
  BY <1>10, WrapType DEF HandleKill
<1>11. QED
  BY <1>3, <1>4, <1>5, <1>6, <1>7, <1>8, <1>9, <1>10 DEF Dispatch

---------------------------------------------------------------------------
(* The countdowns hold readings of the clock and deadlines.                *)
LEMMA CountdownType ==
  ASSUME NEW bus \in EventBus, NEW secs \in Nat, EventTypeOK, clock \in Nat,
         \/ Clear(bus)
         \/ Wait(bus, secs)
         \/ Elapse(bus, secs)
  PROVE  /\ since' \in [EventBus -> Nat \cup {None}]
         /\ grace' \in [EventBus -> Nat \cup {None}]
<1>1. SinceNow(bus) \in Nat
  BY DEF SinceNow, EventTypeOK
<1>2. SinceNow(bus) + secs \in Nat
  BY <1>1
<1>3. QED
  BY <1>1, <1>2 DEF EventTypeOK, Clear, Wait, Elapse

(* A check moves the baseline of its own bus only, so that the ones after  *)
(* it keep something to compare with.                                      *)
OthersWatched(bus) == \A b \in Bus \ {bus} : Watched(b) => Watched(b)'

LEMMA FollowKeepsOthers ==
  ASSUME NEW bus \in Bus, NEW reading, baselines \in Baselines,
         Follow(bus, reading), UNCHANGED config
  PROVE  OthersWatched(bus)
BY DEF OthersWatched, Follow, Baselines, Watched, Bus

LEMMA UnchangedKeepsOthers ==
  ASSUME NEW bus, UNCHANGED <<config, baselines>>
  PROVE  OthersWatched(bus)
BY DEF OthersWatched, Watched

LEMMA PowerType ==
  ASSUME StateTypeOK, EventTypeOK, PowerQuiet \/ PowerFires, UNCHANGED config
  PROVE  baselines' \in Baselines /\ EventTypeOK' /\ OthersWatched("power")
<1> USE DEF StateTypeOK, EventTypeOK
<1>1. /\ clock \in Nat
      /\ config.power.grace_secs \in Nat
      /\ "power" \in EventBus
  BY DaemonAssumption DEF Config, PowerConfig, EventBus
<1>2. CASE Accept("power", hw.power)
  <2>1. baselines' \in Baselines
    BY <1>2 DEF Accept, Follow, Baselines, Hardware
  <2>2. QED
    BY <1>2, <2>1, FollowKeepsOthers DEF Accept, Bus
<1>3. CASE UNCHANGED <<baselines, power_trigger_once_fired>> /\ PowerQuiet
  <2>1. OthersWatched("power") /\ baselines' \in Baselines
    BY <1>3, UnchangedKeepsOthers
  <2>2. CASE Clear("power") \/ Wait("power", config.power.grace_secs)
    BY <1>1, <1>3, <2>1, <2>2, CountdownType
  <2>3. CASE UNCHANGED <<since, grace>>
    BY <1>3, <2>1, <2>3
  <2>4. CASE /\ since' = [since EXCEPT !["power"] = SinceNow("power")]
             /\ grace' = [grace EXCEPT !["power"] = None]
    BY <1>1, <1>3, <2>1, <2>4 DEF SinceNow
  <2>5. CASE Accept("power", hw.power)
    BY <1>2, <2>5
  <2>6. QED
    BY <1>3, <2>2, <2>3, <2>4, <2>5 DEF PowerQuiet
<1>4. CASE PowerFires
  <2>1. OthersWatched("power") /\ baselines' \in Baselines
    BY <1>4, UnchangedKeepsOthers DEF PowerFires
  <2>2. power_trigger_once_fired' \in BOOLEAN
    BY <1>4 DEF PowerFires
  <2>3. QED
    BY <1>1, <1>4, <2>1, <2>2, CountdownType DEF PowerFires
<1>5. QED
  BY <1>2, <1>3, <1>4 DEF PowerQuiet

LEMMA NetworkType ==
  ASSUME StateTypeOK, EventTypeOK, NetworkQuiet \/ NetworkFires, UNCHANGED config
  PROVE  baselines' \in Baselines /\ EventTypeOK' /\ OthersWatched("network")
<1> USE DEF StateTypeOK, EventTypeOK
<1>1. /\ clock \in Nat
      /\ config.network.grace_secs \in Nat
      /\ "network" \in EventBus
  BY DaemonAssumption DEF Config, NetworkConfig, EventBus
<1>2. CASE Accept("network", Links(config))
  <2>1. baselines' \in Baselines
    BY <1>2, LinksType DEF Accept, Follow, Baselines
  <2>2. QED
    BY <1>2, <2>1, FollowKeepsOthers DEF Accept, Bus
<1>3. CASE /\ UNCHANGED <<baselines, power_trigger_once_fired>>
           /\ \/ Clear("network")
              \/ Wait("network", config.network.grace_secs)
              \/ Elapse("network", config.network.grace_secs)
  BY <1>1, <1>3, CountdownType, UnchangedKeepsOthers
<1>4. QED
  BY <1>2, <1>3 DEF NetworkQuiet, NetworkFires

LEMMA LidType ==
  ASSUME StateTypeOK, EventTypeOK, LidQuiet \/ LidFires, UNCHANGED config
  PROVE  baselines' \in Baselines /\ EventTypeOK' /\ OthersWatched("lid")
<1> USE DEF StateTypeOK, EventTypeOK
<1>1. /\ clock \in Nat
      /\ config.lid.grace_secs \in Nat
      /\ "lid" \in EventBus
  BY DaemonAssumption DEF Config, LidConfig, EventBus
<1>2. CASE Accept("lid", hw.lid)
  <2>1. baselines' \in Baselines
    BY <1>2 DEF Accept, Follow, Baselines, Hardware
  <2>2. QED
    BY <1>2, <2>1, FollowKeepsOthers DEF Accept, Bus
<1>3. CASE /\ UNCHANGED <<baselines, power_trigger_once_fired>>
           /\ \/ Clear("lid")
              \/ Wait("lid", config.lid.grace_secs)
              \/ Elapse("lid", config.lid.grace_secs)
  BY <1>1, <1>3, CountdownType, UnchangedKeepsOthers
<1>4. CASE UNCHANGED <<baselines, power_trigger_once_fired, since, grace>>
  BY <1>4, UnchangedKeepsOthers
<1>5. QED
  BY <1>2, <1>3, <1>4 DEF LidQuiet, LidFires

---------------------------------------------------------------------------
(* Where a check leaves the loop: at a later one of a bus that is watched, *)
(* at the top, or with a violation to admit or to keep.                    *)
LEMMA SleepType ==
  ASSUME LoopTypeOK, Sleep, clock' \in Nat, file' \in Files \cup {None}, UNCHANGED stale
  PROVE  LoopTypeOK'
<1>1. now' \in 0..clock'
  BY DEF Sleep
<1>2. QED
  BY <1>1 DEF LoopTypeOK, Sleep, Watched

LEMMA PausesType ==
  ASSUME LoopTypeOK, Sleep, clock \in Nat, UNCHANGED <<clock, file, stale>>
  PROVE  LoopTypeOK'
<1>1. file \in Files \cup {None}
  BY DEF LoopTypeOK
<1>2. QED
  BY <1>1, SleepType

LEMMA NextCheckType ==
  ASSUME LoopTypeOK, NextCheck, clock \in Nat, OthersWatched(pc),
         UNCHANGED <<clock, file, stale>>
  PROVE  LoopTypeOK'
<1>1. CASE Sleep
  BY <1>1, PausesType
<1>2. ASSUME NEW b \in Later, Goto(b)
      PROVE  LoopTypeOK'
  <2>1. b \in {"power", "network", "lid", "pci", "display"} /\ Watched(b)
    BY DEF Later
  <2>2. b # pc
    BY DEF Later, Order
  <2>3. Watched(b)'
    BY <2>1, <2>2 DEF OthersWatched, Bus
  <2>4. QED
    BY <1>2, <2>1, <2>3 DEF LoopTypeOK, Goto, locals
<1>3. QED
  BY <1>1, <1>2 DEF NextCheck

LEMMA DetectsType ==
  ASSUME LoopTypeOK, NEW v \in Detectable, Detects(v), UNCHANGED <<clock, file, stale>>
  PROVE  LoopTypeOK'
BY ViolationAssumption DEF LoopTypeOK, Detects, Detectable

(* What each of the device buses finds can be kept or admitted.            *)
LEMMA UsbOutcomesType ==
  ASSUME StateTypeOK, NEW allowed
  PROVE  UsbOutcomes(allowed) \subseteq Detectable \cup {None}
<1>1. CASE ~Watched("usb")
  BY <1>1 DEF UsbOutcomes
<1>2. CASE Watched("usb")
  <2>1. /\ hw.usb \in UsbSnapshot
        /\ baselines["usb"] \in UsbSnapshot
        /\ config.whitelist \in UsbSnapshot
        /\ "usb" \in Bus
    BY <1>2 DEF StateTypeOK, Watched, Baselines, Hardware, Config, Bus
  <2>2. UsbWhitelist(config.whitelist, allowed) \in UsbSnapshot
    BY <2>1, UsbWhitelistType
  <2>3. UsbChanges(hw.usb, baselines["usb"], UsbWhitelist(config.whitelist, allowed))
          \subseteq Changes
    BY <2>1, <2>2, UsbChangesType
  <2>4. QED
    BY <1>2, <2>1, <2>3, OutcomesType DEF UsbOutcomes
<1>3. QED
  BY <1>1, <1>2

LEMMA SetOutcomesType ==
  ASSUME StateTypeOK, NEW bus \in {"thunderbolt", "sdcard"},
         NEW current \in SUBSET DeviceRef, NEW whitelist
  PROVE  SetOutcomes(bus, current, whitelist) \subseteq Detectable \cup {None}
<1>1. CASE ~Watched(bus)
  BY <1>1 DEF SetOutcomes
<1>2. CASE Watched(bus)
  <2>1. baselines[bus] \in SUBSET DeviceRef
    BY <1>2 DEF StateTypeOK, Watched, Baselines, DeviceRef
  <2>2. SetChanges(current, baselines[bus], whitelist) \subseteq Changes
    BY <2>1, SetChangesType
  <2>3. QED
    BY <1>2, <2>2, OutcomesType DEF SetOutcomes, Bus
<1>3. QED
  BY <1>1, <1>2

LEMMA PciType ==
  ASSUME TypeOK, CheckPci
  PROVE  baselines' \in Baselines /\ LoopTypeOK'
<1> USE DEF TypeOK, StateTypeOK
<1>1. UNCHANGED <<clock, file, stale, config>> /\ clock \in Nat /\ pc = "pci"
  BY DaemonAssumption DEF CheckPci, world
<1>2. PciRead \in SUBSET PciId
  BY DEF PciRead, Hardware
<1>3. CASE NextCheck /\ UNCHANGED baselines
  BY <1>1, <1>3, NextCheckType, UnchangedKeepsOthers
<1>4. CASE NextCheck /\ Follow("pci", PciRead)
  <2>1. baselines' \in Baselines
    BY <1>2, <1>4 DEF Follow, Baselines
  <2>2. OthersWatched(pc)
    BY <1>1, <1>4, FollowKeepsOthers DEF Bus
  <2>3. QED
    BY <1>1, <1>4, <2>1, <2>2, NextCheckType
<1>5. ASSUME NEW c \in PciChanges(PciRead, baselines["pci"]),
             Detects(Found("pci", c)), UNCHANGED baselines
      PROVE  baselines' \in Baselines /\ LoopTypeOK'
  <2>1. Watched("pci")
    BY <1>1 DEF LoopTypeOK
  <2>2. baselines["pci"] \in SUBSET PciId
    BY <2>1 DEF Watched, Baselines
  <2>3. Found("pci", c) \in Detectable
    BY <1>2, <2>2, PciChangesType, FoundType DEF Bus
  <2>4. QED
    BY <1>1, <1>5, <2>3, DetectsType
<1>6. QED
  BY <1>3, <1>4, <1>5 DEF CheckPci

LEMMA DisplayType ==
  ASSUME TypeOK, CheckDisplay
  PROVE  baselines' \in Baselines /\ LoopTypeOK'
<1> USE DEF TypeOK, StateTypeOK
<1> DEFINE changes == DisplayChanges(DisplayRead,
                                     HideAllowedDisplays(baselines["display"], Active(now)))
<1>1. UNCHANGED <<clock, file, stale, config>> /\ clock \in Nat /\ pc = "display"
  BY DaemonAssumption DEF CheckDisplay, world
<1>2. DisplayRead \in DisplaySnapshot
  BY ListedDisplaysType, HideAllowedDisplaysType DEF DisplayRead, Hardware
<1>3. CASE NextCheck /\ UNCHANGED baselines
  BY <1>1, <1>3, NextCheckType, UnchangedKeepsOthers
<1>4. CASE NextCheck /\ Follow("display", DisplayRead)
  <2>1. baselines' \in Baselines
    BY <1>2, <1>4 DEF Follow, Baselines
  <2>2. OthersWatched(pc)
    BY <1>1, <1>4, FollowKeepsOthers DEF Bus
  <2>3. QED
    BY <1>1, <1>4, <2>1, <2>2, NextCheckType
<1>5. ASSUME NEW c \in changes, Detects(Found("display", c)), UNCHANGED baselines
      PROVE  baselines' \in Baselines /\ LoopTypeOK'
  <2>1. Found("display", c) \in Detectable
    BY DisplayChangesType, FoundType DEF Bus
  <2>2. QED
    BY <1>1, <1>5, <2>1, DetectsType
<1>6. QED
  BY <1>3, <1>4, <1>5 DEF CheckDisplay

---------------------------------------------------------------------------
(* A process that is gone leaves everything at its initial value.          *)
LEMMA ExitType ==
  ASSUME TypeOK, NEW to \in {"down", "dead"}, Exit(to), UNCHANGED <<clock, hw, config>>,
         file' \in Files \cup {None}
  PROVE  TypeOK'
<1> USE DEF TypeOK, Exit
<1>1. SharedTypeOK'
  <2>1. violations' \in Seq(Violation) /\ Len(violations') <= HISTORY_LEN
    BY EmptySeq, DaemonAssumption DEF NewState
  <2>2. violations_logged' \in 0..(LOG_WRAP - 1)
    BY DaemonAssumption DEF NewState
  <2>3. allowances' \in [DeviceRef -> Allowance \cup {None}]
    BY DEF NewState, NoAllowances
  <2>4. QED
    BY <2>1, <2>2, <2>3, LoopAssumption DEF NewState, SharedTypeOK
<1>2. StateTypeOK'
  BY <1>1 DEF StateTypeOK, NoBaselines, Baselines
<1>3. EventTypeOK'
  BY DEF NewEvents, NoTimers, EventTypeOK
<1>4. SocketTypeOK'
  BY DEF SocketTypeOK
<1>5. now' \in 0..clock'
  BY DaemonAssumption DEF StateTypeOK
<1>6. LoopTypeOK'
  BY <1>5 DEF LoopTypeOK, Watched
<1>7. QED
  BY <1>2, <1>3, <1>4, <1>6

(* A socket step leaves the loop and what it reads where they are.         *)
LEMMA SocketType ==
  ASSUME TypeOK, SocketFrame, SharedTypeOK', SocketTypeOK'
  PROVE  TypeOK'
<1> USE DEF TypeOK, SocketFrame
<1>1. StateTypeOK' /\ EventTypeOK'
  BY DEF StateTypeOK, EventTypeOK, eventVars, world
<1>2. LoopTypeOK'
  BY DEF LoopTypeOK, SharedTypeOK, Watched, locals, world
<1>3. QED
  BY <1>1, <1>2

LEMMA InitType == Init => TypeOK
<1> SUFFICES ASSUME Init PROVE TypeOK
  OBVIOUS
<1> USE DEF Init
<1>1. SharedTypeOK
  <2>1. violations \in Seq(Violation) /\ Len(violations) <= HISTORY_LEN
    BY EmptySeq, DaemonAssumption DEF InitState
  <2>2. violations_logged \in 0..(LOG_WRAP - 1)
    BY DaemonAssumption DEF InitState
  <2>3. allowances \in [DeviceRef -> Allowance \cup {None}]
    BY DEF InitState, NoAllowances
  <2>4. QED
    BY <2>1, <2>2, <2>3, LoopAssumption DEF InitState, SharedTypeOK
<1>2. config \in Config
  BY FileType
<1>3. StateTypeOK
  BY <1>1, <1>2, LoopAssumption, DaemonAssumption DEF StateTypeOK, NoBaselines, Baselines
<1>4. EventTypeOK
  BY DEF InitEvents, NoTimers, EventTypeOK
<1>5. SocketTypeOK
  BY DEF SocketTypeOK
<1>6. LoopTypeOK
  <2>1. now \in 0..clock
    OBVIOUS
  <2>2. QED
    BY <2>1 DEF LoopTypeOK, Watched
<1>7. QED
  BY <1>3, <1>4, <1>5, <1>6 DEF TypeOK

LEMMA StepType == TypeOK /\ [Next]_vars => TypeOK'
<1> SUFFICES ASSUME TypeOK, [Next]_vars PROVE TypeOK'
  OBVIOUS
<1> USE DEF TypeOK
<1> /\ clock \in Nat /\ Horizon \in Nat
    /\ now \in Nat
    /\ config \in Config
  BY DaemonAssumption DEF StateTypeOK, LoopTypeOK
<1>1. CASE Start
  <2>1. Overridden(file) \in Config
    BY <1>1, FileType DEF Start, FirstBaselines, LoopTypeOK
  <2>2. baselines' \in Baselines /\ EventTypeOK'
    BY <1>1, <2>1, CaptureBaselinesType DEF Start, FirstBaselines, StateTypeOK
  <2>3. StateTypeOK'
    BY <1>1, <2>1, <2>2 DEF Start, FirstBaselines, StateTypeOK, SharedTypeOK, sharedVars, world
  <2>4. SocketTypeOK'
    BY <1>1 DEF Start, FirstBaselines, SocketTypeOK
  <2>5. LoopTypeOK'
    BY <1>1 DEF Start, FirstBaselines, LoopTypeOK, Watched, locals, world
  <2>6. QED
    BY <2>2, <2>3, <2>4, <2>5
<1>2. CASE PollTop
  <2>1. Sweep(clock) \in [DeviceRef -> Allowance \cup {None}]
    BY DEF Sweep, StateTypeOK, SharedTypeOK
  <2>2. StateTypeOK'
    BY <1>2, <2>1 DEF PollTop, StateTypeOK, SharedTypeOK, world
  <2>3. EventTypeOK' /\ SocketTypeOK'
    BY <1>2 DEF PollTop, EventTypeOK, SocketTypeOK, eventVars
  <2>4. now' \in 0..clock'
    BY <1>2 DEF PollTop, world
  <2>5. LoopTypeOK'
    BY <1>2, <2>4 DEF PollTop, LoopTypeOK, StateTypeOK, SharedTypeOK, Watched, world
  <2>6. QED
    BY <2>2, <2>3, <2>5
<1>3. CASE Rebaseline
  <2>1. baselines' \in Baselines /\ EventTypeOK'
    BY <1>3, CaptureBaselinesType DEF Rebaseline, StateTypeOK
  <2>2. StateTypeOK' /\ SocketTypeOK'
    BY <1>3, <2>1 DEF Rebaseline, StateTypeOK, SharedTypeOK, SocketTypeOK, sharedVars, world
  <2>3. LoopTypeOK'
    BY <1>3 DEF Rebaseline, LoopTypeOK, StateTypeOK, SharedTypeOK, Watched, world
  <2>4. QED
    BY <2>1, <2>2, <2>3
<1>4. CASE TakeReload
  <2>1. StateTypeOK' /\ EventTypeOK' /\ SocketTypeOK'
    BY <1>4 DEF TakeReload, StateTypeOK, SharedTypeOK, EventTypeOK, SocketTypeOK, eventVars, world
  <2>2. LoopTypeOK'
    BY <1>4 DEF TakeReload, LoopTypeOK, Watched, locals, world
  <2>3. QED
    BY <2>1, <2>2
<1>5. CASE Load
  <2>1. config' \in Config
    BY <1>5, FileType DEF Load, LoopTypeOK
  <2>2. StateTypeOK' /\ EventTypeOK' /\ SocketTypeOK'
    BY <1>5, <2>1
    DEF Load, StateTypeOK, SharedTypeOK, EventTypeOK, SocketTypeOK, sharedVars, eventVars, world
  <2>3. LoopTypeOK'
    BY <1>5 DEF Load, LoopTypeOK, Watched, locals, world
  <2>4. QED
    BY <2>2, <2>3
<1>6. CASE Recapture
  <2>1. baselines' \in Baselines /\ EventTypeOK'
    BY <1>6, CaptureBaselinesType DEF Recapture, StateTypeOK
  <2>2. StateTypeOK' /\ SocketTypeOK'
    BY <1>6, <2>1 DEF Recapture, StateTypeOK, SharedTypeOK, SocketTypeOK, sharedVars, world
  <2>3. LoopTypeOK'
    BY <1>6 DEF Recapture, LoopTypeOK, Watched, locals, world
  <2>4. QED
    BY <2>1, <2>2, <2>3
<1>7. CASE DrainKill \/ SkipChecks \/ DetectViolations
  <2>1. StateTypeOK' /\ EventTypeOK' /\ SocketTypeOK'
    BY <1>7
    DEF DrainKill, SkipChecks, DetectViolations, StateTypeOK, SharedTypeOK, EventTypeOK,
        SocketTypeOK, sharedVars, eventVars, world
  <2>2. UNCHANGED <<clock, config, baselines, file, stale>>
    BY <1>7 DEF DrainKill, SkipChecks, DetectViolations, world
  <2>3. CASE Sleep
    BY <2>1, <2>2, <2>3, PausesType
  <2>4. CASE NextCheck
    BY <2>1, <2>2, <2>4, NextCheckType, UnchangedKeepsOthers
  <2>5. ASSUME NEW v \in Detectable, Detects(v)
        PROVE  TypeOK'
    BY <2>1, <2>2, <2>5, DetectsType
  <2>6. CASE DrainKill
    <3>1. Event("relay", "RemoteKill", None) \in Detectable
      BY EventType DEF EventKind
    <3>2. QED
      BY <2>5, <2>6, <3>1 DEF DrainKill
  <2>7. CASE DetectViolations
    <3>1. hw.thunderbolt \in SUBSET DeviceRef /\ hw.sdcard \in SUBSET DeviceRef
      BY DEF StateTypeOK, Hardware, DeviceRef
    <3>2. UsbOutcomes(Active(now)) \subseteq Detectable \cup {None}
      BY UsbOutcomesType
    <3>3. SetOutcomes("thunderbolt", hw.thunderbolt, config.tb_whitelist \cup Active(now))
            \subseteq Detectable \cup {None}
      BY <3>1, SetOutcomesType
    <3>4. SetOutcomes("sdcard", hw.sdcard, config.sd_whitelist \cup Active(now))
            \subseteq Detectable \cup {None}
      BY <3>1, SetOutcomesType
    <3>5. NextCheck \/ \E v \in Detectable : Detects(v)
      BY <2>7, <3>2, <3>3, <3>4 DEF DetectViolations
    <3>6. QED
      BY <2>4, <2>5, <3>5
  <2>8. QED
    BY <1>7, <2>3, <2>6, <2>7 DEF SkipChecks
<1>8. CASE CheckPower \/ CheckNetwork \/ CheckLid
  <2>1. UNCHANGED <<clock, config, file, stale>>
    BY <1>8 DEF CheckPower, CheckNetwork, CheckLid, world
  <2>2. baselines' \in Baselines /\ EventTypeOK' /\ OthersWatched(pc)
    BY <1>8, <2>1, PowerType, NetworkType, LidType DEF CheckPower, CheckNetwork, CheckLid
  <2>3. StateTypeOK' /\ SocketTypeOK'
    BY <1>8, <2>2
    DEF CheckPower, CheckNetwork, CheckLid, StateTypeOK, SharedTypeOK, SocketTypeOK,
        sharedVars, world
  <2>4. NextCheck \/ \E v \in Detectable : Detects(v)
    <3>1. Event("power", "Unplugged", None) \in Detectable
      BY EventType DEF EventKind, Bus
    <3>2. \A j \in LinksDown : Event("network", "LinkDown", j) \in Detectable
      BY EventType DEF EventKind, Bus, LinksDown
    <3>3. Event("lid", "Closed", None) \in Detectable
      BY EventType DEF EventKind, Bus
    <3>4. QED
      BY <1>8, <3>1, <3>2, <3>3 DEF CheckPower, CheckNetwork, CheckLid
  <2>5. LoopTypeOK'
    BY <2>1, <2>2, <2>4, NextCheckType, DetectsType
  <2>6. QED
    BY <2>2, <2>3, <2>5
<1>9. CASE CheckPci \/ CheckDisplay
  <2>1. baselines' \in Baselines /\ LoopTypeOK'
    BY <1>9, PciType, DisplayType
  <2>2. StateTypeOK' /\ EventTypeOK' /\ SocketTypeOK'
    BY <1>9, <2>1
    DEF CheckPci, CheckDisplay, StateTypeOK, SharedTypeOK, EventTypeOK, SocketTypeOK,
        sharedVars, eventVars, world
  <2>3. QED
    BY <2>1, <2>2
<1>10. CASE AdmitPaired
  <2>1. NewAllowance("Paired", now, pairing.ttl) \in Allowance
    <3>1. pairing.ttl \in Nat \cup {None}
      BY <1>10 DEF AdmitPaired, Admissible, StateTypeOK, SharedTypeOK, PairingWindow
    <3>2. QED
      BY <3>1 DEF NewAllowance, Allowance
  <2>2. allowances' \in [DeviceRef -> Allowance \cup {None}]
    BY <1>10, <2>1 DEF AdmitPaired, StateTypeOK, SharedTypeOK
  <2>3. StateTypeOK' /\ EventTypeOK' /\ SocketTypeOK'
    BY <1>10, <2>2
    DEF AdmitPaired, StateTypeOK, SharedTypeOK, EventTypeOK, SocketTypeOK, eventVars, world
  <2>4. LoopTypeOK'
    BY <1>10, <2>3, PausesType DEF AdmitPaired, world
  <2>5. QED
    BY <2>3, <2>4
<1>11. CASE Keep
  <2>1. StateTypeOK' /\ EventTypeOK' /\ SocketTypeOK'
    BY <1>11
    DEF Keep, StateTypeOK, SharedTypeOK, EventTypeOK, SocketTypeOK, sharedVars, eventVars, world
  <2>2. LoopTypeOK'
    BY <1>11 DEF Keep, Goto, LoopTypeOK, Watched, locals, world
  <2>3. QED
    BY <2>1, <2>2
<1>12. CASE RecordViolation
  <2>1. violation \in Violation
    BY <1>12 DEF RecordViolation, LoopTypeOK
  <2>2. violations' \in Seq(Violation) /\ Len(violations') <= HISTORY_LEN
    BY <1>12, <2>1, RecordedType DEF RecordViolation, StateTypeOK, SharedTypeOK
  <2>3. StateTypeOK' /\ EventTypeOK' /\ SocketTypeOK'
    BY <1>12, <2>2
    DEF RecordViolation, StateTypeOK, SharedTypeOK, EventTypeOK, SocketTypeOK, eventVars, world
  <2>4. LoopTypeOK'
    BY <1>12 DEF RecordViolation, Goto, LoopTypeOK, Watched, locals, world
  <2>5. QED
    BY <2>3, <2>4
<1>13. CASE HandleViolation
  <2>1. violations_logged' \in 0..(LOG_WRAP - 1)
    BY <1>13, WrapType DEF HandleViolation, StateTypeOK, SharedTypeOK
  <2>2. StateTypeOK' /\ EventTypeOK' /\ SocketTypeOK'
    BY <1>13, <2>1
    DEF HandleViolation, StateTypeOK, SharedTypeOK, EventTypeOK, SocketTypeOK, eventVars, world
  <2>3. CASE Sleep
    BY <1>13, <2>2, <2>3, PausesType DEF HandleViolation, world
  <2>4. CASE Goto("kill")
    <3>1. LoopTypeOK'
      BY <1>13, <2>4 DEF HandleViolation, Goto, LoopTypeOK, Watched, locals, world
    <3>2. QED
      BY <2>2, <3>1
  <2>5. QED
    BY <1>13, <2>3, <2>4 DEF HandleViolation
<1>14. CASE KillReturns
  <2>1. StateTypeOK' /\ EventTypeOK' /\ SocketTypeOK'
    BY <1>14
    DEF KillReturns, StateTypeOK, SharedTypeOK, EventTypeOK, SocketTypeOK, sharedVars, eventVars, world
  <2>2. file' \in Files \cup {None}
    BY <1>14 DEF KillReturns, LoopTypeOK
  <2>3. QED
    BY <1>14, <2>1, <2>2, SleepType DEF KillReturns
<1>15. CASE PowerOff
  BY <1>15, ExitType DEF PowerOff, LoopTypeOK, world
<1>16. CASE ShutdownFails
  <2>1. file' \in Files \cup {None}
    BY <1>16 DEF ShutdownFails, LoopTypeOK
  <2>2. QED
    BY <1>16, <2>1, ExitType DEF ShutdownFails
<1>17. ASSUME NEW c \in Conn, Client(c)
       PROVE  TypeOK'
  <2>1. PICK req \in Requests, caller \in Callers :
               \/ \E verdict \in Verdicts : Authorize(c, req, caller, verdict)
               \/ RunUnasked(c, req, caller)
    BY <1>17 DEF Client
  <2>2. SharedTypeOK'
    <3>1. CASE \E verdict \in Verdicts : Authorize(c, req, caller, verdict)
      BY <3>1 DEF Authorize, StateTypeOK, SharedTypeOK, sharedVars
    <3>2. CASE RunUnasked(c, req, caller)
      BY <3>2, DispatchType DEF RunUnasked, StateTypeOK
    <3>3. QED
      BY <2>1, <3>1, <3>2
  <2>3. SocketTypeOK'
    BY <2>1 DEF Authorize, RunUnasked, SocketTypeOK
  <2>4. QED
    BY <1>17, <2>2, <2>3, SocketType DEF Client
<1>18. ASSUME NEW c \in Conn, Serve(c)
       PROVE  TypeOK'
  <2>1. conns[c] \in Requests
    BY <1>18 DEF Serve, SocketTypeOK
  <2>2. SharedTypeOK'
    <3>1. CASE Dispatch(conns[c], "user")
      BY <2>1, <3>1, DispatchType DEF StateTypeOK
    <3>2. CASE UNCHANGED sharedVars
      BY <3>2 DEF StateTypeOK, SharedTypeOK, sharedVars
    <3>3. QED
      BY <1>18, <3>1, <3>2 DEF Serve, RunAuthorized
  <2>3. SocketTypeOK'
    BY <1>18 DEF Serve, RunAuthorized, SocketTypeOK
  <2>4. QED
    BY <1>18, <2>2, <2>3, SocketType DEF Serve
<1>19. CASE Tick
  <2>1. clock' \in 0..Horizon /\ now \in 0..clock'
    BY <1>19 DEF Tick, StateTypeOK, LoopTypeOK
  <2>2. StateTypeOK' /\ EventTypeOK' /\ SocketTypeOK'
    BY <1>19, <2>1
    DEF Tick, StateTypeOK, SharedTypeOK, EventTypeOK, SocketTypeOK, sharedVars, eventVars
  <2>3. LoopTypeOK'
    BY <1>19, <2>1 DEF Tick, LoopTypeOK, Watched, locals
  <2>4. QED
    BY <2>2, <2>3
<1>20. CASE ChangeHardware
  <2>1. hw' \in Hardware
    BY <1>20, LoopAssumption DEF ChangeHardware
  <2>2. StateTypeOK' /\ EventTypeOK' /\ SocketTypeOK'
    BY <1>20, <2>1
    DEF ChangeHardware, StateTypeOK, SharedTypeOK, EventTypeOK, SocketTypeOK, sharedVars,
        eventVars
  <2>3. LoopTypeOK'
    BY <1>20 DEF ChangeHardware, LoopTypeOK, Watched, locals
  <2>4. QED
    BY <2>2, <2>3
<1>21. CASE EditFile
  <2>1. StateTypeOK' /\ EventTypeOK' /\ SocketTypeOK'
    BY <1>21
    DEF EditFile, StateTypeOK, SharedTypeOK, EventTypeOK, SocketTypeOK, sharedVars, eventVars
  <2>2. LoopTypeOK'
    BY <1>21 DEF EditFile, LoopTypeOK, Watched, locals
  <2>3. QED
    BY <2>1, <2>2
<1>22. CASE Crash
  BY <1>22, ExitType DEF Crash, LoopTypeOK, world
<1>23. CASE UNCHANGED vars
  <2>1. StateTypeOK' /\ EventTypeOK' /\ SocketTypeOK'
    BY <1>23
    DEF vars, StateTypeOK, SharedTypeOK, EventTypeOK, SocketTypeOK, sharedVars, eventVars, world
  <2>2. LoopTypeOK'
    BY <1>23 DEF vars, LoopTypeOK, Watched, locals, world
  <2>3. QED
    BY <2>1, <2>2
<1>24. QED
  BY <1>1, <1>2, <1>3, <1>4, <1>5, <1>6, <1>7, <1>8, <1>9, <1>10, <1>11, <1>12, <1>13, <1>14,
     <1>15, <1>16, <1>17, <1>18, <1>19, <1>20, <1>21, <1>22, <1>23 DEF Next, Poll

(* Every variable of the daemon stays in its type, whatever the requests,  *)
(* the hardware, the files and the faults.                                 *)
THEOREM TypeCorrect == Spec => []TypeOK
<1>1. QED
  BY InitType, StepType, PTL DEF Spec

---------------------------------------------------------------------------
(***************************************************************************)
(* Safety, from the type invariant.                                        *)
(***************************************************************************)

(* Steps of the loop that leave the arming state alone.                    *)
Idle == UNCHANGED <<armed, disarm_until, clock>>

LEMMA LoopIdle ==
  ASSUME Start \/ Poll \/ ChangeHardware \/ EditFile \/ UNCHANGED vars
  PROVE  \/ Idle
         \/ PollTop
         \/ UNCHANGED clock /\ NewState(StartMode)
BY DEF Start, FirstBaselines, Poll, Rebaseline, TakeReload, Load, Recapture, DrainKill, SkipChecks,
       DetectViolations, CheckPower, CheckNetwork, CheckLid, CheckPci, CheckDisplay,
       AdmitPaired, Keep, RecordViolation, HandleViolation, KillReturns, PowerOff, ShutdownFails,
       ChangeHardware, EditFile, Exit, vars, sharedVars, world, Idle

LEMMA SocketSteps ==
  ASSUME NEW c \in Conn, Client(c) \/ Serve(c), TypeOK
  PROVE  /\ UNCHANGED clock
         /\ UNCHANGED sharedVars \/ \E req \in Requests, caller \in {"root", "user"} : Dispatch(req, caller)
BY SocketAssumption DEF Client, Serve, Authorize, RunUnasked, RunAuthorized, SocketFrame, world, TypeOK, SocketTypeOK

LEMMA DeadlineStep ==
  TypeOK /\ DisarmHasDeadline /\ [Next]_vars => DisarmHasDeadline'
<1> SUFFICES ASSUME TypeOK, DisarmHasDeadline, [Next]_vars
             PROVE  DisarmHasDeadline'
  OBVIOUS
<1> /\ clock \in Nat
    /\ MAX_DISARM_SECS \in Nat
    /\ armed \in BOOLEAN
    /\ disarm_until \in Nat \cup {None}
    /\ None \notin Nat
  BY DaemonAssumption, SocketAssumption, IdentityAssumption
  DEF TypeOK, StateTypeOK, SharedTypeOK
<1> USE DEF DisarmHasDeadline
<1>1. CASE Idle
  BY <1>1 DEF Idle
<1>2. CASE PollTop
  BY <1>2 DEF PollTop, world
<1>3. CASE UNCHANGED clock /\ NewState(StartMode)
  BY <1>3 DEF NewState
<1>4. CASE Tick
  BY <1>4 DEF Tick, sharedVars
<1>5. CASE Crash
  BY <1>5 DEF Crash, Exit, NewState, world
<1>6. ASSUME NEW c \in Conn, Client(c) \/ Serve(c)
      PROVE  DisarmHasDeadline'
  <2>1. UNCHANGED clock
    BY <1>6, SocketSteps
  <2>2. CASE UNCHANGED sharedVars
    BY <2>1, <2>2 DEF sharedVars
  <2>3. ASSUME NEW req \in Requests, NEW caller, Dispatch(req, caller)
        PROVE  DisarmHasDeadline'
    <3>1. req.secs \in Nat
      BY SocketAssumption DEF Request
    <3>2. CASE HandleDisarm(req.secs)
      BY <2>1, <3>1, <3>2 DEF HandleDisarm
    <3>3. CASE HandleArm
      BY <2>1, <3>3 DEF HandleArm
    <3>4. CASE UNCHANGED <<armed, disarm_until>>
      BY <2>1, <3>4
    <3>5. QED
      BY <2>3, <3>2, <3>3, <3>4
      DEF Dispatch, HandleMode, HandleReload, HandlePair, HandleAllowLast, HandleRevoke,
          HandleKill
  <2>4. QED
    BY <1>6, <2>2, <2>3, SocketSteps
<1>7. QED
  BY <1>1, <1>2, <1>3, <1>4, <1>5, <1>6, LoopIdle DEF Next

(* There is no indefinite disarm, whatever the requests and the timing.    *)
THEOREM DeadlineCorrect == Spec => []DisarmHasDeadline
<1>1. Init => DisarmHasDeadline
  BY DEF Init, InitState, DisarmHasDeadline
<1>2. QED
  BY <1>1, DeadlineStep, TypeCorrect, PTL DEF Spec

---------------------------------------------------------------------------
(* What the poll loop's one critical section keeps between a re-arm and    *)
(* the capture that follows it: a baseline from before a disarm is there   *)
(* only while the disarm lasts, the flag waits, or the loop has taken the  *)
(* flag and is about to capture.                                           *)
FreshInv == stale => ~armed \/ rebaseline_pending \/ pc = "rebaseline"

LEMMA FreshSocket ==
  ASSUME NEW c \in Conn, Client(c) \/ Serve(c), TypeOK, FreshInv
  PROVE  FreshInv'
<1>1. stale' = (stale \/ ~armed') /\ pc' = pc
  BY DEF Client, Serve, SocketFrame
<1>2. CASE UNCHANGED sharedVars
  BY <1>1, <1>2 DEF FreshInv, sharedVars
<1>3. ASSUME NEW req, NEW caller, Dispatch(req, caller)
      PROVE  FreshInv'
  BY <1>1, <1>3
  DEF FreshInv, Dispatch, HandleDisarm, HandleArm, HandleMode, HandleReload, HandlePair,
      HandleAllowLast, HandleRevoke, HandleKill
<1>4. QED
  BY <1>2, <1>3, SocketSteps

LEMMA FreshStep == TypeOK /\ FreshInv /\ [Next]_vars => FreshInv'
<1> SUFFICES ASSUME TypeOK, FreshInv, [Next]_vars PROVE FreshInv'
  OBVIOUS
<1> armed \in BOOLEAN /\ rebaseline_pending \in BOOLEAN
  BY DEF TypeOK, StateTypeOK, SharedTypeOK
<1> USE DEF FreshInv
<1>1. CASE PollTop
  BY <1>1 DEF PollTop
<1>2. CASE Rebaseline
  BY <1>2 DEF Rebaseline, sharedVars
<1>3. CASE PowerOff \/ ShutdownFails \/ Crash
  BY <1>3 DEF PowerOff, ShutdownFails, Crash, Exit
<1>4. CASE Start \/ TakeReload \/ Load \/ Recapture \/ DrainKill \/ SkipChecks \/ DetectViolations
           \/ CheckPower \/ CheckNetwork \/ CheckLid \/ CheckPci \/ CheckDisplay
           \/ AdmitPaired \/ Keep \/ RecordViolation \/ HandleViolation \/ KillReturns
  <2>1. UNCHANGED <<armed, rebaseline_pending, stale>> /\ pc # "rebaseline"
    BY <1>4
    DEF Start, FirstBaselines, TakeReload, Load, Recapture, DrainKill, SkipChecks, DetectViolations, CheckPower,
        CheckNetwork, CheckLid, CheckPci, CheckDisplay, AdmitPaired, Keep, RecordViolation,
        HandleViolation, KillReturns, sharedVars
  <2>2. QED
    BY <2>1
<1>5. CASE Tick \/ ChangeHardware \/ EditFile \/ UNCHANGED vars
  BY <1>5 DEF Tick, ChangeHardware, EditFile, vars, sharedVars
<1>6. QED
  BY <1>1, <1>2, <1>3, <1>4, <1>5, FreshSocket DEF Next, Poll

(* No check compares with what a disarm that ended has made stale.         *)
THEOREM FreshBaselineCorrect == Spec => []ChecksUseFreshBaseline
<1>1. Init => FreshInv
  BY DEF Init, FreshInv
<1>2. FreshInv => ChecksUseFreshBaseline
  BY DEF FreshInv, ChecksUseFreshBaseline, Checking
<1>3. QED
  BY <1>1, <1>2, FreshStep, TypeCorrect, PTL DEF Spec

---------------------------------------------------------------------------
(* Recording keeps the neighbours of the history distinct.                 *)
LEMMA RecordedDistinct ==
  ASSUME NEW v \in Violation, violations \in Seq(Violation), NeighboursDiffer
  PROVE  \A i \in 1..(Len(Recorded(v)) - 1) : ~SameViolation(Recorded(v)[i], Recorded(v)[i + 1])
<1> DEFINE longer == <<v>> \o violations
           n == IF Len(longer) < HISTORY_LEN THEN Len(longer) ELSE HISTORY_LEN
<1>1. CASE violations # <<>> /\ SameViolation(violations[1], v)
  BY <1>1 DEF Recorded, NeighboursDiffer
<1>2. CASE ~(violations # <<>> /\ SameViolation(violations[1], v))
  <2>1. /\ Len(violations) \in Nat
        /\ Len(longer) = Len(violations) + 1
        /\ longer[1] = v
        /\ \A i \in 1..Len(violations) : longer[i + 1] = violations[i]
    OBVIOUS
  <2>2. violations # <<>> => ~SameViolation(v, violations[1])
    BY <1>2 DEF SameViolation
  <2>3. \A i \in 1..(Len(longer) - 1) : ~SameViolation(longer[i], longer[i + 1])
    <3> HIDE DEF longer
    <3> SUFFICES ASSUME NEW i \in 1..(Len(longer) - 1)
                 PROVE  ~SameViolation(longer[i], longer[i + 1])
      OBVIOUS
    <3>1. i \in 1..Len(violations) /\ longer[i + 1] = violations[i]
      BY <2>1
    <3>2. CASE i = 1
      BY <2>1, <2>2, <3>1, <3>2
    <3>3. CASE i # 1
      <4>1. i - 1 \in 1..(Len(violations) - 1) /\ i - 1 \in 1..Len(violations)
        BY <2>1, <3>1, <3>3
      <4>2. longer[i] = violations[i - 1] /\ (i - 1) + 1 = i
        BY <2>1, <3>1, <4>1
      <4>3. ~SameViolation(violations[i - 1], violations[(i - 1) + 1])
        BY <4>1 DEF NeighboursDiffer
      <4>4. QED
        BY <3>1, <4>2, <4>3
    <3>4. QED
      BY <3>2, <3>3
  <2>4. n \in Nat /\ n <= Len(longer)
    BY <2>1, DaemonAssumption
  <2>5. /\ Len(SubSeq(longer, 1, n)) = n
        /\ \A i \in 1..n : SubSeq(longer, 1, n)[i] = longer[i]
    <3>1. longer \in Seq(Violation)
      OBVIOUS
    <3> HIDE DEF longer, n
    <3>2. QED
      BY <2>1, <2>4, <3>1
  <2>6. Recorded(v) = SubSeq(longer, 1, n)
    BY <1>2 DEF Recorded, Truncate
  <2> HIDE DEF longer, n
  <2>7. QED
    BY <2>1, <2>3, <2>4, <2>5, <2>6
<1>3. QED
  BY <1>1, <1>2

LEMMA HistoryStep == TypeOK /\ NeighboursDiffer /\ [Next]_vars => NeighboursDiffer'
<1> SUFFICES ASSUME TypeOK, NeighboursDiffer, [Next]_vars PROVE NeighboursDiffer'
  OBVIOUS
<1>1. CASE RecordViolation
  <2>1. violation \in Violation /\ violations \in Seq(Violation)
    BY <1>1 DEF RecordViolation, TypeOK, StateTypeOK, SharedTypeOK, LoopTypeOK
  <2>2. violations' = Recorded(violation)
    BY <1>1 DEF RecordViolation
  <2>3. QED
    BY <2>1, <2>2, RecordedDistinct DEF NeighboursDiffer
<1>2. CASE violations' = <<>>
  BY <1>2, EmptySeq DEF NeighboursDiffer
<1>3. CASE UNCHANGED violations
  BY <1>3 DEF NeighboursDiffer
<1>4. ASSUME NEW c \in Conn, Client(c) \/ Serve(c)
      PROVE  UNCHANGED violations
  BY <1>4, SocketSteps
  DEF sharedVars, Dispatch, HandleDisarm, HandleArm, HandleMode, HandleReload, HandlePair,
      HandleAllowLast, HandleRevoke, HandleKill
<1>5. CASE Start \/ Poll \/ Tick \/ ChangeHardware \/ EditFile \/ Crash \/ UNCHANGED vars
  <2>1. RecordViolation \/ violations' = <<>> \/ UNCHANGED violations
    BY <1>5
    DEF Start, FirstBaselines, Poll, PollTop, Rebaseline, TakeReload, Load, Recapture, DrainKill, SkipChecks,
        DetectViolations, CheckPower, CheckNetwork, CheckLid, CheckPci, CheckDisplay,
        AdmitPaired, Keep, HandleViolation, KillReturns, PowerOff, ShutdownFails, Tick,
        ChangeHardware, EditFile, Crash, Exit, NewState, vars, sharedVars
  <2>2. QED
    BY <1>1, <1>2, <1>3, <2>1
<1>6. QED
  BY <1>3, <1>4, <1>5 DEF Next

(* The head is the violation being handled.                                *)
HeadIsHandled ==
  pc \in {"handle", "kill"} => violations # <<>> /\ SameViolation(violations[1], violation)

LEMMA RecordedHead ==
  ASSUME NEW v \in Violation, violations \in Seq(Violation)
  PROVE  Recorded(v) # <<>> /\ SameViolation(Recorded(v)[1], v)
<1> DEFINE longer == <<v>> \o violations
           n == IF Len(longer) < HISTORY_LEN THEN Len(longer) ELSE HISTORY_LEN
<1>1. CASE violations # <<>> /\ SameViolation(violations[1], v)
  BY <1>1 DEF Recorded
<1>2. CASE ~(violations # <<>> /\ SameViolation(violations[1], v))
  <2>1. longer \in Seq(Violation) /\ Len(longer) \in Nat \ {0} /\ longer[1] = v
    OBVIOUS
  <2>2. n \in 1..Len(longer)
    BY <2>1, DaemonAssumption
  <2>3. Recorded(v) = SubSeq(longer, 1, n)
    BY <1>2 DEF Recorded, Truncate
  <2> HIDE DEF longer, n
  <2>4. Len(Recorded(v)) = n /\ Recorded(v)[1] = v
    BY <2>1, <2>2, <2>3
  <2>5. Recorded(v) # <<>>
    BY <2>2, <2>4
  <2> QED BY <2>4, <2>5 DEF SameViolation
<1> QED BY <1>1, <1>2

LEMMA HeadStep == TypeOK /\ HeadIsHandled /\ [Next]_vars => HeadIsHandled'
<1> SUFFICES ASSUME TypeOK, HeadIsHandled, [Next]_vars PROVE HeadIsHandled'
  OBVIOUS
<1>1. CASE RecordViolation
  <2>1. violation \in Violation /\ violations \in Seq(Violation)
    BY <1>1 DEF RecordViolation, TypeOK, StateTypeOK, SharedTypeOK, LoopTypeOK
  <2>2. violations' = Recorded(violation) /\ violation' = violation
    BY <1>1 DEF RecordViolation, Goto, locals
  <2> QED BY <2>1, <2>2, RecordedHead DEF HeadIsHandled
<1>2. CASE HandleViolation
  BY <1>2 DEF HandleViolation, Goto, Sleep, locals, HeadIsHandled
<1>3. ASSUME NEW c \in Conn, Client(c) \/ Serve(c)
      PROVE  UNCHANGED <<pc, violations, violation>>
  <2>1. UNCHANGED violations
    BY <1>3, SocketSteps
    DEF sharedVars, Dispatch, HandleDisarm, HandleArm, HandleMode, HandleReload, HandlePair,
        HandleAllowLast, HandleRevoke, HandleKill
  <2> QED BY <1>3, <2>1 DEF Client, Serve, SocketFrame, locals
<1>4. CASE UNCHANGED <<pc, violations, violation>>
  BY <1>4 DEF HeadIsHandled
<1>5. CASE pc' \notin {"handle", "kill"}
  BY <1>5 DEF HeadIsHandled
<1>6. CASE Start \/ Poll \/ Tick \/ ChangeHardware \/ EditFile \/ Crash \/ UNCHANGED vars
  <2>1. \A b \in Later : b \notin {"handle", "kill"}
    BY DEF Later
  <2> QED
    BY <1>1, <1>2, <1>4, <1>5, <1>6, <2>1
    DEF Start, Poll, PollTop, Rebaseline, TakeReload, Load, Recapture, DrainKill, SkipChecks,
        DetectViolations, CheckPower, CheckNetwork, CheckLid, CheckPci, CheckDisplay,
        AdmitPaired, Keep, KillReturns, PowerOff, ShutdownFails, Tick, ChangeHardware,
        EditFile, Crash, Exit, NextCheck, Sleep, Goto, Detects, vars, sharedVars, locals
<1> QED BY <1>3, <1>4, <1>6 DEF Next

(* The head of the history is what is being handled, and is not repeated   *)
(* behind itself: record_violation.                                        *)
THEOREM HistoryCorrect == Spec => []NewestIsHandled
<1>1. Init => NeighboursDiffer /\ HeadIsHandled
  BY EmptySeq DEF Init, InitState, NeighboursDiffer, HeadIsHandled
<1>2. NeighboursDiffer /\ HeadIsHandled => NewestIsHandled
  BY DEF HeadIsHandled, NewestIsHandled
<1>3. QED
  BY <1>1, <1>2, HistoryStep, HeadStep, TypeCorrect, PTL DEF Spec

---------------------------------------------------------------------------
(* A machine whose configurations all require authentication, in the hands *)
(* of users who cannot give it.                                            *)
Locked ==
  /\ \A cfg \in Configs : cfg.require_auth
  /\ "root" \notin Callers
  /\ TRUE \notin Verdicts
  /\ StartMode = "Enforce"

(* What holds on one: LockedDown whether the daemon is up or not, the      *)
(* requirement itself, and no request that got past the question.          *)
LockInv ==
  /\ armed /\ mode = "Enforce"
  /\ allowances = NoAllowances /\ pairing = None
  /\ ~reload_pending /\ ~rebaseline_pending /\ ~needs_rebaseline
  /\ config.require_auth
  /\ \A c \in Conn : conns[c] = None

LEMMA OverriddenRequires ==
  ASSUME Locked, NEW f \in Files, f # None
  PROVE  Overridden(f).require_auth
<1>1. f \in Config /\ f.require_auth
  BY LoopAssumption, DaemonAssumption DEF Locked
<1>2. QED
  BY <1>1 DEF Overridden, Config

LEMMA LockSocket ==
  ASSUME Locked, LockInv, NEW c \in Conn, Client(c) \/ Serve(c)
  PROVE  LockInv'
<1> USE DEF LockInv
<1>1. ~Serve(c)
  BY DEF Serve
<1>2. PICK req \in Requests, caller \in Callers :
             \/ \E verdict \in Verdicts : Authorize(c, req, caller, verdict)
             \/ RunUnasked(c, req, caller)
  BY <1>1 DEF Client
<1>3. /\ Verdicts \subseteq BOOLEAN
      /\ ~\E verdict \in Verdicts : verdict
  BY SocketAssumption DEF Locked
<1>4. RunUnasked(c, req, caller)
  BY <1>2, <1>3 DEF Authorize
<1>5. Dispatch(req, caller) /\ ~Gated(req) /\ UNCHANGED conns
  BY <1>4 DEF RunUnasked, Asks, Locked
<1>6. UNCHANGED <<config, needs_rebaseline>>
  BY <1>1 DEF Client, SocketFrame, locals
<1>7. /\ armed' /\ mode' = "Enforce"
      /\ allowances' = NoAllowances /\ pairing' = None
      /\ ~reload_pending' /\ ~rebaseline_pending'
  <2>1. CASE HandleArm
    BY <2>1 DEF HandleArm
  <2>2. CASE HandleMode("Enforce")
    BY <2>2 DEF HandleMode
  <2>3. CASE req.secs = 0 /\ HandlePair(req.secs, req.for)
    BY <2>3 DEF HandlePair
  <2>4. CASE HandleRevoke({req.id}) \/ HandleRevoke(DeviceRef)
    BY <2>4 DEF HandleRevoke, NoAllowances
  <2>5. CASE HandleKill(caller)
    BY <2>5 DEF HandleKill
  <2>6. QED
    BY <1>5, <2>1, <2>2, <2>3, <2>4, <2>5 DEF Dispatch, Gated
<1>8. QED
  BY <1>5, <1>6, <1>7

LEMMA LockStep == Locked /\ TypeOK /\ LockInv /\ [Next]_vars => LockInv'
<1> SUFFICES ASSUME Locked, TypeOK, LockInv, [Next]_vars PROVE LockInv'
  OBVIOUS
<1> armed \in BOOLEAN /\ reload_pending \in BOOLEAN /\ rebaseline_pending \in BOOLEAN
  BY DEF TypeOK, StateTypeOK, SharedTypeOK
<1> USE DEF LockInv
<1>1. CASE Start
  <2>1. config'.require_auth
    BY <1>1, OverriddenRequires DEF Start, FirstBaselines, TypeOK, LoopTypeOK
  <2>2. QED
    BY <1>1, <2>1 DEF Start, FirstBaselines, sharedVars, locals
<1>2. CASE Load
  <2>1. config'.require_auth
    BY <1>2, OverriddenRequires DEF Load, TypeOK, LoopTypeOK
  <2>2. QED
    BY <1>2, <2>1 DEF Load, sharedVars, locals
<1>3. CASE PollTop
  <2>1. Sweep(clock) = NoAllowances
    BY DEF Sweep, IsActive, NoAllowances
  <2>2. QED
    BY <1>3, <2>1 DEF PollTop
<1>4. CASE AdmitPaired
  BY <1>4 DEF AdmitPaired, Admissible
<1>5. CASE PowerOff \/ ShutdownFails \/ Crash
  BY <1>5 DEF PowerOff, ShutdownFails, Crash, Exit, NewState, Locked
<1>6. CASE Rebaseline \/ TakeReload \/ Recapture \/ DrainKill \/ SkipChecks \/ DetectViolations
           \/ CheckPower \/ CheckNetwork \/ CheckLid \/ CheckPci \/ CheckDisplay
           \/ Keep \/ RecordViolation \/ HandleViolation \/ KillReturns
  <2>1. /\ UNCHANGED <<armed, mode, allowances, pairing, rebaseline_pending, config, conns>>
        /\ UNCHANGED reload_pending \/ ~reload_pending'
    BY <1>6
    DEF Rebaseline, TakeReload, Recapture, DrainKill, SkipChecks, DetectViolations, CheckPower,
        CheckNetwork, CheckLid, CheckPci, CheckDisplay, Keep, RecordViolation, HandleViolation,
        KillReturns, sharedVars
  <2>2. ~needs_rebaseline'
    BY <1>6
    DEF Rebaseline, TakeReload, Recapture, DrainKill, SkipChecks, DetectViolations, CheckPower,
        CheckNetwork, CheckLid, CheckPci, CheckDisplay, Keep, RecordViolation, HandleViolation,
        KillReturns, Sleep, Goto, NextCheck, Detects, locals
  <2>3. QED
    BY <2>1, <2>2
<1>7. CASE Tick \/ ChangeHardware \/ EditFile \/ UNCHANGED vars
  <2>1. UNCHANGED <<sharedVars, config, conns, needs_rebaseline>>
    BY <1>7 DEF Tick, ChangeHardware, EditFile, vars, locals
  <2>2. QED
    BY <2>1 DEF sharedVars
<1> HIDE DEF LockInv
<1>8. ASSUME NEW c \in Conn, Client(c) \/ Serve(c)
      PROVE  LockInv'
  BY <1>8, LockSocket
<1>9. QED
  BY <1>1, <1>2, <1>3, <1>4, <1>5, <1>6, <1>7, <1>8 DEF Next, Poll

(* With authentication required, a caller who cannot give it weakens       *)
(* nothing, by no sequence of requests.                                    *)
THEOREM LockdownCorrect ==
  ASSUME Locked
  PROVE  Spec => []LockedDown
<1>1. Init => LockInv
  <2> SUFFICES ASSUME Init PROVE LockInv
    OBVIOUS
  <2>1. config.require_auth
    BY OverriddenRequires DEF Init
  <2>2. QED
    BY <2>1 DEF Init, InitState, LockInv, Locked
<1>2. LockInv => LockedDown
  BY DEF LockInv, LockedDown
<1>3. TypeOK /\ LockInv /\ [Next]_vars => LockInv'
  BY LockStep
<1>4. QED
  BY <1>1, <1>2, <1>3, TypeCorrect, PTL DEF Spec

---------------------------------------------------------------------------
(***************************************************************************)
(* PlugkillDaemon implements DisarmWindow: what a device bus accepts       *)
(* changes through a disarm window only.                                   *)
(***************************************************************************)

(* Two more facts of the loop: the flag it drained is up exactly until it  *)
(* has captured, and the configuration in force came from a file.          *)
LoopInv ==
  /\ needs_rebaseline <=> pc = "rebaseline"
  /\ \E cfg \in Configs : config = Overridden(cfg)

accepted == [b \in DeviceBus |-> baselines[b]]

(* The flag that the loop sets for itself, at the two ends of a poll.      *)
LEMMA LoopInvStep == TypeOK /\ LoopInv /\ [Next]_vars => LoopInv'
<1> SUFFICES ASSUME TypeOK, LoopInv, [Next]_vars PROVE LoopInv'
  OBVIOUS
<1> /\ Files \subseteq Configs \cup {None} /\ file \in Files \cup {None}
    /\ rebaseline_pending \in BOOLEAN /\ armed \in BOOLEAN /\ needs_rebaseline \in BOOLEAN
  BY LoopAssumption DEF TypeOK, LoopTypeOK, StateTypeOK, SharedTypeOK
<1> USE DEF LoopInv
<1>1. CASE Start \/ Load
  <2>1. (needs_rebaseline <=> pc = "rebaseline")'
    <3>1. pc # "rebaseline" /\ pc' # "rebaseline" /\ UNCHANGED needs_rebaseline
      BY <1>1 DEF Start, FirstBaselines, Load, locals
    <3>2. QED
      BY <3>1
  <2>2. (\E cfg \in Configs : config = Overridden(cfg))'
    BY <1>1 DEF Start, FirstBaselines, Load
  <2>3. QED
    BY <2>1, <2>2
<1>2. ASSUME (needs_rebaseline <=> pc = "rebaseline")', UNCHANGED config
      PROVE  LoopInv'
  BY <1>2
<1>3. CASE PollTop
  BY <1>2, <1>3 DEF PollTop
<1>4. CASE Rebaseline \/ TakeReload \/ Recapture
  BY <1>2, <1>4 DEF Rebaseline, TakeReload, Recapture, locals
<1>5. CASE NextCheck /\ pc # "rebaseline" /\ UNCHANGED config
  BY <1>2, <1>5 DEF NextCheck, Later, Sleep, Goto, locals
<1>6. ASSUME NEW v, Detects(v), pc # "rebaseline", UNCHANGED config
      PROVE  LoopInv'
  BY <1>2, <1>6 DEF Detects
<1>7. CASE Sleep /\ UNCHANGED config
  BY <1>2, <1>7 DEF Sleep
<1>8. CASE DrainKill \/ SkipChecks \/ DetectViolations
  BY <1>5, <1>6, <1>7, <1>8 DEF DrainKill, SkipChecks, DetectViolations
<1>9. CASE CheckPower \/ CheckNetwork \/ CheckLid
  BY <1>5, <1>6, <1>9 DEF CheckPower, CheckNetwork, CheckLid
<1>10. CASE CheckPci \/ CheckDisplay
  BY <1>5, <1>6, <1>10 DEF CheckPci, CheckDisplay
<1>11. CASE AdmitPaired \/ Keep \/ RecordViolation \/ HandleViolation \/ KillReturns
  BY <1>2, <1>7, <1>11
  DEF AdmitPaired, Keep, RecordViolation, HandleViolation, KillReturns, Goto, locals
<1>12. CASE PowerOff \/ ShutdownFails \/ Crash
  BY <1>2, <1>12 DEF PowerOff, ShutdownFails, Crash, Exit
<1>13. ASSUME NEW c \in Conn, Client(c) \/ Serve(c)
       PROVE  LoopInv'
  BY <1>2, <1>13 DEF Client, Serve, SocketFrame, locals
<1>14. CASE Tick \/ ChangeHardware \/ EditFile \/ UNCHANGED vars
  <2>1. UNCHANGED <<config, pc, needs_rebaseline>>
    BY <1>14 DEF Tick, ChangeHardware, EditFile, vars, locals
  <2>2. QED
    BY <1>2, <2>1
<1> HIDE DEF LoopInv
<1>15. QED
  BY <1>1, <1>3, <1>4, <1>8, <1>9, <1>10, <1>11, <1>12, <1>13, <1>14 DEF Next, Poll

---------------------------------------------------------------------------
(* A step that leaves the phase alone is one of the window, if what it     *)
(* does to the baselines is allowed to a guarded machine.                  *)
LEMMA SamePhase ==
  ASSUME UNCHANGED Phase, Window!Guarded
  PROVE  Window!Next
BY DEF Window!Next, Window!Guard, Window!Open, Window!Settle, Phase

LEMMA SameBaselines ==
  ASSUME UNCHANGED baselines
  PROVE  Window!Guarded
BY DEF Window!Guarded, DeviceBus

(* A capture of what is missing takes nothing in on a bus that has a       *)
(* baseline: it leaves it, narrows it by the allowed devices, or drops it. *)
LEMMA MissingOnly ==
  ASSUME NEW cfg, NEW allowed, NEW broken,
         CaptureBaselines(cfg, TRUE, allowed, broken)
  PROVE  Window!Guarded
<1> DEFINE Take(bus, reading) == Captured(cfg, bus, TRUE, broken, reading)
<1>1. \A bus, reading : baselines[bus] # None => Take(bus, reading) \in {None, baselines[bus]}
  BY DEF Captured, Captures
<1>2. ASSUME NEW bus \in {"usb", "pci"}, baselines[bus] # None
      PROVE  baselines'[bus] \in {None, baselines[bus]}
  <2>1. \E u, p : baselines'["usb"] = Take("usb", u) /\ baselines'["pci"] = Take("pci", p)
    BY DEF CaptureBaselines
  <2> HIDE DEF Take
  <2>2. QED
    BY <1>1, <1>2, <2>1
<1>3. ASSUME NEW bus \in {"thunderbolt", "sdcard"}, baselines[bus] # None
      PROVE  baselines'[bus] \in {None, baselines[bus] \ allowed}
  <2>1. \E t, s : /\ baselines'["thunderbolt"] = Without(Take("thunderbolt", t), allowed)
                  /\ baselines'["sdcard"] = Without(Take("sdcard", s), allowed)
    BY DEF CaptureBaselines
  <2> HIDE DEF Take
  <2>2. QED
    BY <1>1, <1>3, <2>1 DEF Without
<1>4. ASSUME baselines["display"] # None
      PROVE  baselines'["display"] \in {None, HideAllowedDisplays(baselines["display"], allowed)}
  BY <1>1, <1>4 DEF CaptureBaselines
<1>5. ASSUME NEW bus \in DeviceBus, baselines[bus] # None
      PROVE  \/ baselines'[bus] = baselines[bus]
             \/ baselines'[bus] = None
             \/ Narrows(bus, baselines'[bus], baselines[bus])
  <2>1. CASE bus \in {"usb", "pci"}
    BY <1>2, <1>5, <2>1
  <2>2. CASE bus \in {"thunderbolt", "sdcard"}
    BY <1>3, <1>5, <2>2 DEF Narrows
  <2>3. CASE bus = "display"
    BY <1>4, <1>5, <2>3 DEF Narrows, HideAllowedDisplays
  <2>4. QED
    BY <2>1, <2>2, <2>3 DEF DeviceBus
<1>6. QED
  BY <1>5 DEF Window!Guarded

(* A check moves the baseline of a bus that is only monitored.             *)
LEMMA ChecksFollow ==
  ASSUME TypeOK, LoopInv,
         CheckPower \/ CheckNetwork \/ CheckLid \/ CheckPci \/ CheckDisplay
  PROVE  Window!Guarded
<1>1. ASSUME NEW bus \in Bus, NEW reading, Follow(bus, reading),
             bus \notin DeviceBus \/ bus \in MonitoredBuses
      PROVE  Window!Guarded
  <2>1. \A b \in Bus \ {bus} : baselines'[b] = baselines[b]
    BY <1>1 DEF Follow, TypeOK, StateTypeOK, Baselines, Bus
  <2>2. QED
    BY <1>1, <2>1 DEF Window!Guarded, DeviceBus, Bus
<1>2. PICK cfg \in Configs : config = Overridden(cfg)
  BY DEF LoopInv
<1>3. /\ config.pci.policy = cfg.pci.policy
      /\ config.display.policy = cfg.display.policy
  BY <1>2, DaemonAssumption DEF Overridden, Config, PciConfig, DisplayConfig
<1>4. config.pci.policy = "Monitor" => "pci" \in MonitoredBuses
  BY <1>3 DEF MonitoredBuses
<1>5. config.display.policy = "Monitor" => "display" \in MonitoredBuses
  BY <1>3 DEF MonitoredBuses
<1>6. CASE CheckPower
  BY <1>1, <1>6, SameBaselines DEF CheckPower, PowerQuiet, PowerFires, Accept, DeviceBus, Bus
<1>7. CASE CheckNetwork
  BY <1>1, <1>7, SameBaselines DEF CheckNetwork, NetworkQuiet, NetworkFires, Accept, DeviceBus, Bus
<1>8. CASE CheckLid
  BY <1>1, <1>8, SameBaselines DEF CheckLid, LidQuiet, LidFires, Accept, DeviceBus, Bus
<1>9. CASE CheckPci
  BY <1>1, <1>4, <1>9, SameBaselines DEF CheckPci, Bus
<1>10. CASE CheckDisplay
  BY <1>1, <1>5, <1>10, SameBaselines DEF CheckDisplay, Bus
<1>11. QED
  BY <1>6, <1>7, <1>8, <1>9, <1>10

---------------------------------------------------------------------------
(* A socket step opens a window, asks for the settling that closes one, or *)
(* leaves the phase alone, and takes nothing in.                           *)
LEMMA SocketRefines ==
  ASSUME TypeOK, LoopInv, NEW c \in Conn, Client(c) \/ Serve(c)
  PROVE  Window!Next
<1> armed \in BOOLEAN /\ rebaseline_pending \in BOOLEAN /\ needs_rebaseline \in BOOLEAN
  BY DEF TypeOK, StateTypeOK, SharedTypeOK, LoopTypeOK
<1>1. UNCHANGED <<baselines, pc, needs_rebaseline>> /\ Up
  BY DEF Client, Serve, SocketFrame, locals
<1>2. Window!Guarded
  BY <1>1, SameBaselines
<1>3. CASE UNCHANGED <<armed, rebaseline_pending>>
  BY <1>1, <1>2, <1>3, SamePhase DEF Phase
<1>4. CASE armed' = FALSE
  BY <1>1, <1>2, <1>4 DEF Window!Next, Window!Open, Phase, Up
<1>5. CASE HandleArm
  <2>1. CASE armed
    BY <1>1, <1>2, <1>5, <2>1, SamePhase DEF HandleArm, Phase
  <2>2. CASE ~armed
    BY <1>1, <1>5, <2>2 DEF HandleArm, Window!Next, Window!Close, Phase, Up
  <2>3. QED
    BY <2>1, <2>2
<1>6. ASSUME NEW req, NEW caller, Dispatch(req, caller)
      PROVE  UNCHANGED <<armed, rebaseline_pending>> \/ armed' = FALSE \/ HandleArm
  BY <1>6
  DEF Dispatch, HandleDisarm, HandleMode, HandleReload, HandlePair, HandleAllowLast,
      HandleRevoke, HandleKill
<1>7. UNCHANGED sharedVars \/ \E req, caller : Dispatch(req, caller)
  BY DEF Client, Serve, Authorize, RunUnasked, RunAuthorized
<1>8. QED
  BY <1>3, <1>4, <1>5, <1>6, <1>7 DEF sharedVars

LEMMA StepRefines ==
  TypeOK /\ LoopInv /\ [Next]_vars => Window!Next \/ UNCHANGED <<Phase, accepted>>
<1> SUFFICES ASSUME TypeOK, LoopInv, [Next]_vars
             PROVE  Window!Next \/ UNCHANGED <<Phase, accepted>>
  OBVIOUS
<1> armed \in BOOLEAN /\ rebaseline_pending \in BOOLEAN /\ needs_rebaseline \in BOOLEAN
  BY DEF TypeOK, StateTypeOK, SharedTypeOK, LoopTypeOK
<1>1. CASE Start
  BY <1>1
  DEF Start, FirstBaselines, sharedVars, locals, Phase, Window!Next, Window!Open, Window!Settle
<1>2. CASE PollTop
  <2>1. Window!Guarded
    BY <1>2, SameBaselines DEF PollTop
  <2>2. UNCHANGED Phase \/ (Phase = "open" /\ Phase' = "settling")
    BY <1>2 DEF PollTop, Phase, LoopInv
  <2>3. QED
    BY <2>1, <2>2, SamePhase DEF Window!Next, Window!Close
<1>3. CASE Rebaseline
  <2>1. needs_rebaseline /\ UNCHANGED <<armed, rebaseline_pending>>
    BY <1>3 DEF Rebaseline, LoopInv, sharedVars
  <2>2. QED
    BY <1>3, <2>1
    DEF Rebaseline, Phase, Window!Next, Window!Open, Window!Settle
<1>4. ASSUME UNCHANGED <<armed, rebaseline_pending, needs_rebaseline>>, Up, Up', Window!Guarded
      PROVE  Window!Next
  BY <1>4, SamePhase DEF Phase, Up
<1>5. CASE Recapture
  <2>1. Window!Guarded
    BY <1>5, MissingOnly DEF Recapture
  <2>2. QED
    BY <1>4, <1>5, <2>1 DEF Recapture, Up, sharedVars, locals
<1>6. needs_rebaseline' <=> pc' = "rebaseline"
  BY LoopInvStep DEF LoopInv
<1>7. CASE CheckPower \/ CheckNetwork \/ CheckLid \/ CheckPci \/ CheckDisplay
  <2>1. Window!Guarded
    BY <1>7, ChecksFollow
  <2>2. UNCHANGED <<armed, rebaseline_pending>>
    BY <1>7 DEF CheckPower, CheckNetwork, CheckLid, CheckPci, CheckDisplay, sharedVars
  <2>3. pc \notin {"rebaseline", "down", "dead"} /\ pc' \notin {"rebaseline", "down", "dead"}
    BY <1>7
    DEF CheckPower, CheckNetwork, CheckLid, CheckPci, CheckDisplay, NextCheck, Later, Sleep,
        Goto, Detects
  <2>4. QED
    BY <1>4, <1>6, <2>1, <2>2, <2>3 DEF LoopInv, Up
<1>8. CASE TakeReload \/ Load \/ DrainKill \/ SkipChecks \/ DetectViolations
           \/ AdmitPaired \/ Keep \/ RecordViolation \/ HandleViolation \/ KillReturns
  <2>1. Window!Guarded
    BY <1>8, SameBaselines
    DEF TakeReload, Load, DrainKill, SkipChecks, DetectViolations, AdmitPaired, Keep,
        RecordViolation, HandleViolation, KillReturns
  <2>2. UNCHANGED <<armed, rebaseline_pending>>
    BY <1>8
    DEF TakeReload, Load, DrainKill, SkipChecks, DetectViolations, AdmitPaired, Keep,
        RecordViolation, HandleViolation, KillReturns, sharedVars
  <2>3. pc \notin {"rebaseline", "down", "dead"} /\ pc' \notin {"rebaseline", "down", "dead"}
    BY <1>8
    DEF TakeReload, Load, DrainKill, SkipChecks, DetectViolations, AdmitPaired, Keep,
        RecordViolation, HandleViolation, KillReturns, NextCheck, Later, Sleep, Goto, Detects
  <2>4. QED
    BY <1>4, <1>6, <2>1, <2>2, <2>3 DEF LoopInv, Up
<1>9. CASE PowerOff \/ ShutdownFails \/ Crash
  <2>1. Phase' = "settling" /\ baselines' = NoBaselines
    BY <1>9 DEF PowerOff, ShutdownFails, Crash, Exit, Phase
  <2>2. QED
    BY <2>1 DEF Window!Next, Window!Stop, NoBaselines, DeviceBus
<1>10. CASE Tick \/ ChangeHardware \/ EditFile \/ UNCHANGED vars
  <2>1. UNCHANGED <<sharedVars, baselines, pc, needs_rebaseline>>
    BY <1>10 DEF Tick, ChangeHardware, EditFile, vars, locals
  <2>2. QED
    BY <2>1 DEF sharedVars, Phase, accepted
<1>11. QED
  BY <1>1, <1>2, <1>3, <1>5, <1>7, <1>8, <1>9, <1>10, SocketRefines DEF Next, Poll

(* What the daemon accepts changes through a disarm window only, whatever  *)
(* is plugged in, asked for, written to the file or failing meanwhile.     *)
THEOREM Refinement == Spec => DisarmWindowSpec
<1>1. Init => LoopInv
  BY LoopAssumption, DaemonAssumption DEF Init, LoopInv
<1>2. Init => Window!Init
  BY DEF Init, Window!Init, Phase, NoBaselines, DeviceBus
<1>3. TypeOK /\ LoopInv /\ [Next]_vars => [Window!Next]_<<Phase, accepted>>
  BY StepRefines
<1>4. QED
  BY <1>1, <1>2, <1>3, LoopInvStep, TypeCorrect, PTL
  DEF Spec, DisarmWindowSpec, Window!Spec, accepted

===========================================================================
