------------------------ MODULE DaemonBaselineProofs ------------------------
(***************************************************************************)
(* What the baselines of PlugkillDaemon hold and how they change: whom     *)
(* they admit, what a capture and a check leave to report, and that no     *)
(* guarding daemon loses one; and what becomes of a countdown.  Proved for *)
(* every instance.                                                         *)
(***************************************************************************)
EXTENDS DaemonProofs

LEMMA BaselineTypes ==
  ASSUME TypeOK
  PROVE  /\ baselines \in Baselines /\ hw \in Hardware /\ config \in Config
         /\ allowances \in [DeviceRef -> Allowance \cup {None}]
         /\ clock \in Nat /\ now \in Nat /\ now <= clock
BY DaemonAssumption DEF TypeOK, StateTypeOK, SharedTypeOK, LoopTypeOK

(* The kinds of identity are apart.                                        *)
LEMMA IdentitiesApart ==
  /\ UsbId \cap (TbId \cup SdId \cup PciId \cup Monitor) = {}
  /\ TbId \cap (SdId \cup PciId \cup Monitor) = {}
  /\ SdId \cap (PciId \cup Monitor) = {}
  /\ PciId \cap Monitor = {}
  /\ Monitor \cap {"gone", "off", "unidentified"} = {}
BY IdentityAssumption

(* An allowance that stands at the clock stood when the poll read it.      *)
LEMMA ActiveEarlier ==
  ASSUME TypeOK
  PROVE  Active(clock) \subseteq Active(now)
<1> SUFFICES ASSUME NEW d \in DeviceRef, IsActive(allowances[d], clock)
             PROVE  IsActive(allowances[d], now)
  BY DEF Active
<1>1. allowances[d] \in Allowance /\ clock \in Nat /\ now \in Nat /\ now <= clock
  BY BaselineTypes DEF IsActive
<1> QED BY <1>1 DEF IsActive, Allowance

---------------------------------------------------------------------------
(* The steps that change a baseline: a capture, the exit, and a check of a *)
(* bus that is only monitored.                                             *)
Moves(bus, reading) ==
  /\ pc = bus /\ Up
  /\ config[bus].policy = "Monitor"
  /\ Follow(bus, reading)
  /\ UNCHANGED <<sharedVars, config, world>>

BaselineStep ==
  \/ UNCHANGED baselines
  \/ Start \/ Rebaseline \/ Recapture
  \/ baselines' = NoBaselines /\ ~Up'
  \/ Moves("power", hw.power)
  \/ Moves("network", Links(config))
  \/ Moves("lid", hw.lid)
  \/ CheckPci /\ Moves("pci", PciRead)
  \/ CheckDisplay /\ Moves("display", DisplayRead)

LEMMA BaselineSteps == [Next]_vars => BaselineStep
<1> SUFFICES ASSUME [Next]_vars PROVE BaselineStep
  OBVIOUS
<1> USE DEF BaselineStep
<1>1. CASE PollTop \/ TakeReload \/ Load \/ DrainKill \/ SkipChecks \/ DetectViolations
           \/ AdmitPaired \/ Keep \/ RecordViolation \/ HandleViolation \/ KillReturns
  BY <1>1
  DEF PollTop, TakeReload, Load, DrainKill, SkipChecks, DetectViolations, AdmitPaired, Keep,
      RecordViolation, HandleViolation, KillReturns
<1>2. CASE CheckPower
  BY <1>2 DEF CheckPower, PowerQuiet, PowerFires, Accept, Moves, Up
<1>3. CASE CheckNetwork
  BY <1>3 DEF CheckNetwork, NetworkQuiet, NetworkFires, Accept, Moves, Up
<1>4. CASE CheckLid
  BY <1>4 DEF CheckLid, LidQuiet, LidFires, Accept, Moves, Up
<1>5. CASE CheckPci
  BY <1>5 DEF CheckPci, Moves, Up
<1>6. CASE CheckDisplay
  BY <1>6 DEF CheckDisplay, Moves, Up
<1>7. CASE PowerOff \/ ShutdownFails \/ Crash
  BY <1>7 DEF PowerOff, ShutdownFails, Crash, Exit, Up
<1>8. ASSUME NEW c \in Conn, Client(c) \/ Serve(c)
      PROVE  UNCHANGED baselines
  BY <1>8 DEF Client, Serve, SocketFrame
<1>9. CASE Tick \/ ChangeHardware \/ EditFile \/ UNCHANGED vars
  BY <1>9 DEF Tick, ChangeHardware, EditFile, vars
<1> QED BY <1>1, <1>2, <1>3, <1>4, <1>5, <1>6, <1>7, <1>8, <1>9 DEF Next, Poll

(* Following a reading changes the baseline of that bus alone.             *)
LEMMA MovesOne ==
  ASSUME TypeOK, NEW bus \in Bus, NEW reading, Moves(bus, reading)
  PROVE  /\ baselines'[bus] = reading
         /\ \A b \in Bus \ {bus} : baselines'[b] = baselines[b]
BY BaselineTypes DEF Moves, Follow, Baselines, Bus

---------------------------------------------------------------------------
(* A stranger on a connector that is not ignored differs from the baseline *)
(* whatever is hidden, as hiding blanks an allowed monitor and no other.   *)
LEMMA StrangerDiffers ==
  ASSUME TypeOK, Watched("display"), NEW c \in Connector \ config.display.ignore,
         hw.display[c] \in Monitor \ (Active(clock) \cup {baselines["display"][c]})
  PROVE  ChangesOn("display", clock) # {}
<1> DEFINE allowed == Active(clock)
           current == HideAllowedDisplays(ListedDisplays(hw.display, config.display.ignore), allowed)
           baseline == HideAllowedDisplays(baselines["display"], allowed)
<1>1. current[c] = hw.display[c] /\ current[c] \notin {"gone", "off"}
  BY IdentitiesApart DEF HideAllowedDisplays, ListedDisplays
<1>2. baseline[c] # current[c]
  BY <1>1 DEF HideAllowedDisplays
<1>3. ChangesOn("display", clock) = DisplayChanges(current, baseline)
  BY DEF ChangesOn
<1> HIDE DEF current, baseline
<1>4. \/ Change("Appeared", Identity(current[c]), c) \in DisplayGains(current, baseline)
      \/ Change("Connected", Identity(current[c]), c) \in DisplayGains(current, baseline)
      \/ Change("Replaced", Identity(current[c]), c) \in DisplayGains(current, baseline)
  BY <1>1, <1>2 DEF DisplayGains
<1> QED BY <1>3, <1>4 DEF DisplayChanges, FirstOf

(* A monitor that is neither allowed nor what the baseline has is          *)
(* reported: the hiding of allowed monitors in poll_display.               *)
THEOREM StrangerCorrect == Spec => []StrangerIsSeen
<1>1. TypeOK => StrangerIsSeen
  BY StrangerDiffers DEF StrangerIsSeen
<1> QED BY <1>1, TypeCorrect, PTL

---------------------------------------------------------------------------
(* No bus of a guarding daemon loses its baseline: what the steps of one   *)
(* that stays up, with no settling to do, leave there is a reading or what *)
(* there was.                                                              *)
LEMMA NeverBlindStep ==
  ASSUME TypeOK, LoopInv, [Next]_vars, Phase = "guarding", Phase' = "guarding",
         NEW b \in config'.watch, baselines[b] # None
  PROVE  baselines'[b] # None
<1>1. BaselineStep
  BY BaselineSteps
<1>2. Up /\ Up' /\ ~needs_rebaseline
  BY DEF Phase, Up
<1>3. ~Start /\ ~Rebaseline
  BY <1>2 DEF Start, Rebaseline, LoopInv, Up
<1>4. CASE Recapture
  <2>1. PICK broken \in SUBSET FaultyBuses :
               CaptureBaselines(config, TRUE, Active(now), broken)
    BY <1>4 DEF Recapture
  <2>2. b \in config.watch /\ b \in Bus
    BY <1>4, BaselineTypes DEF Recapture, Config
  <2> DEFINE Take(bus, reading) == Captured(config, bus, TRUE, broken, reading)
  <2>3. \A reading : Take(b, reading) = baselines[b]
    BY <2>2 DEF Captured, Captures
  <2>4. CASE b \in {"usb", "pci", "power", "network", "lid"}
    <3>1. \E u, p, w, n, l :
            /\ baselines'["usb"] = Take("usb", u) /\ baselines'["pci"] = Take("pci", p)
            /\ baselines'["power"] = Take("power", w) /\ baselines'["lid"] = Take("lid", l)
            /\ baselines'["network"] = Take("network", n)
      BY <2>1 DEF CaptureBaselines
    <3> HIDE DEF Take
    <3> QED BY <2>3, <2>4, <3>1
  <2>5. CASE b \in {"thunderbolt", "sdcard"}
    <3>1. baselines'[b] = Without(baselines[b], Active(now))
      <4>1. \E t, s : /\ baselines'["thunderbolt"] = Without(Take("thunderbolt", t), Active(now))
                      /\ baselines'["sdcard"] = Without(Take("sdcard", s), Active(now))
        BY <2>1 DEF CaptureBaselines
      <4> HIDE DEF Take
      <4> QED BY <2>3, <2>5, <4>1
    <3>2. baselines[b] \in SUBSET DeviceRef
      BY <2>5, BaselineTypes DEF Baselines, DeviceRef
    <3>3. baselines'[b] = baselines[b] \ Active(now)
      BY <3>1 DEF Without
    <3>4. baselines'[b] \in SUBSET DeviceRef
      BY <3>2, <3>3
    <3> QED BY <3>4, ReadingAssumption
  <2>6. CASE b = "display"
    <3>1. baselines'["display"] = HideAllowedDisplays(baselines["display"], Active(now))
      BY <2>1, <2>3, <2>6 DEF CaptureBaselines
    <3>2. baselines["display"] \in DisplaySnapshot
      BY <2>6, BaselineTypes DEF Baselines
    <3>3. baselines'["display"] \in DisplaySnapshot
      BY <3>1, <3>2, HideAllowedDisplaysType
    <3> QED BY <2>6, <3>3, ReadingAssumption
  <2> QED BY <2>2, <2>4, <2>5, <2>6 DEF Bus
<1>5. ASSUME NEW bus \in Bus, NEW reading, Moves(bus, reading), reading # None
      PROVE  baselines'[b] # None
  <2>1. b \in Bus
    BY <1>5, BaselineTypes DEF Moves, Config
  <2> QED BY <1>5, <2>1, MovesOne
<1>6. /\ hw.power # None /\ hw.lid # None /\ Links(config) # None
      /\ PciRead # None /\ DisplayRead # None
  <2>1. /\ hw.power \in PowerState /\ hw.lid \in LidState
        /\ hw.pci \in SUBSET PciId /\ hw.display \in DisplaySnapshot
    BY BaselineTypes DEF Hardware
  <2>2. Links(config) \in [Iface -> LinkState]
    BY BaselineTypes, LinksType
  <2>3. PciRead \in SUBSET DeviceRef
    BY <2>1 DEF PciRead, DeviceRef
  <2>4. DisplayRead \in DisplaySnapshot
    BY <2>1, ListedDisplaysType, HideAllowedDisplaysType DEF DisplayRead
  <2> QED BY <2>1, <2>2, <2>3, <2>4, ReadingAssumption
<1> QED BY <1>1, <1>2, <1>3, <1>4, <1>5, <1>6 DEF BaselineStep, Bus

(* A bus that is watched keeps its baseline while the daemon is guarding:  *)
(* capture_baselines, and the checks that follow a change.                 *)
THEOREM NeverBlindCorrect == Spec => NeverBlind
<1> DEFINE Sees == Phase = "guarding" /\ Phase' = "guarding"
                     => \A b \in config'.watch : baselines[b] # None => baselines'[b] # None
<1>1. Init => LoopInv
  BY LoopAssumption, DaemonAssumption DEF Init, LoopInv
<1>2. TypeOK /\ LoopInv /\ [Next]_vars => LoopInv'
  BY LoopInvStep
<1>3. TypeOK /\ LoopInv /\ [Next]_vars => [Sees]_vars
  BY NeverBlindStep
<1> QED BY <1>1, <1>2, <1>3, TypeCorrect, PTL DEF Spec, NeverBlind
---------------------------------------------------------------------------
(* Who was admitted through a window is in no baseline that goes by ids,   *)
(* and neither is who is about to be; a daemon that is down admits nobody. *)
Outside(d) == \A b \in IdBuses : baselines[b] # None => d \notin baselines[b]

PairedIn(table, t) == {d \in DeviceRef : IsActive(table[d], t) /\ table[d].granted_by = "Paired"}

AdmissionInv ==
  /\ \A d \in PairedIn(allowances, clock) : Outside(d)
  /\ pc = "admit" /\ violation.appeared => Outside(violation.id)
  /\ ~Up => allowances = NoAllowances

(* Time only ends allowances, and no step but an admission pairs anybody.  *)
LEMMA PairedShrinks ==
  ASSUME TypeOK, [Next]_vars, ~AdmitPaired
  PROVE  PairedIn(allowances', clock') \subseteq PairedIn(allowances, clock)
<1> SUFFICES ASSUME NEW d \in DeviceRef, IsActive(allowances'[d], clock'),
                    allowances'[d].granted_by = "Paired"
             PROVE  IsActive(allowances[d], clock) /\ allowances[d].granted_by = "Paired"
  BY DEF PairedIn
<1>0. allowances \in [DeviceRef -> Allowance \cup {None}] /\ clock \in Nat
  BY BaselineTypes
<1>1. allowances'[d] # None
  BY DEF IsActive
<1>2. CASE allowances'[d] = allowances[d] /\ clock' = clock
  BY <1>2
<1>3. CASE allowances'[d] = allowances[d] /\ clock' = clock + 1
  <2>1. allowances[d] \in Allowance
    BY <1>0, <1>1, <1>3
  <2> QED BY <1>0, <1>3, <2>1 DEF IsActive, Allowance
<1>4. CASE PollTop
  <2>1. allowances'[d] = IF IsActive(allowances[d], clock) THEN allowances[d] ELSE None
    BY <1>4 DEF PollTop, Sweep
  <2> QED BY <1>1, <2>1
<1>5. ASSUME NEW req, NEW caller, Dispatch(req, caller), UNCHANGED clock
      PROVE  IsActive(allowances[d], clock) /\ allowances[d].granted_by = "Paired"
  <2>1. CASE UNCHANGED allowances
    BY <1>2, <1>5, <2>1
  <2>2. CASE HandleAllowLast(req.for)
    <3>1. allowances'[d] = allowances[d] \/ allowances'[d] = NewAllowance("Promoted", clock, req.for)
      BY <1>0, <2>2 DEF HandleAllowLast
    <3>2. NewAllowance("Promoted", clock, req.for).granted_by = "Promoted"
      BY DEF NewAllowance
    <3>3. allowances'[d] = allowances[d]
      BY <3>1, <3>2
    <3> QED BY <1>2, <1>5, <3>3
  <2>3. CASE HandleRevoke({req.id}) \/ HandleRevoke(DeviceRef)
    BY <1>1, <1>2, <1>5, <2>3 DEF HandleRevoke
  <2> QED
    BY <1>5, <2>1, <2>2, <2>3
    DEF Dispatch, HandleDisarm, HandleArm, HandleMode, HandleReload, HandlePair, HandleKill
<1>6. ASSUME NEW c \in Conn, Client(c) \/ Serve(c)
      PROVE  IsActive(allowances[d], clock) /\ allowances[d].granted_by = "Paired"
  <2>1. UNCHANGED clock
    BY <1>6 DEF Client, Serve, SocketFrame, world
  <2>2. UNCHANGED sharedVars \/ \E req, caller : Dispatch(req, caller)
    BY <1>6 DEF Client, Serve, Authorize, RunUnasked, RunAuthorized
  <2> QED BY <1>2, <1>5, <2>1, <2>2 DEF sharedVars
<1>7. CASE PowerOff \/ ShutdownFails \/ Crash
  <2>1. allowances'[d] = None
    BY <1>7 DEF PowerOff, ShutdownFails, Crash, Exit, NewState, NoAllowances
  <2> QED BY <1>1, <2>1
<1>8. CASE Tick
  BY <1>3, <1>8 DEF Tick, sharedVars
<1>9. CASE Start \/ Rebaseline \/ TakeReload \/ Load \/ Recapture \/ DrainKill \/ SkipChecks
           \/ DetectViolations \/ CheckPower \/ CheckNetwork \/ CheckLid \/ CheckPci
           \/ CheckDisplay \/ Keep \/ RecordViolation \/ HandleViolation \/ KillReturns
           \/ ChangeHardware \/ EditFile \/ UNCHANGED vars
  <2>1. UNCHANGED <<allowances, clock>>
    BY <1>9
    DEF Start, Rebaseline, TakeReload, Load, Recapture, DrainKill, SkipChecks, DetectViolations,
        CheckPower, CheckNetwork, CheckLid, CheckPci, CheckDisplay, Keep, RecordViolation,
        HandleViolation, KillReturns, ChangeHardware, EditFile, sharedVars, world, vars
  <2> QED BY <1>2, <2>1
<1> QED BY <1>4, <1>6, <1>7, <1>8, <1>9 DEF Next, Poll

(* A capture keeps whoever is allowed at the poll's reading of the clock   *)
(* out, or leaves what there was.                                          *)
LEMMA CaptureKeepsOut ==
  ASSUME NEW cfg, NEW only_missing \in BOOLEAN, NEW broken, NEW allowed,
         CaptureBaselines(cfg, only_missing, allowed, broken),
         NEW d \in allowed, Outside(d)
  PROVE  Outside(d)'
<1> DEFINE Take(bus, reading) == Captured(cfg, bus, only_missing, broken, reading)
<1>1. ASSUME NEW b \in {"thunderbolt", "sdcard"}, baselines'[b] # None
      PROVE  d \notin baselines'[b]
  <2>1. \E t, s : /\ baselines'["thunderbolt"] = Without(Take("thunderbolt", t), allowed)
                  /\ baselines'["sdcard"] = Without(Take("sdcard", s), allowed)
    BY DEF CaptureBaselines
  <2> HIDE DEF Take
  <2>2. \E x : baselines'[b] = Without(x, allowed)
    BY <1>1, <2>1
  <2> QED BY <1>1, <2>2 DEF Without
<1>2. ASSUME baselines'["pci"] # None PROVE d \notin baselines'["pci"]
  <2>1. baselines'["pci"] = Take("pci", hw.pci \ (cfg.pci.ignore \cup allowed))
    BY DEF CaptureBaselines
  <2>2. \A reading : Take("pci", reading) \in {None, baselines["pci"], reading}
    BY DEF Captured
  <2> HIDE DEF Take
  <2>3. baselines'["pci"] \in {baselines["pci"], hw.pci \ (cfg.pci.ignore \cup allowed)}
    BY <1>2, <2>1, <2>2
  <2> QED BY <1>2, <2>3 DEF Outside, IdBuses
<1> QED BY <1>1, <1>2 DEF Outside, IdBuses

(* What the three comparisons find to have appeared: a device of the bus,  *)
(* and on a bus that goes by ids one that its baseline does not have.      *)
LEMMA UsbAppears ==
  ASSUME NEW v \in UsbOutcomes(Active(now)), v # None, v.appeared
  PROVE  v.id \in UsbId
<1>1. CASE v \in {EnumerationFailure(b) : b \in FaultyBuses \cap {"usb"}} \/ v = None
  BY <1>1 DEF EnumerationFailure, Event
<1>2. ASSUME NEW c \in UsbChanges(hw.usb, baselines["usb"],
                                  UsbWhitelist(config.whitelist, Active(now))),
             v = Found("usb", c)
      PROVE  v.id \in UsbId
  <2>1. v.id = c.id
    BY <1>2 DEF Found, Device
  <2>2. c.id \in UsbId
    BY <1>2 DEF UsbChanges, FirstOf, UsbGains, UsbLosses, Change
  <2> QED BY <2>1, <2>2
<1> QED BY <1>1, <1>2 DEF UsbOutcomes, Outcomes

LEMMA SetAppears ==
  ASSUME NEW bus, NEW current, NEW whitelist, NEW v \in SetOutcomes(bus, current, whitelist),
         v # None, v.appeared
  PROVE  v.id \in current /\ v.id \notin baselines[bus]
<1>1. CASE v \in {EnumerationFailure(b) : b \in FaultyBuses \cap {bus}} \/ v = None
  BY <1>1 DEF EnumerationFailure, Event
<1>2. ASSUME NEW c \in SetChanges(current, baselines[bus], whitelist), v = Found(bus, c)
      PROVE  v.id \in current /\ v.id \notin baselines[bus]
  <2>1. v.id = c.id /\ c.kind # "Removed"
    BY <1>2 DEF Found, Device
  <2>2. \/ c.id \in current \ (baselines[bus] \cup whitelist)
        \/ c.kind = "Removed"
    BY <1>2 DEF SetChanges, FirstOf, Change
  <2> QED BY <2>1, <2>2
<1> QED BY <1>1, <1>2 DEF SetOutcomes, Outcomes

LEMMA PciAppears ==
  ASSUME NEW c \in PciChanges(PciRead, baselines["pci"]), Found("pci", c).appeared, TypeOK
  PROVE  c.id \in PciId /\ c.id \notin baselines["pci"]
<1>1. c.kind # "Removed" /\ c.id # None
  BY DEF Found, Device
<1>2. c.id \in PciRead \ baselines["pci"]
  BY <1>1 DEF PciChanges, FirstOf, Change
<1> QED BY <1>2, BaselineTypes DEF PciRead, Hardware

LEMMA DisplayAppears ==
  ASSUME NEW current, NEW baseline, NEW c \in DisplayChanges(current, baseline),
         Found("display", c).appeared
  PROVE  c.id \in Monitor
<1>1. c.id # None
  BY DEF Found, Device
<1>2. c.id = None \/ \E port : c.id = Identity(port)
  BY DEF DisplayChanges, FirstOf, DisplayGains, DisplayLosses, Change
<1> QED BY <1>1, <1>2 DEF Identity

(* So a detection never names somebody a baseline that goes by ids has.    *)
LEMMA DetectionOutside ==
  ASSUME TypeOK, [Next]_vars, pc # "admit", pc' = "admit", violation'.appeared
  PROVE  Outside(violation'.id) /\ UNCHANGED baselines
<1>0. /\ baselines["thunderbolt"] # None => baselines["thunderbolt"] \subseteq TbId
      /\ baselines["sdcard"] # None => baselines["sdcard"] \subseteq SdId
      /\ baselines["pci"] # None => baselines["pci"] \subseteq PciId
      /\ hw.thunderbolt \subseteq TbId /\ hw.sdcard \subseteq SdId
  BY BaselineTypes DEF Baselines, Hardware
<1>1. ASSUME NEW v, Detects(v), UNCHANGED baselines, v.appeared => Outside(v.id)
      PROVE  Outside(violation'.id) /\ UNCHANGED baselines
  BY <1>1 DEF Detects
<1>2. pc' # "admit" => FALSE
  OBVIOUS
<1>3. ~NextCheck /\ ~Sleep
  BY <1>2 DEF NextCheck, Later, Sleep, Goto
<1>4. \A bus, kind, at : ~Event(bus, kind, at).appeared
  BY DEF Event
<1>5. CASE DrainKill \/ SkipChecks
  BY <1>1, <1>3, <1>4, <1>5 DEF DrainKill, SkipChecks
<1>6. CASE DetectViolations
  <2>1. PICK u \in UsbOutcomes(Active(now)),
             t \in SetOutcomes("thunderbolt", hw.thunderbolt, config.tb_whitelist \cup Active(now)),
             s \in SetOutcomes("sdcard", hw.sdcard, config.sd_whitelist \cup Active(now)) :
               LET first == IF u # None THEN u ELSE IF t # None THEN t ELSE s
               IN  first # None /\ Detects(first)
    BY <1>3, <1>6 DEF DetectViolations
  <2>2. ASSUME u # None, u.appeared PROVE Outside(u.id)
    <3>1. u.id \in UsbId
      BY <2>2, UsbAppears
    <3> QED BY <1>0, <3>1, IdentitiesApart DEF Outside, IdBuses
  <2>3. ASSUME t # None, t.appeared PROVE Outside(t.id)
    <3>1. t.id \in TbId /\ t.id \notin baselines["thunderbolt"]
      BY <1>0, <2>3, SetAppears
    <3> QED BY <1>0, <3>1, IdentitiesApart DEF Outside, IdBuses
  <2>4. ASSUME s # None, s.appeared PROVE Outside(s.id)
    <3>1. s.id \in SdId /\ s.id \notin baselines["sdcard"]
      BY <1>0, <2>4, SetAppears
    <3> QED BY <1>0, <3>1, IdentitiesApart DEF Outside, IdBuses
  <2>5. UNCHANGED baselines
    BY <1>6 DEF DetectViolations
  <2> QED BY <1>1, <2>1, <2>2, <2>3, <2>4, <2>5
<1>7. CASE CheckPower \/ CheckNetwork \/ CheckLid
  BY <1>1, <1>3, <1>4, <1>7
  DEF CheckPower, CheckNetwork, CheckLid, PowerFires, NetworkFires, LidFires
<1>8. CASE CheckPci
  <2>1. PICK c \in PciChanges(PciRead, baselines["pci"]) :
               Detects(Found("pci", c)) /\ UNCHANGED baselines
    BY <1>3, <1>8 DEF CheckPci
  <2>2. ASSUME Found("pci", c).appeared PROVE Outside(Found("pci", c).id)
    <3>1. c.id \in PciId /\ c.id \notin baselines["pci"]
      BY <2>2, PciAppears
    <3>2. Found("pci", c).id = c.id
      BY DEF Found, Device
    <3> QED BY <1>0, <3>1, <3>2, IdentitiesApart DEF Outside, IdBuses
  <2> QED BY <1>1, <2>1, <2>2
<1>9. CASE CheckDisplay
  <2>1. PICK c \in DisplayChanges(DisplayRead,
                                  HideAllowedDisplays(baselines["display"], Active(now))) :
               Detects(Found("display", c)) /\ UNCHANGED baselines
    BY <1>3, <1>9 DEF CheckDisplay
  <2>2. ASSUME Found("display", c).appeared PROVE Outside(Found("display", c).id)
    <3>1. c.id \in Monitor
      BY <2>2, DisplayAppears
    <3>2. Found("display", c).id = c.id
      BY DEF Found, Device
    <3> QED BY <1>0, <3>1, <3>2, IdentitiesApart DEF Outside, IdBuses
  <2> QED BY <1>1, <2>1, <2>2
<1>10. CASE Start \/ PollTop \/ Rebaseline \/ TakeReload \/ Load \/ Recapture
  BY <1>10 DEF Start, PollTop, Rebaseline, TakeReload, Load, Recapture
<1>11. CASE AdmitPaired \/ Keep \/ RecordViolation \/ HandleViolation \/ KillReturns
  BY <1>3, <1>11 DEF AdmitPaired, Keep, RecordViolation, HandleViolation, KillReturns, Goto
<1>12. CASE PowerOff \/ ShutdownFails \/ Crash
  BY <1>12 DEF PowerOff, ShutdownFails, Crash, Exit
<1>13. CASE Tick \/ ChangeHardware \/ EditFile \/ UNCHANGED vars
  BY <1>13 DEF Tick, ChangeHardware, EditFile, vars
<1>14. ASSUME NEW c \in Conn, Client(c) \/ Serve(c)
       PROVE  FALSE
  BY <1>14 DEF Client, Serve, SocketFrame
<1> QED
  BY <1>5, <1>6, <1>7, <1>8, <1>9, <1>10, <1>11, <1>12, <1>13, <1>14 DEF Next, Poll
(* Somebody allowed who is outside stays outside.                          *)
LEMMA StaysOutside ==
  ASSUME TypeOK, AdmissionInv, [Next]_vars, NEW d \in Active(clock), Outside(d)
  PROVE  Outside(d)'
<1>1. d \in Active(now) /\ Up
  <2>1. allowances # NoAllowances
    BY DEF Active, NoAllowances, IsActive
  <2> QED BY <2>1, ActiveEarlier DEF AdmissionInv
<1>2. CASE UNCHANGED baselines
  BY <1>2 DEF Outside
<1>3. CASE baselines' = NoBaselines
  BY <1>3 DEF Outside, IdBuses, NoBaselines
<1>4. CASE Start
  BY <1>1, <1>4 DEF Start, Up
<1>5. CASE Rebaseline
  <2>1. \E broken : CaptureBaselines(config, FALSE, Active(now), broken)
    BY <1>5 DEF Rebaseline
  <2> QED BY <1>1, <2>1, CaptureKeepsOut
<1>6. CASE Recapture
  <2>1. \E broken : CaptureBaselines(config, TRUE, Active(now), broken)
    BY <1>6 DEF Recapture
  <2> QED BY <1>1, <2>1, CaptureKeepsOut
<1>7. ASSUME NEW bus \in Bus, NEW reading, Moves(bus, reading), bus \notin IdBuses
      PROVE  Outside(d)'
  BY <1>7, MovesOne DEF Outside, IdBuses, Bus
<1>8. CASE Moves("pci", PciRead)
  BY <1>1, <1>8, MovesOne DEF Outside, IdBuses, Bus, PciRead
<1> QED
  BY <1>2, <1>3, <1>4, <1>5, <1>6, <1>7, <1>8, BaselineSteps DEF BaselineStep, Bus, IdBuses

(* Between a detection and its admission nothing but the sockets, the      *)
(* clock and the hardware moves.                                           *)
LEMMA AdmitWaits ==
  ASSUME TypeOK, [Next]_vars, pc = "admit", pc' = "admit"
  PROVE  UNCHANGED <<baselines, violation>>
<1>1. ~Start /\ ~Poll /\ ~Crash
  BY DEF Start, Poll, PollTop, Rebaseline, TakeReload, Load, Recapture, DrainKill, SkipChecks,
         DetectViolations, CheckPower, CheckNetwork, CheckLid, CheckPci, CheckDisplay,
         AdmitPaired, Keep, RecordViolation, HandleViolation, KillReturns, PowerOff, ShutdownFails,
         Crash, Exit, Sleep, Goto
<1>2. ASSUME NEW c \in Conn, Client(c) \/ Serve(c)
      PROVE  UNCHANGED <<baselines, violation>>
  BY <1>2 DEF Client, Serve, SocketFrame, locals
<1> QED
  BY <1>1, <1>2 DEF Next, Tick, ChangeHardware, EditFile, vars, locals

LEMMA AdmissionStep == TypeOK /\ AdmissionInv /\ [Next]_vars => AdmissionInv'
<1> SUFFICES ASSUME TypeOK, AdmissionInv, [Next]_vars PROVE AdmissionInv'
  OBVIOUS
<1>1. ASSUME NEW d \in PairedIn(allowances, clock) PROVE Outside(d)'
  BY <1>1, StaysOutside DEF AdmissionInv, PairedIn, Active
<1>2. ASSUME NEW d \in PairedIn(allowances', clock') PROVE Outside(d)'
  <2>1. CASE ~AdmitPaired
    BY <1>1, <1>2, <2>1, PairedShrinks
  <2>2. CASE AdmitPaired /\ d = violation.id
    BY <2>2 DEF AdmitPaired, Admissible, AdmissionInv, Outside
  <2>3. CASE AdmitPaired /\ d # violation.id
    <3>1. allowances'[d] = allowances[d] /\ clock' = clock
      BY <1>2, <2>3, BaselineTypes DEF AdmitPaired, PairedIn, world
    <3> QED BY <1>1, <1>2, <3>1 DEF PairedIn
  <2> QED BY <2>1, <2>2, <2>3
<1>3. ASSUME pc' = "admit", violation'.appeared
      PROVE  \A b \in IdBuses : baselines'[b] # None => violation'.id \notin baselines'[b]
  <2>1. CASE pc = "admit"
    BY <1>3, <2>1, AdmitWaits DEF AdmissionInv, Outside
  <2>2. CASE pc # "admit"
    BY <1>3, <2>2, DetectionOutside DEF Outside
  <2> QED BY <2>1, <2>2
<1>4. ASSUME ~Up' PROVE allowances' = NoAllowances
  <2>1. CASE PowerOff \/ ShutdownFails \/ Crash
    BY <2>1 DEF PowerOff, ShutdownFails, Crash, Exit, NewState
  <2>2. CASE UNCHANGED <<pc, allowances>>
    BY <1>4, <2>2 DEF AdmissionInv, Up
  <2>3. ASSUME NEW c \in Conn, Client(c) \/ Serve(c) PROVE FALSE
    BY <1>4, <2>3 DEF Client, Serve, SocketFrame, Up
  <2>4. CASE Start \/ Poll
    <3>1. pc' \in {"down", "dead"}
      BY <1>4 DEF Up
    <3>2. \A b \in Later : b \notin {"down", "dead"}
      BY DEF Later
    <3> QED
      BY <2>1, <2>4, <3>1, <3>2
      DEF Start, Poll, PollTop, Rebaseline, TakeReload, Load, Recapture, DrainKill, SkipChecks,
          DetectViolations, CheckPower, CheckNetwork, CheckLid, CheckPci, CheckDisplay,
          AdmitPaired, Keep, RecordViolation, HandleViolation, KillReturns, NextCheck, Sleep, Goto,
          Detects
  <2> QED
    BY <2>1, <2>2, <2>3, <2>4 DEF Next, Tick, ChangeHardware, EditFile, vars, sharedVars
<1> QED BY <1>2, <1>3, <1>4 DEF AdmissionInv, Outside

---------------------------------------------------------------------------
(* When a comparison finds nothing.                                        *)
UsbAgrees(current, baseline, whitelist) ==
  \A d \in UsbId : baseline[d] <= current[d] /\ current[d] <= baseline[d] + whitelist[d]

SetAgrees(current, baseline, whitelist) ==
  baseline \subseteq current /\ current \subseteq baseline \cup whitelist

DisplayAgrees(current, baseline) == \A c \in Connector : current[c] = baseline[c]

LEMMA UsbQuiet ==
  ASSUME NEW current \in UsbSnapshot, NEW baseline \in UsbSnapshot, NEW whitelist \in UsbSnapshot
  PROVE  UsbChanges(current, baseline, whitelist) = {} <=> UsbAgrees(current, baseline, whitelist)
<1>1. \A d \in UsbId : current[d] \in Nat /\ baseline[d] \in Nat /\ whitelist[d] \in Nat
  BY DEF UsbSnapshot
<1>2. UsbGains(current, baseline, whitelist) = {}
        <=> \A d \in UsbId : current[d] <= baseline[d] + whitelist[d]
  <2>1. ASSUME UsbGains(current, baseline, whitelist) = {}, NEW d \in UsbId
        PROVE  current[d] <= baseline[d] + whitelist[d]
    <3>1. Change("Added", d, None) \notin UsbGains(current, baseline, whitelist)
      BY <2>1
    <3>2. Change("CountIncreased", d, <<baseline[d] + whitelist[d], current[d]>>)
            \notin UsbGains(current, baseline, whitelist)
      BY <2>1
    <3> QED BY <1>1, <3>1, <3>2 DEF UsbGains
  <2>2. ASSUME \A d \in UsbId : current[d] <= baseline[d] + whitelist[d]
        PROVE  UsbGains(current, baseline, whitelist) = {}
    <3> DEFINE unknown == {d \in UsbId : current[d] > 0 /\ baseline[d] = 0 /\ whitelist[d] = 0}
               tooMany == {d \in UsbId : current[d] > baseline[d] + whitelist[d]}
    <3>1. unknown = {} /\ tooMany = {}
      BY <1>1, <2>2
    <3>2. UsbGains(current, baseline, whitelist) =
            {Change("Added", d, None) : d \in unknown} \cup
            {Change("CountIncreased", d, <<baseline[d] + whitelist[d], current[d]>>) :
               d \in tooMany \ unknown}
      BY DEF UsbGains
    <3> HIDE DEF unknown, tooMany
    <3> QED BY <3>1, <3>2
  <2> QED BY <2>1, <2>2
<1>3. UsbLosses(current, baseline) = {} <=> \A d \in UsbId : baseline[d] <= current[d]
  <2>1. ASSUME UsbLosses(current, baseline) = {}, NEW d \in UsbId
        PROVE  baseline[d] <= current[d]
    <3>1. Change("Removed", d, None) \notin UsbLosses(current, baseline)
      BY <2>1
    <3>2. Change("CountDecreased", d, <<baseline[d], current[d]>>)
            \notin UsbLosses(current, baseline)
      BY <2>1
    <3> QED BY <1>1, <3>1, <3>2 DEF UsbLosses
  <2>2. ASSUME \A d \in UsbId : baseline[d] <= current[d]
        PROVE  UsbLosses(current, baseline) = {}
    <3> DEFINE removed == {d \in UsbId : baseline[d] > 0 /\ current[d] = 0}
               fewer == {d \in UsbId : 0 < current[d] /\ current[d] < baseline[d]}
    <3>1. removed = {} /\ fewer = {}
      BY <1>1, <2>2
    <3>2. UsbLosses(current, baseline) =
            {Change("Removed", d, None) : d \in removed} \cup
            {Change("CountDecreased", d, <<baseline[d], current[d]>>) : d \in fewer}
      BY DEF UsbLosses
    <3> HIDE DEF removed, fewer
    <3> QED BY <3>1, <3>2
  <2> QED BY <2>1, <2>2
<1> QED BY <1>2, <1>3 DEF UsbChanges, FirstOf, UsbAgrees

LEMMA SetQuiet ==
  ASSUME NEW current, NEW baseline, NEW whitelist
  PROVE  SetChanges(current, baseline, whitelist) = {} <=> SetAgrees(current, baseline, whitelist)
<1>1. {Change("Added", d, None) : d \in current \ (baseline \cup whitelist)} = {}
        <=> current \ (baseline \cup whitelist) = {}
  OBVIOUS
<1>2. {Change("Removed", d, None) : d \in baseline \ current} = {} <=> baseline \ current = {}
  OBVIOUS
<1> QED BY <1>1, <1>2 DEF SetChanges, FirstOf, SetAgrees

LEMMA PciQuiet ==
  ASSUME NEW current, PciChanges(current, current) # {}
  PROVE  FALSE
BY DEF PciChanges, FirstOf

LEMMA DisplayQuiet ==
  ASSUME NEW current, NEW baseline
  PROVE  DisplayChanges(current, baseline) = {} <=> DisplayAgrees(current, baseline)
<1>1. ASSUME DisplayChanges(current, baseline) = {}, NEW c \in Connector
      PROVE  current[c] = baseline[c]
  <2>1. DisplayGains(current, baseline) = {} /\ DisplayLosses(current, baseline) = {}
    BY <1>1 DEF DisplayChanges, FirstOf
  <2>2. /\ Change("Appeared", Identity(current[c]), c) \notin DisplayGains(current, baseline)
        /\ Change("Connected", Identity(current[c]), c) \notin DisplayGains(current, baseline)
        /\ Change("Disconnected", None, c) \notin DisplayGains(current, baseline)
        /\ Change("Replaced", Identity(current[c]), c) \notin DisplayGains(current, baseline)
        /\ Change("Disappeared", None, c) \notin DisplayLosses(current, baseline)
    BY <2>1
  <2> QED BY <2>2 DEF DisplayGains, DisplayLosses
<1>2. ASSUME DisplayAgrees(current, baseline)
      PROVE  DisplayChanges(current, baseline) = {}
  <2>1. DisplayGains(current, baseline) = {}
    BY <1>2 DEF DisplayGains, DisplayAgrees
  <2>2. DisplayLosses(current, baseline) = {}
    BY <1>2 DEF DisplayLosses, DisplayAgrees
  <2> QED BY <2>1, <2>2 DEF DisplayChanges, FirstOf
<1> QED BY <1>1, <1>2 DEF DisplayAgrees

(* What a capture leaves on the buses that compare devices: nothing, what  *)
(* stood there less the allowed devices, or a fresh reading less them.     *)
LEMMA CaptureCases ==
  ASSUME NEW cfg, NEW only_missing \in BOOLEAN, NEW allowed, NEW broken,
         CaptureBaselines(cfg, only_missing, allowed, broken)
  PROVE  /\ \/ baselines'["usb"] \in {None, SkipAllowedUsb(hw.usb, allowed)}
            \/ /\ only_missing /\ "usb" \in cfg.watch /\ baselines["usb"] # None
               /\ baselines'["usb"] = baselines["usb"]
         /\ \/ baselines'["thunderbolt"] \in {None, hw.thunderbolt \ allowed}
            \/ /\ only_missing /\ "thunderbolt" \in cfg.watch /\ baselines["thunderbolt"] # None
               /\ baselines'["thunderbolt"] = baselines["thunderbolt"] \ allowed
         /\ \/ baselines'["sdcard"] \in {None, hw.sdcard \ allowed}
            \/ /\ only_missing /\ "sdcard" \in cfg.watch /\ baselines["sdcard"] # None
               /\ baselines'["sdcard"] = baselines["sdcard"] \ allowed
         /\ \/ baselines'["pci"] \in {None, hw.pci \ (cfg.pci.ignore \cup allowed)}
            \/ (only_missing \/ "pci" \in broken) /\ baselines'["pci"] = baselines["pci"]
         /\ \/ baselines'["display"] = None
            \/ baselines'["display"] =
                 HideAllowedDisplays(ListedDisplays(hw.display, cfg.display.ignore), allowed)
            \/ /\ only_missing /\ "display" \in cfg.watch /\ baselines["display"] # None
               /\ baselines'["display"] = HideAllowedDisplays(baselines["display"], allowed)
<1> DEFINE Take(bus, reading) == Captured(cfg, bus, only_missing, broken, reading)
           Stands(bus) == only_missing /\ bus \in cfg.watch /\ baselines[bus] # None
           listed == ListedDisplays(hw.display, cfg.display.ignore)
<1>1. \A bus, reading :
        \/ Take(bus, reading) \in {None, reading}
        \/ Stands(bus) /\ Take(bus, reading) = baselines[bus]
        \/ bus = "pci" /\ bus \in broken /\ Take(bus, reading) = baselines[bus]
  BY DEF Captured, Captures
<1>2. /\ baselines'["usb"] = Take("usb", SkipAllowedUsb(hw.usb, allowed))
      /\ baselines'["thunderbolt"] = Without(Take("thunderbolt", hw.thunderbolt), allowed)
      /\ baselines'["sdcard"] = Without(Take("sdcard", hw.sdcard), allowed)
      /\ baselines'["pci"] = Take("pci", hw.pci \ (cfg.pci.ignore \cup allowed))
      /\ baselines'["display"] = IF Take("display", listed) = None THEN None
                                 ELSE HideAllowedDisplays(Take("display", listed), allowed)
  BY DEF CaptureBaselines
<1> HIDE DEF Take, listed
<1>3. \A x : Without(x, allowed) \in {None, x \ allowed}
  BY DEF Without
<1>4. \/ baselines'["usb"] \in {None, SkipAllowedUsb(hw.usb, allowed)}
      \/ Stands("usb") /\ baselines'["usb"] = baselines["usb"]
  BY <1>1, <1>2
<1>5. \A b \in {"thunderbolt", "sdcard"} : \A reading :
        baselines'[b] = Without(Take(b, reading), allowed) =>
          \/ baselines'[b] \in {None, reading \ allowed}
          \/ Stands(b) /\ baselines'[b] \in {None, baselines[b] \ allowed}
  <2> SUFFICES ASSUME NEW b \in {"thunderbolt", "sdcard"}, NEW reading,
                      baselines'[b] = Without(Take(b, reading), allowed)
               PROVE  \/ baselines'[b] \in {None, reading \ allowed}
                      \/ Stands(b) /\ baselines'[b] \in {None, baselines[b] \ allowed}
    OBVIOUS
  <2>1. \/ Take(b, reading) \in {None, reading}
        \/ Stands(b) /\ Take(b, reading) = baselines[b]
    BY <1>1
  <2>2. Without(None, allowed) = None
    BY DEF Without
  <2> QED BY <1>3, <2>1, <2>2
<1>6. \/ baselines'["pci"] \in {None, hw.pci \ (cfg.pci.ignore \cup allowed)}
      \/ (only_missing \/ "pci" \in broken) /\ baselines'["pci"] = baselines["pci"]
  BY <1>1, <1>2
<1>7. \/ baselines'["display"] \in {None, HideAllowedDisplays(listed, allowed)}
      \/ /\ Stands("display")
         /\ baselines'["display"] = HideAllowedDisplays(baselines["display"], allowed)
  BY <1>1, <1>2
<1> QED BY <1>2, <1>4, <1>5, <1>6, <1>7 DEF listed
---------------------------------------------------------------------------
(* Hiding leaves no allowed monitor at any connector.                      *)
LEMMA HiddenOut ==
  ASSUME NEW snapshot, NEW allowed, NEW c \in Connector
  PROVE  HideAllowedDisplays(snapshot, allowed)[c] \notin Monitor \cap allowed
BY IdentitiesApart DEF HideAllowedDisplays

(* A capture takes in nobody who is allowed, and drops the monitors that   *)
(* are from the baseline that stood.                                       *)
LEMMA CaptureTakesNobody ==
  ASSUME TypeOK, NEW cfg, NEW only_missing \in BOOLEAN, NEW allowed, NEW broken,
         CaptureBaselines(cfg, only_missing, allowed, broken)
  PROVE  /\ \A d \in allowed : ~TakesIn(d)
         /\ baselines'["display"] # None =>
              \A c \in Connector : baselines'["display"][c] \notin Monitor \cap allowed
<1> DEFINE listed == ListedDisplays(hw.display, cfg.display.ignore)
<1>1. /\ baselines'["usb"] \in {None, baselines["usb"], SkipAllowedUsb(hw.usb, allowed)}
      /\ baselines'["thunderbolt"] \in
           {None, hw.thunderbolt \ allowed, baselines["thunderbolt"] \ allowed}
      /\ baselines'["sdcard"] \in {None, hw.sdcard \ allowed, baselines["sdcard"] \ allowed}
      /\ baselines'["pci"] \in {None, baselines["pci"], hw.pci \ (cfg.pci.ignore \cup allowed)}
      /\ baselines'["display"] \in
           {None, HideAllowedDisplays(listed, allowed),
            HideAllowedDisplays(baselines["display"], allowed)}
  <2>1. CASE only_missing = TRUE
    <3>1. CaptureBaselines(cfg, TRUE, allowed, broken)
      BY <2>1
    <3> HIDE DEF listed
    <3>2. /\ baselines'["usb"] \in {None, baselines["usb"], SkipAllowedUsb(hw.usb, allowed)}
          /\ baselines'["thunderbolt"] \in
               {None, hw.thunderbolt \ allowed, baselines["thunderbolt"] \ allowed}
      BY <3>1, CaptureCases
    <3>3. /\ baselines'["sdcard"] \in
               {None, hw.sdcard \ allowed, baselines["sdcard"] \ allowed}
          /\ baselines'["pci"] \in
               {None, baselines["pci"], hw.pci \ (cfg.pci.ignore \cup allowed)}
      BY <3>1, CaptureCases
    <3>4. baselines'["display"] \in {None, HideAllowedDisplays(listed, allowed),
                                     HideAllowedDisplays(baselines["display"], allowed)}
      BY <3>1, CaptureCases DEF listed
    <3> QED BY <3>2, <3>3, <3>4
  <2>2. CASE only_missing = FALSE
    <3>1. CaptureBaselines(cfg, FALSE, allowed, broken)
      BY <2>2
    <3> QED BY <3>1, CaptureCases
  <2> QED BY <2>1, <2>2
<1> HIDE DEF listed
<1>2. ASSUME NEW b \in IdBuses, baselines'[b] # None, NEW d \in allowed, d \in baselines'[b]
      PROVE  baselines[b] # None /\ d \in baselines[b]
  BY <1>1, <1>2 DEF IdBuses
<1>3. ASSUME baselines'["usb"] \notin {None, baselines["usb"]},
             NEW d \in allowed \cap UsbId, hw.usb[d] > 0
      PROVE  ~(baselines'["usb"][d] >= hw.usb[d])
  <2>1. baselines'["usb"] = SkipAllowedUsb(hw.usb, allowed)
    BY <1>1, <1>3
  <2>2. hw.usb[d] \in Nat
    BY BaselineTypes DEF Hardware, UsbSnapshot
  <2> QED BY <1>3, <2>1, <2>2 DEF SkipAllowedUsb
<1>4. ASSUME baselines'["display"] # None, NEW c \in Connector
      PROVE  baselines'["display"][c] \notin Monitor \cap allowed
  BY <1>1, <1>4, HiddenOut
<1>5. ASSUME NEW d \in allowed PROVE ~TakesIn(d)
  <2>1. ~\E b \in IdBuses : /\ baselines'[b] # None /\ d \in baselines'[b]
                            /\ baselines[b] = None \/ d \notin baselines[b]
    BY <1>2
  <2>2. ~(/\ d \in UsbId
          /\ baselines'["usb"] \notin {None, baselines["usb"]}
          /\ hw.usb[d] > 0 /\ baselines'["usb"][d] >= hw.usb[d])
    BY <1>3
  <2>3. ~(/\ d \in Monitor /\ baselines'["display"] # None
          /\ \E c \in Connector : baselines'["display"][c] = d)
    BY <1>4
  <2> QED BY <2>1, <2>2, <2>3, Zenon DEF TakesIn
<1> QED BY <1>4, <1>5

(* Nor does any other step.                                                *)
LEMMA NobodyTakenIn ==
  ASSUME TypeOK, AdmissionInv, [Next]_vars, NEW d \in Active(clock)
  PROVE  ~TakesIn(d)
<1>1. d \in Active(now) /\ Up
  <2>1. allowances # NoAllowances
    BY DEF Active, NoAllowances, IsActive
  <2> QED BY <2>1, ActiveEarlier DEF AdmissionInv
<1>2. CASE UNCHANGED baselines
  BY <1>2 DEF TakesIn
<1>3. CASE baselines' = NoBaselines
  BY <1>3 DEF TakesIn, IdBuses, NoBaselines
<1>4. CASE Start
  BY <1>1, <1>4 DEF Start, Up
<1>5. CASE Rebaseline
  <2>1. \E broken : CaptureBaselines(config, FALSE, Active(now), broken)
    BY <1>5 DEF Rebaseline
  <2> QED BY <1>1, <2>1, CaptureTakesNobody
<1>9. CASE Recapture
  <2>1. \E broken : CaptureBaselines(config, TRUE, Active(now), broken)
    BY <1>9 DEF Recapture
  <2> QED BY <1>1, <2>1, CaptureTakesNobody
<1>6. ASSUME NEW bus \in EventBus, NEW reading, Moves(bus, reading)
      PROVE  ~TakesIn(d)
  <2>1. \A b \in IdBuses \cup {"usb", "display"} : baselines'[b] = baselines[b]
    BY <1>6, MovesOne DEF EventBus, IdBuses, Bus
  <2> QED BY <2>1 DEF TakesIn, IdBuses
<1>7. CASE Moves("pci", PciRead)
  <2>1. /\ \A b \in {"thunderbolt", "sdcard", "usb", "display"} : baselines'[b] = baselines[b]
        /\ baselines'["pci"] = PciRead
    BY <1>7, MovesOne DEF Bus
  <2> QED BY <1>1, <2>1 DEF TakesIn, IdBuses, PciRead
<1>8. CASE Moves("display", DisplayRead)
  <2>1. /\ \A b \in {"thunderbolt", "sdcard", "usb", "pci"} : baselines'[b] = baselines[b]
        /\ baselines'["display"] = DisplayRead
    BY <1>8, MovesOne DEF Bus
  <2>2. d \in Monitor => \A c \in Connector : DisplayRead[c] # d
    BY <1>1, HiddenOut DEF DisplayRead
  <2>3. \A b \in IdBuses : baselines'[b] = baselines[b]
    BY <2>1 DEF IdBuses
  <2> QED BY <2>1, <2>2, <2>3 DEF TakesIn
<1> QED
  BY <1>2, <1>3, <1>4, <1>5, <1>6, <1>7, <1>8, <1>9, BaselineSteps DEF BaselineStep, EventBus

LEMMA MonitorDroppedStep ==
  ASSUME TypeOK, [Next]_vars, pc' # pc, pc \in {"rebaseline", "recapture"},
         baselines'["display"] # None
  PROVE  \A c \in Connector : baselines'["display"][c] \notin Monitor \cap Active(clock)
<1>1. CASE Rebaseline
  <2>1. \E broken : CaptureBaselines(config, FALSE, Active(now), broken)
    BY <1>1 DEF Rebaseline
  <2> QED BY <2>1, CaptureTakesNobody, ActiveEarlier
<1>4. CASE Recapture
  <2>1. \E broken : CaptureBaselines(config, TRUE, Active(now), broken)
    BY <1>4 DEF Recapture
  <2> QED BY <2>1, CaptureTakesNobody, ActiveEarlier
<1>2. CASE Crash
  BY <1>2 DEF Crash, Exit, NoBaselines
<1>3. ASSUME NEW c \in Conn, Client(c) \/ Serve(c)
      PROVE  FALSE
  BY <1>3 DEF Client, Serve, SocketFrame
<1> QED
  BY <1>1, <1>2, <1>3, <1>4
  DEF Next, Start, Poll, PollTop, TakeReload, Load, DrainKill, SkipChecks, DetectViolations,
      CheckPower, CheckNetwork, CheckLid, CheckPci, CheckDisplay, AdmitPaired, Keep,
      RecordViolation, HandleViolation, KillReturns, PowerOff, ShutdownFails, Tick, ChangeHardware,
      EditFile, vars

(* No step takes an allowed device into the baseline of any bus, one that  *)
(* was paired is in none that goes by ids, and a capture drops an allowed  *)
(* monitor: capture_baselines, admit_paired and the checks that follow.    *)
THEOREM PairedCorrect == Spec => PairedKeptOut
<1> DEFINE Nobody == \A d \in Active(clock) : ~TakesIn(d)
           Dropped == /\ pc' # pc /\ pc \in {"rebaseline", "recapture"}
                      /\ baselines'["display"] # None
                      => \A c \in Connector :
                           baselines'["display"][c] \notin Monitor \cap Active(clock)
<1>1. Init => AdmissionInv
  BY DEF Init, InitState, AdmissionInv, Outside, IdBuses, NoBaselines, PairedIn, NoAllowances,
         IsActive
<1>2. AdmissionInv => PairedOutside
  BY DEF AdmissionInv, PairedOutside, PairedIn, Active, Outside, IdBuses
<1>3. TypeOK /\ AdmissionInv /\ [Next]_vars => [Nobody]_vars
  BY NobodyTakenIn
<1>4. TypeOK /\ [Next]_vars => [Dropped]_vars
  BY MonitorDroppedStep
<1> QED
  BY <1>1, <1>2, <1>3, <1>4, AdmissionStep, TypeCorrect, PTL
  DEF Spec, PairedKeptOut, PairedStaysOut, AllowedStaysOut, MonitorDropped
---------------------------------------------------------------------------
(* A fresh reading less the allowed devices is quiet, so is a standing one *)
(* from which they are taken out, and allowing more leaves it so.          *)
LEMMA FreshUsb ==
  ASSUME NEW usb \in UsbSnapshot, NEW whitelist \in UsbSnapshot, NEW allowed
  PROVE  UsbChanges(usb, SkipAllowedUsb(usb, allowed), UsbWhitelist(whitelist, allowed)) = {}
<1>1. UsbAgrees(usb, SkipAllowedUsb(usb, allowed), UsbWhitelist(whitelist, allowed))
  BY DEF UsbAgrees, SkipAllowedUsb, UsbWhitelist, UsbSnapshot
<1> QED BY <1>1, UsbQuiet, SkipAllowedUsbType, UsbWhitelistType

LEMMA GrownUsb ==
  ASSUME NEW usb \in UsbSnapshot, NEW baseline \in UsbSnapshot, NEW whitelist \in UsbSnapshot,
         NEW allowed, NEW more, allowed \subseteq more,
         UsbChanges(usb, baseline, UsbWhitelist(whitelist, allowed)) = {}
  PROVE  UsbChanges(usb, baseline, UsbWhitelist(whitelist, more)) = {}
<1>1. UsbAgrees(usb, baseline, UsbWhitelist(whitelist, allowed))
  BY UsbQuiet, UsbWhitelistType
<1>2. \A d \in UsbId : /\ usb[d] \in Nat /\ baseline[d] \in Nat
                       /\ UsbWhitelist(whitelist, allowed)[d] \in Nat
                       /\ UsbWhitelist(whitelist, more)[d] \in Nat
                       /\ UsbWhitelist(whitelist, allowed)[d] <= UsbWhitelist(whitelist, more)[d]
  BY DEF UsbWhitelist, UsbSnapshot
<1>3. UsbAgrees(usb, baseline, UsbWhitelist(whitelist, more))
  BY <1>1, <1>2 DEF UsbAgrees
<1> QED BY <1>3, UsbQuiet, UsbWhitelistType

LEMMA FreshSet ==
  ASSUME NEW current, NEW whitelist, NEW allowed
  PROVE  SetChanges(current, current \ allowed, whitelist \cup allowed) = {}
BY SetQuiet DEF SetAgrees

LEMMA GrownSet ==
  ASSUME NEW current, NEW baseline, NEW whitelist, NEW allowed, NEW more, allowed \subseteq more,
         SetChanges(current, baseline, whitelist \cup allowed) = {}
  PROVE  /\ SetChanges(current, baseline, whitelist \cup more) = {}
         /\ SetChanges(current, baseline \ allowed, whitelist \cup more) = {}
<1>1. SetAgrees(current, baseline, whitelist \cup allowed)
  BY SetQuiet
<1>2. /\ SetAgrees(current, baseline, whitelist \cup more)
      /\ SetAgrees(current, baseline \ allowed, whitelist \cup more)
  BY <1>1 DEF SetAgrees
<1> QED BY <1>2, SetQuiet

LEMMA FreshDisplay ==
  ASSUME NEW listed, NEW allowed
  PROVE  DisplayChanges(HideAllowedDisplays(listed, allowed),
                        HideAllowedDisplays(HideAllowedDisplays(listed, allowed), allowed)) = {}
<1>1. DisplayAgrees(HideAllowedDisplays(listed, allowed),
                    HideAllowedDisplays(HideAllowedDisplays(listed, allowed), allowed))
  BY DEF DisplayAgrees, HideAllowedDisplays
<1> QED BY <1>1, DisplayQuiet

LEMMA GrownDisplay ==
  ASSUME NEW listed, NEW baseline, NEW allowed, NEW more, allowed \subseteq more,
         DisplayChanges(HideAllowedDisplays(listed, allowed),
                        HideAllowedDisplays(baseline, allowed)) = {}
  PROVE  /\ DisplayChanges(HideAllowedDisplays(listed, more),
                           HideAllowedDisplays(baseline, more)) = {}
         /\ DisplayChanges(HideAllowedDisplays(listed, more),
                           HideAllowedDisplays(HideAllowedDisplays(baseline, allowed), more)) = {}
<1>1. DisplayAgrees(HideAllowedDisplays(listed, allowed), HideAllowedDisplays(baseline, allowed))
  BY DisplayQuiet
<1>2. /\ DisplayAgrees(HideAllowedDisplays(listed, more), HideAllowedDisplays(baseline, more))
      /\ DisplayAgrees(HideAllowedDisplays(listed, more),
                       HideAllowedDisplays(HideAllowedDisplays(baseline, allowed), more))
  BY <1>1 DEF DisplayAgrees, HideAllowedDisplays
<1> QED BY <1>2, DisplayQuiet

(* A re-arm accepts what is plugged in, whatever is allowed.               *)
LEMMA RearmStep ==
  ASSUME TypeOK, Rebaseline
  PROVE  Quiet(DetectionBuses \cup ({"pci"} \ FaultyBuses), now)'
<1>1. /\ Active(now)' = Active(now)
      /\ hw' = hw /\ config' = config
  BY DEF Rebaseline, Active, sharedVars, world
<1>2. hw.usb \in UsbSnapshot /\ config.whitelist \in UsbSnapshot
  BY BaselineTypes DEF Hardware, Config
<1>3. PICK broken \in SUBSET FaultyBuses : CaptureBaselines(config, FALSE, Active(now), broken)
  BY DEF Rebaseline
<1>4. /\ baselines'["usb"] \in {None, SkipAllowedUsb(hw.usb, Active(now))}
      /\ baselines'["thunderbolt"] \in {None, hw.thunderbolt \ Active(now)}
      /\ baselines'["sdcard"] \in {None, hw.sdcard \ Active(now)}
      /\ "pci" \notin FaultyBuses =>
           baselines'["pci"] \in {None, hw.pci \ (config.pci.ignore \cup Active(now))}
      /\ baselines'["display"] \in
           {None, HideAllowedDisplays(ListedDisplays(hw.display, config.display.ignore), Active(now))}
  BY <1>3, CaptureCases
<1> USE DEF ChangesOn, Watched
<1>5. (ChangesOn("usb", now) = {})'
  BY <1>1, <1>2, <1>4, FreshUsb
<1>6. (ChangesOn("thunderbolt", now) = {})'
  <2>1. CASE baselines'["thunderbolt"] = None
    BY <2>1
  <2>2. CASE baselines'["thunderbolt"] = hw.thunderbolt \ Active(now)
    <3>1. SetChanges(hw.thunderbolt, hw.thunderbolt \ Active(now),
                     config.tb_whitelist \cup Active(now)) = {}
      BY FreshSet
    <3> QED BY <1>1, <2>2, <3>1
  <2> QED BY <1>4, <2>1, <2>2
<1>9. (ChangesOn("sdcard", now) = {})'
  <2>1. CASE baselines'["sdcard"] = None
    BY <2>1
  <2>2. CASE baselines'["sdcard"] = hw.sdcard \ Active(now)
    BY <1>1, <2>2, FreshSet
  <2> QED BY <1>4, <2>1, <2>2
<1>7. "pci" \notin FaultyBuses => (ChangesOn("pci", now) = {})'
  BY <1>1, <1>4, PciQuiet
<1>8. (ChangesOn("display", now) = {})'
  BY <1>1, <1>4, FreshDisplay
<1> HIDE DEF ChangesOn, Watched
<1> QED BY <1>5, <1>6, <1>7, <1>8, <1>9 DEF Quiet, DetectionBuses
LEMMA OnlyRebaseline ==
  ASSUME [Next]_vars, pc = "rebaseline", pc' = "reload"
  PROVE  Rebaseline
<1>1. ASSUME NEW c \in Conn, Client(c) \/ Serve(c)
      PROVE  FALSE
  BY <1>1 DEF Client, Serve, SocketFrame
<1> QED
  BY <1>1
  DEF Next, Start, Poll, PollTop, TakeReload, Load, Recapture, DrainKill, SkipChecks,
      DetectViolations, CheckPower, CheckNetwork, CheckLid, CheckPci, CheckDisplay,
      AdmitPaired, Keep, RecordViolation, HandleViolation, KillReturns, PowerOff, ShutdownFails,
      Tick, ChangeHardware, EditFile, Crash, Exit, vars

(* The poll that re-armed finds nothing to report.                         *)
THEOREM RearmCorrect == Spec => RearmIsQuiet
<1> DEFINE Accepted == pc = "rebaseline" /\ pc' = "reload"
                         => Quiet(DetectionBuses \cup ({"pci"} \ FaultyBuses), now)'
<1>1. TypeOK /\ [Next]_vars => [Accepted]_vars
  BY OnlyRebaseline, RearmStep
<1> QED BY <1>1, TypeCorrect, PTL DEF Spec, RearmIsQuiet

(* What the check of a monitored bus leaves: a baseline that no longer     *)
(* differs, moved only if it did before.                                   *)
Settles(b) ==
  \A t \in {now} :
    \/ ~Differs(b, t)' /\ (Differs(b, t) \/ UNCHANGED baselines)
    \/ b \in FaultyBuses /\ UNCHANGED baselines

LEMMA EventLogged ==
  ASSUME TypeOK, NEW b \in EventBus, pc = b, config[b].policy = "Monitor",
         CheckPower \/ CheckNetwork \/ CheckLid
  PROVE  Settles(b)
<1>0. hw' = hw /\ config' = config /\ baselines \in Baselines /\ Watched(b)
  BY BaselineTypes DEF CheckPower, CheckNetwork, CheckLid, world, TypeOK, LoopTypeOK, EventBus
<1>1. CASE CheckPower
  <2>1. b = "power" /\ Follow("power", hw.power)
    BY <1>1 DEF CheckPower, PowerQuiet, PowerFires, Accept
  <2>2. baselines' = [baselines EXCEPT !["power"] = hw.power]
    BY <2>1 DEF Follow
  <2>3. baselines'["power"] = hw.power
    BY <1>0, <2>2 DEF Baselines
  <2>4. CASE hw.power # baselines["power"]
    BY <1>0, <2>1, <2>3, <2>4 DEF Settles, Differs
  <2>5. CASE hw.power = baselines["power"]
    <3>1. UNCHANGED baselines
      BY <1>0, <2>2, <2>5 DEF Baselines
    <3> QED BY <1>0, <2>1, <2>3, <3>1 DEF Settles, Differs
  <2> QED BY <2>4, <2>5
<1>2. CASE CheckNetwork
  <2>0. b = "network" /\ Links(config)' = Links(config)
    BY <1>0, <1>2 DEF CheckNetwork, Links
  <2>1. CASE LinksDown # {} /\ Follow("network", Links(config))
    <3>1. baselines'["network"] = Links(config)
      BY <1>0, <2>1 DEF Follow, Baselines
    <3>2. LinksDown' = {}
      BY <2>0, <3>1 DEF LinksDown
    <3> QED BY <1>0, <2>0, <2>1, <3>2 DEF Settles, Differs
  <2>2. CASE LinksDown = {} /\ UNCHANGED baselines
    <3>1. LinksDown' = {}
      BY <2>0, <2>2 DEF LinksDown
    <3> QED BY <2>0, <2>2, <3>1 DEF Settles, Differs
  <2> QED BY <1>2, <2>0, <2>1, <2>2 DEF CheckNetwork, NetworkQuiet, NetworkFires, Accept
<1>3. CASE CheckLid
  <2>0. b = "lid" /\ LidClosed' = LidClosed
    BY <1>0, <1>3 DEF CheckLid, LidClosed
  <2>1. CASE LidClosed /\ baselines["lid"] # "Closed" /\ Follow("lid", hw.lid)
    <3>1. baselines'["lid"] = "Closed"
      BY <1>0, <2>1 DEF Follow, Baselines, LidClosed
    <3> QED BY <1>0, <2>0, <2>1, <3>1 DEF Settles, Differs
  <2>2. CASE ~(LidClosed /\ baselines["lid"] # "Closed") /\ UNCHANGED baselines
    BY <2>0, <2>2 DEF Settles, Differs
  <2> QED BY <1>3, <2>0, <2>1, <2>2 DEF CheckLid, LidQuiet, LidFires, Accept
<1> QED BY <1>1, <1>2, <1>3

LEMMA PciLogged ==
  ASSUME TypeOK, CheckPci, config.pci.policy = "Monitor"
  PROVE  Settles("pci")
<1>0. \A t : Active(t)' = Active(t)
  BY DEF CheckPci, Active, sharedVars
<1>1. hw' = hw /\ config' = config /\ Watched("pci")
  BY DEF CheckPci, world, TypeOK, LoopTypeOK
<1>2. \A t \in {now} : /\ ChangesOn("pci", t) = PciChanges(PciRead, baselines["pci"])
                       /\ ChangesOn("pci", t)' \in {{}, PciChanges(PciRead, baselines'["pci"])}
  BY <1>0, <1>1 DEF ChangesOn, PciRead
<1>3. CASE "pci" \in FaultyBuses /\ UNCHANGED baselines
  BY <1>3 DEF Settles
<1>4. CASE PciChanges(PciRead, baselines["pci"]) = {} /\ UNCHANGED baselines
  BY <1>2, <1>4 DEF Settles, Differs
<1>5. CASE PciChanges(PciRead, baselines["pci"]) # {} /\ Follow("pci", PciRead)
  <2>1. baselines'["pci"] = PciRead
    BY <1>5, BaselineTypes DEF Follow, Baselines
  <2>2. \A t \in {now} : ChangesOn("pci", t) # {} /\ ChangesOn("pci", t)' = {}
    BY <1>2, <1>5, <2>1, PciQuiet
  <2> QED BY <2>2 DEF Settles, Differs
<1> QED BY <1>3, <1>4, <1>5 DEF CheckPci

LEMMA DisplayLogged ==
  ASSUME TypeOK, CheckDisplay, config.display.policy = "Monitor"
  PROVE  Settles("display")
<1> DEFINE changes == DisplayChanges(DisplayRead,
                                     HideAllowedDisplays(baselines["display"], Active(now)))
<1>0. \A t : Active(t)' = Active(t)
  BY DEF CheckDisplay, Active, sharedVars
<1>1. hw' = hw /\ config' = config /\ Watched("display")
  BY DEF CheckDisplay, world, TypeOK, LoopTypeOK
<1>2. \A t \in {now} :
        /\ ChangesOn("display", t) = changes
        /\ ChangesOn("display", t)' \in
             {{}, DisplayChanges(DisplayRead, HideAllowedDisplays(baselines'["display"], Active(now)))}
  BY <1>0, <1>1 DEF ChangesOn, DisplayRead
<1>3. CASE changes = {} /\ UNCHANGED baselines
  BY <1>2, <1>3 DEF Settles, Differs
<1>4. CASE changes # {} /\ Follow("display", DisplayRead)
  <2>1. baselines'["display"] = DisplayRead
    BY <1>4, BaselineTypes DEF Follow, Baselines
  <2>2. DisplayChanges(DisplayRead, HideAllowedDisplays(DisplayRead, Active(now))) = {}
    BY FreshDisplay DEF DisplayRead
  <2>3. \A t \in {now} : ChangesOn("display", t) # {} /\ ChangesOn("display", t)' = {}
    BY <1>2, <1>4, <2>1, <2>2
  <2> QED BY <2>3 DEF Settles, Differs
<1> QED BY <1>3, <1>4 DEF CheckDisplay

LEMMA LoggedStep ==
  ASSUME TypeOK, [Next]_vars, NEW b \in PolicyBus, pc = b, pc' # b, Up',
         config[b].policy = "Monitor"
  PROVE  Settles(b)
<1>1. CASE CheckPower \/ CheckNetwork \/ CheckLid
  <2>1. b \in EventBus
    BY <1>1 DEF CheckPower, CheckNetwork, CheckLid, EventBus
  <2> QED BY <1>1, <2>1, EventLogged
<1>2. CASE CheckPci
  BY <1>2, PciLogged DEF CheckPci
<1>3. CASE CheckDisplay
  BY <1>3, DisplayLogged DEF CheckDisplay
<1>4. ASSUME NEW c \in Conn, Client(c) \/ Serve(c)
      PROVE  FALSE
  BY <1>4 DEF Client, Serve, SocketFrame
<1>5. ~Crash
  BY DEF Crash, Exit, Up
<1> QED
  BY <1>1, <1>2, <1>3, <1>4, <1>5
  DEF Next, Start, Poll, PollTop, Rebaseline, TakeReload, Load, Recapture, DrainKill, SkipChecks,
      DetectViolations, AdmitPaired, Keep, RecordViolation, HandleViolation, KillReturns, PowerOff,
      ShutdownFails, Tick, ChangeHardware, EditFile, vars, PolicyBus, EventBus

(* A bus that is only monitored reports a change once: the monitor branch  *)
(* of the five checks that have one.                                       *)
THEOREM LoggedCorrect == Spec => MonitoredIsLoggedOnce
<1> DEFINE Logged == \A b \in PolicyBus, t \in {now} :
                       pc = b /\ pc' # b /\ Up' /\ config[b].policy = "Monitor" =>
                         \/ ~Differs(b, t)' /\ (Differs(b, t) \/ UNCHANGED baselines)
                         \/ b \in FaultyBuses /\ UNCHANGED baselines
<1>1. TypeOK /\ [Next]_vars => Logged
  BY LoggedStep DEF Settles
<1>2. TypeOK /\ [Next]_vars => [Logged]_vars
  BY <1>1
<1> QED BY <1>2, TypeCorrect, PTL DEF Spec, MonitoredIsLoggedOnce
---------------------------------------------------------------------------
(* When no allowance lapses, the poll and the clock allow the same devices *)
(* and the step takes none away.                                           *)
LEMMA NothingLapses ==
  ASSUME TypeOK, NothingRevoked, UNCHANGED clock
  PROVE  Active(now) = Active(clock) /\ Active(clock) \subseteq Active(clock)'
<1>1. Active(now) \subseteq Active(clock)
  BY DEF Active, IsActive, NothingRevoked
<1>2. Active(clock) \subseteq Active(clock)'
  BY DEF Active, IsActive, NothingRevoked
<1> QED BY <1>1, <1>2, ActiveEarlier

(* A step that leaves a baseline, or takes the allowed devices out of it,  *)
(* leaves a quiet bus quiet.                                               *)
LEMMA StandingQuiet ==
  ASSUME TypeOK, Quiet(DetectionBuses, clock), UNCHANGED <<hw, config>>,
         Active(clock) \subseteq Active(clock)', NEW b \in DetectionBuses,
         b \in config.watch, baselines[b] # None,
         \/ baselines'[b] = baselines[b]
         \/ b \in {"thunderbolt", "sdcard"} /\ baselines'[b] = baselines[b] \ Active(clock)
         \/ b = "display" /\ baselines'[b] = HideAllowedDisplays(baselines[b], Active(clock))
  PROVE  (ChangesOn(b, clock) = {})'
<1>0. ChangesOn(b, clock) = {}
  BY DEF Quiet
<1>1. CASE b = "usb"
  <2>1. /\ hw.usb \in UsbSnapshot /\ config.whitelist \in UsbSnapshot
        /\ baselines["usb"] \in UsbSnapshot
    BY <1>1, BaselineTypes DEF Hardware, Config, Baselines
  <2>2. UsbChanges(hw.usb, baselines["usb"], UsbWhitelist(config.whitelist, Active(clock))) = {}
    BY <1>0, <1>1 DEF ChangesOn, Watched
  <2>3. UsbChanges(hw.usb, baselines["usb"], UsbWhitelist(config.whitelist, Active(clock)')) = {}
    BY <2>1, <2>2, GrownUsb
  <2> QED BY <1>1, <2>3 DEF ChangesOn, Watched
<1>2. CASE b = "thunderbolt"
  <2>1. SetChanges(hw.thunderbolt, baselines["thunderbolt"],
                   config.tb_whitelist \cup Active(clock)) = {}
    BY <1>0, <1>2 DEF ChangesOn, Watched
  <2>2. /\ SetChanges(hw.thunderbolt, baselines["thunderbolt"],
                      config.tb_whitelist \cup Active(clock)') = {}
        /\ SetChanges(hw.thunderbolt, baselines["thunderbolt"] \ Active(clock),
                      config.tb_whitelist \cup Active(clock)') = {}
    BY <2>1, GrownSet
  <2> QED BY <1>2, <2>2 DEF ChangesOn, Watched
<1>3. CASE b = "sdcard"
  <2>1. SetChanges(hw.sdcard, baselines["sdcard"],
                   config.sd_whitelist \cup Active(clock)) = {}
    BY <1>0, <1>3 DEF ChangesOn, Watched
  <2>2. /\ SetChanges(hw.sdcard, baselines["sdcard"],
                      config.sd_whitelist \cup Active(clock)') = {}
        /\ SetChanges(hw.sdcard, baselines["sdcard"] \ Active(clock),
                      config.sd_whitelist \cup Active(clock)') = {}
    BY <2>1, GrownSet
  <2> QED BY <1>3, <2>2 DEF ChangesOn, Watched
<1>4. CASE b = "display"
  <2> DEFINE listed == ListedDisplays(hw.display, config.display.ignore)
  <2>1. DisplayChanges(HideAllowedDisplays(listed, Active(clock)),
                       HideAllowedDisplays(baselines["display"], Active(clock))) = {}
    BY <1>0, <1>4 DEF ChangesOn, Watched
  <2>2. /\ DisplayChanges(HideAllowedDisplays(listed, Active(clock)'),
                          HideAllowedDisplays(baselines["display"], Active(clock)')) = {}
        /\ DisplayChanges(HideAllowedDisplays(listed, Active(clock)'),
                          HideAllowedDisplays(
                            HideAllowedDisplays(baselines["display"], Active(clock)),
                            Active(clock)')) = {}
    <3> HIDE DEF listed
    <3> QED BY <2>1, GrownDisplay
  <2> QED BY <1>4, <2>2 DEF ChangesOn, Watched
<1> QED BY <1>1, <1>2, <1>3, <1>4 DEF DetectionBuses

(* A capture leaves each of these buses quiet: what stood there was, and a *)
(* fresh reading is.                                                       *)
LEMMA CaptureQuiet ==
  ASSUME TypeOK, Quiet(DetectionBuses, clock), UNCHANGED <<hw, config>>,
         Active(now) = Active(clock), Active(clock)' = Active(clock),
         NEW only_missing \in BOOLEAN, NEW broken,
         CaptureBaselines(config, only_missing, Active(now), broken)
  PROVE  Quiet(DetectionBuses, clock)'
<1>1. hw.usb \in UsbSnapshot /\ config.whitelist \in UsbSnapshot
  BY BaselineTypes DEF Hardware, Config
<1>7. /\ \/ baselines'["usb"] \in {None, SkipAllowedUsb(hw.usb, Active(now))}
         \/ /\ "usb" \in config.watch /\ baselines["usb"] # None
            /\ baselines'["usb"] = baselines["usb"]
      /\ \/ baselines'["thunderbolt"] \in {None, hw.thunderbolt \ Active(now)}
         \/ /\ "thunderbolt" \in config.watch /\ baselines["thunderbolt"] # None
            /\ baselines'["thunderbolt"] = baselines["thunderbolt"] \ Active(now)
      /\ \/ baselines'["sdcard"] \in {None, hw.sdcard \ Active(now)}
         \/ /\ "sdcard" \in config.watch /\ baselines["sdcard"] # None
            /\ baselines'["sdcard"] = baselines["sdcard"] \ Active(now)
      /\ \/ baselines'["display"] = None
         \/ baselines'["display"] =
              HideAllowedDisplays(ListedDisplays(hw.display, config.display.ignore), Active(now))
         \/ /\ "display" \in config.watch /\ baselines["display"] # None
            /\ baselines'["display"] = HideAllowedDisplays(baselines["display"], Active(now))
  <2>1. CASE only_missing = TRUE
    <3>1. CaptureBaselines(config, TRUE, Active(now), broken)
      BY <2>1
    <3> QED BY <3>1, CaptureCases
  <2>2. CASE only_missing = FALSE
    <3>1. CaptureBaselines(config, FALSE, Active(now), broken)
      BY <2>2
    <3> QED BY <3>1, CaptureCases
  <2> QED BY <2>1, <2>2
<1>2. ASSUME NEW b \in DetectionBuses, baselines'[b] = None
      PROVE  (ChangesOn(b, clock) = {})'
  BY <1>2 DEF ChangesOn, Watched
<1>3. (ChangesOn("usb", clock) = {})'
  <2>1. CASE baselines'["usb"] = SkipAllowedUsb(hw.usb, Active(now))
    <3>1. UsbChanges(hw.usb, SkipAllowedUsb(hw.usb, Active(now)),
                     UsbWhitelist(config.whitelist, Active(now))) = {}
      BY <1>1, FreshUsb
    <3> QED BY <2>1, <3>1 DEF ChangesOn, Watched
  <2>2. CASE /\ "usb" \in config.watch /\ baselines["usb"] # None
             /\ baselines'["usb"] = baselines["usb"]
    BY <2>2, StandingQuiet DEF DetectionBuses
  <2> QED BY <1>2, <1>7, <2>1, <2>2 DEF DetectionBuses
<1>4. (ChangesOn("thunderbolt", clock) = {})'
  <2>1. CASE baselines'["thunderbolt"] = hw.thunderbolt \ Active(now)
    <3>1. SetChanges(hw.thunderbolt, hw.thunderbolt \ Active(now),
                     config.tb_whitelist \cup Active(now)) = {}
      BY FreshSet
    <3> QED BY <2>1, <3>1 DEF ChangesOn, Watched
  <2>2. CASE /\ "thunderbolt" \in config.watch /\ baselines["thunderbolt"] # None
             /\ baselines'["thunderbolt"] = baselines["thunderbolt"] \ Active(clock)
    BY <2>2, StandingQuiet DEF DetectionBuses
  <2> QED BY <1>2, <1>7, <2>1, <2>2 DEF DetectionBuses
<1>5. (ChangesOn("sdcard", clock) = {})'
  <2>1. CASE baselines'["sdcard"] = hw.sdcard \ Active(now)
    <3>1. SetChanges(hw.sdcard, hw.sdcard \ Active(now),
                     config.sd_whitelist \cup Active(now)) = {}
      BY FreshSet
    <3> QED BY <2>1, <3>1 DEF ChangesOn, Watched
  <2>2. CASE /\ "sdcard" \in config.watch /\ baselines["sdcard"] # None
             /\ baselines'["sdcard"] = baselines["sdcard"] \ Active(clock)
    BY <2>2, StandingQuiet DEF DetectionBuses
  <2> QED BY <1>2, <1>7, <2>1, <2>2 DEF DetectionBuses
<1>6. (ChangesOn("display", clock) = {})'
  <2> DEFINE listed == ListedDisplays(hw.display, config.display.ignore)
  <2>1. CASE baselines'["display"] = HideAllowedDisplays(listed, Active(now))
    <3>1. DisplayChanges(HideAllowedDisplays(listed, Active(now)),
                         HideAllowedDisplays(HideAllowedDisplays(listed, Active(now)),
                                             Active(now))) = {}
      BY FreshDisplay
    <3> QED BY <2>1, <3>1 DEF ChangesOn, Watched
  <2>2. CASE /\ "display" \in config.watch /\ baselines["display"] # None
             /\ baselines'["display"] = HideAllowedDisplays(baselines["display"], Active(clock))
    BY <2>2, StandingQuiet DEF DetectionBuses
  <2> QED BY <1>2, <1>7, <2>1, <2>2 DEF DetectionBuses
<1> QED BY <1>3, <1>4, <1>5, <1>6 DEF Quiet, DetectionBuses

LEMMA QuietStep ==
  ASSUME TypeOK, [Next]_vars, Quiet(DetectionBuses, clock), UNCHANGED <<hw, config, clock>>,
         NothingRevoked, pc # "down"
  PROVE  Quiet(DetectionBuses, clock)'
<1>1. Active(now) = Active(clock) /\ Active(clock) \subseteq Active(clock)'
  BY NothingLapses
<1>2. ASSUME NEW b \in DetectionBuses, baselines'[b] = baselines[b]
      PROVE  (ChangesOn(b, clock) = {})'
  <2>1. CASE b \notin config.watch \/ baselines[b] = None
    BY <1>2, <2>1 DEF ChangesOn, Watched
  <2>2. CASE b \in config.watch /\ baselines[b] # None
    BY <1>1, <1>2, <2>2, StandingQuiet
  <2> QED BY <2>1, <2>2
<1>3. CASE UNCHANGED baselines
  BY <1>2, <1>3 DEF Quiet
<1>4. CASE baselines' = NoBaselines
  BY <1>4 DEF NoBaselines, ChangesOn, Watched, Quiet, DetectionBuses
<1>5. CASE Rebaseline \/ Recapture
  <2>1. Active(clock)' = Active(clock)
    BY <1>5 DEF Rebaseline, Recapture, sharedVars, Active
  <2>2. \E broken : \/ CaptureBaselines(config, FALSE, Active(now), broken)
                    \/ CaptureBaselines(config, TRUE, Active(now), broken)
    BY <1>5 DEF Rebaseline, Recapture
  <2> QED BY <1>1, <2>1, <2>2, CaptureQuiet
<1>6. ASSUME NEW bus \in Bus \ DetectionBuses, NEW reading, Moves(bus, reading)
      PROVE  Quiet(DetectionBuses, clock)'
  BY <1>2, <1>6, MovesOne DEF Quiet, DetectionBuses, Bus
<1>7. CASE Moves("display", DisplayRead)
  <2>1. Active(clock)' = Active(clock)
    BY <1>7 DEF Moves, sharedVars, Active
  <2>2. baselines'["display"] = DisplayRead /\ \A b \in Bus \ {"display"} : baselines'[b] = baselines[b]
    BY <1>7, MovesOne DEF Bus
  <2>3. DisplayChanges(DisplayRead, HideAllowedDisplays(DisplayRead, Active(now))) = {}
    BY FreshDisplay DEF DisplayRead
  <2>4. (ChangesOn("display", clock) = {})'
    BY <1>1, <2>1, <2>2, <2>3 DEF ChangesOn, Watched, DisplayRead
  <2> QED BY <1>2, <2>2, <2>4 DEF Quiet, DetectionBuses, Bus
<1> QED
  BY <1>3, <1>4, <1>5, <1>6, <1>7, BaselineSteps DEF BaselineStep, Start, Bus, DetectionBuses

(* A machine nothing has happened to stays quiet: capture_baselines and    *)
(* the comparisons agree on what an allowance does.                        *)
THEOREM QuietCorrect == Spec => QuietStaysQuiet
<1> DEFINE Stays == /\ Quiet(DetectionBuses, clock) /\ UNCHANGED <<hw, config, clock>>
                    /\ NothingRevoked /\ pc # "down"
                    => Quiet(DetectionBuses, clock)'
<1>1. TypeOK /\ [Next]_vars => [Stays]_vars
  BY QuietStep
<1> QED BY <1>1, TypeCorrect, PTL DEF Spec, QuietStaysQuiet
---------------------------------------------------------------------------
(* Under lock-down the loop never gets to a reload or a re-capture.        *)
Settled == pc \notin {"load", "recapture"}

LEMMA SettledStep ==
  ASSUME LockInv, Settled, [Next]_vars
  PROVE  Settled'
<1>1. ASSUME NEW c \in Conn, Client(c) \/ Serve(c)
      PROVE  UNCHANGED pc
  BY <1>1 DEF Client, Serve, SocketFrame
<1>2. CASE Start \/ Poll
  <2>1. \A b \in Later : b \notin {"load", "recapture"}
    BY DEF Later
  <2> QED
    BY <1>2, <2>1
    DEF Settled, LockInv, Start, Poll, PollTop, Rebaseline, TakeReload, Load, Recapture,
        DrainKill, SkipChecks, DetectViolations, CheckPower, CheckNetwork, CheckLid, CheckPci,
        CheckDisplay, AdmitPaired, Keep, RecordViolation, HandleViolation, KillReturns, PowerOff,
        ShutdownFails, Exit, NextCheck, Sleep, Goto, Detects
<1> QED
  BY <1>1, <1>2 DEF Settled, Next, Tick, ChangeHardware, EditFile, Crash, Exit, vars

(* So only a bus that is monitored changes its baseline.                   *)
LEMMA LockedBaselines ==
  ASSUME TypeOK, LoopInv, LockInv, Settled, [Next]_vars, Up, Up', NEW b \in Bus \ Follows
  PROVE  baselines'[b] = baselines[b]
<1>1. ~Start /\ ~Rebaseline /\ ~Recapture
  BY DEF Start, Rebaseline, Recapture, Up, LoopInv, LockInv, Settled
<1>2. ASSUME NEW bus \in Follows, NEW reading, Moves(bus, reading)
      PROVE  baselines'[b] = baselines[b]
  BY <1>2, MovesOne DEF Follows, PolicyBus, EventBus, Bus
<1>3. ASSUME NEW bus \in {"power", "network", "lid", "pci", "display"}, NEW reading,
             Moves(bus, reading)
      PROVE  bus \in Follows
  BY <1>3 DEF Moves, Follows, PolicyBus, EventBus
<1> QED BY <1>1, <1>2, <1>3, BaselineSteps DEF BaselineStep

(* Whoever cannot authenticate gets nothing accepted: the queue of         *)
(* re-captures and reloads that socket.rs gates.                           *)
THEOREM LockedBaselinesCorrect ==
  ASSUME Locked
  PROVE  Spec => LockedDownBaselines
<1> DEFINE Kept == config.require_auth /\ Up /\ Up'
                     => \A b \in Bus \ Follows : baselines'[b] = baselines[b]
<1>1. Init => LockInv /\ LoopInv /\ Settled
  <2>1. Init => config.require_auth
    BY OverriddenRequires DEF Init
  <2> QED BY <2>1, LoopAssumption, DaemonAssumption
          DEF Init, InitState, LockInv, Locked, LoopInv, Settled
<1>2. TypeOK /\ LockInv /\ [Next]_vars => LockInv'
  BY LockStep
<1>3. TypeOK /\ LoopInv /\ [Next]_vars => LoopInv'
  BY LoopInvStep
<1>4. LockInv /\ Settled /\ [Next]_vars => Settled'
  BY SettledStep
<1>5. TypeOK /\ LoopInv /\ LockInv /\ Settled /\ [Next]_vars => [Kept]_vars
  BY LockedBaselines
<1> QED BY <1>1, <1>2, <1>3, <1>4, <1>5, TypeCorrect, PTL DEF Spec, LockedDownBaselines
---------------------------------------------------------------------------
(* The countdowns.  What a step may do to the timers: nothing, forget them *)
(* all, forget those of the buses it captures, or move those of the bus it *)
(* checks.                                                                 *)
TimerStep ==
  \/ UNCHANGED <<since, grace>>
  \/ NewEvents
  \/ \E captured : ResetTimers(captured)
  \/ \E b \in EventBus : pc = b /\ Clear(b)
  \/ \E b \in EventBus : pc = b /\ Wait(b, config[b].grace_secs)
  \/ \E b \in EventBus : /\ pc = b /\ pc' = "admit" /\ ~violation'.appeared
                         /\ Elapse(b, config[b].grace_secs)
  \/ \E b \in EventBus : /\ pc = b /\ config[b].policy = "Monitor"
                         /\ grace' = [grace EXCEPT ![b] = None]
                         /\ UNCHANGED since
  \/ /\ pc = "power" /\ config.power.require_locked
     /\ since' = [since EXCEPT !["power"] = SinceNow("power")]
     /\ grace' = [grace EXCEPT !["power"] = None]

LEMMA TimerSteps == [Next]_vars => TimerStep
<1> SUFFICES ASSUME [Next]_vars PROVE TimerStep
  OBVIOUS
<1> USE DEF TimerStep
<1>1. CASE Start \/ Rebaseline \/ Recapture
  BY <1>1 DEF Start, FirstBaselines, Rebaseline, Recapture, CaptureBaselines
<1>2. CASE CheckPower
  <2>1. ~Event("power", "Unplugged", None).appeared
    BY DEF Event
  <2> QED
    BY <1>2, <2>1 DEF CheckPower, PowerQuiet, PowerFires, Accept, Detects, InUse, EventBus
<1>3. CASE CheckNetwork
  <2>1. \A i : ~Event("network", "LinkDown", i).appeared
    BY DEF Event
  <2> QED
    BY <1>3, <2>1 DEF CheckNetwork, NetworkQuiet, NetworkFires, Accept, Detects, EventBus
<1>4. CASE CheckLid
  <2>1. ~Event("lid", "Closed", None).appeared
    BY DEF Event
  <2> QED
    BY <1>4, <2>1 DEF CheckLid, LidQuiet, LidFires, Accept, Detects, EventBus
<1>5. CASE PowerOff \/ ShutdownFails \/ Crash
  BY <1>5 DEF PowerOff, ShutdownFails, Crash, Exit
<1>6. CASE PollTop \/ TakeReload \/ Load \/ DrainKill \/ SkipChecks \/ DetectViolations \/ CheckPci
           \/ CheckDisplay \/ AdmitPaired \/ Keep \/ RecordViolation \/ HandleViolation \/ KillReturns
  BY <1>6
  DEF PollTop, TakeReload, Load, DrainKill, SkipChecks, DetectViolations, CheckPci, CheckDisplay,
      AdmitPaired, Keep, RecordViolation, HandleViolation, KillReturns, eventVars
<1>7. ASSUME NEW c \in Conn, Client(c) \/ Serve(c)
      PROVE  UNCHANGED <<since, grace>>
  BY <1>7 DEF Client, Serve, SocketFrame, eventVars
<1>8. CASE Tick \/ ChangeHardware \/ EditFile \/ UNCHANGED vars
  BY <1>8 DEF Tick, ChangeHardware, EditFile, vars, eventVars
<1> QED BY <1>1, <1>2, <1>3, <1>4, <1>5, <1>6, <1>7, <1>8 DEF Next, Poll

(* A countdown has a start.                                                *)
TimerInv == \A b \in EventBus : grace[b] # None => since[b] # None

LEMMA TimerTypes ==
  ASSUME TypeOK
  PROVE  /\ since \in [EventBus -> Nat \cup {None}] /\ grace \in [EventBus -> Nat \cup {None}]
         /\ clock \in Nat /\ None \notin Nat
         /\ \A b \in EventBus : config[b].grace_secs \in Nat
BY DaemonAssumption, IdentityAssumption
DEF TypeOK, StateTypeOK, EventTypeOK, EventBus, Config, PowerConfig, NetworkConfig, LidConfig

LEMMA TimerInvStep == TypeOK /\ TimerInv /\ [Next]_vars => TimerInv'
<1> SUFFICES ASSUME TypeOK, TimerInv, [Next]_vars, NEW b \in EventBus, grace'[b] # None
             PROVE  since'[b] # None
  BY DEF TimerInv
<1>1. \A c \in EventBus : SinceNow(c) # None
  BY TimerTypes DEF SinceNow
<1> QED
  BY <1>1, TimerTypes, TimerSteps
  DEF TimerStep, TimerInv, NewEvents, NoTimers, ResetTimers, Clear, Wait, Elapse

LEMMA CountdownStep ==
  ASSUME TypeOK, TimerInv, [Next]_vars, NEW b \in EventBus, grace[b] # None, grace'[b] # None
  PROVE  /\ since'[b] = since[b]
         /\ \/ grace'[b] = grace[b]
            \/ pc = b /\ grace'[b] = since[b] + config[b].grace_secs
<1>1. SinceNow(b) = since[b]
  BY DEF SinceNow, TimerInv
<1> QED
  BY <1>1, TimerTypes, TimerSteps
  DEF TimerStep, NewEvents, NoTimers, ResetTimers, Clear, Wait, Elapse, EventBus

(* A running grace period is neither drawn out nor begun again.            *)
THEOREM CountdownCorrect == Spec => CountdownKept
<1> DEFINE Kept == \A b \in EventBus : grace[b] # None /\ grace'[b] # None =>
                     /\ since'[b] = since[b]
                     /\ \/ grace'[b] = grace[b]
                        \/ pc = b /\ grace'[b] = since[b] + config[b].grace_secs
<1>1. Init => TimerInv
  BY DEF Init, InitEvents, NoTimers, TimerInv
<1>2. TypeOK /\ TimerInv /\ [Next]_vars => [Kept]_vars
  BY CountdownStep
<1> QED BY <1>1, <1>2, TimerInvStep, TypeCorrect, PTL DEF Spec, CountdownKept
---------------------------------------------------------------------------
(* A machine that acts on whatever it finds: nobody puts it in learn mode  *)
(* or runs it dry, its power-off works, and no file only monitors an event *)
(* bus or waits for the session to lock.                                   *)
Decisive ==
  /\ StartMode = "Enforce" /\ ~CliDryRun /\ ~ShutdownMayFail
  /\ \A req \in Requests : req.cmd # "learn"
  /\ \A cfg \in Configs : /\ ~cfg.dry_run /\ ~cfg.power.require_locked
                          /\ \A b \in EventBus : cfg[b].policy # "Monitor"

Acting == pc \in {"admit", "record", "handle", "kill"} /\ ~violation.appeared

(* What holds on one: a condition that was seen is being waited out, or    *)
(* its violation is on its way to the kill.                                *)
DecisiveInv ==
  /\ mode = "Enforce"
  /\ \A b \in EventBus : since[b] # None => grace[b] # None \/ Acting

LEMMA DecisiveConfig ==
  ASSUME Decisive, LoopInv
  PROVE  /\ ~config.dry_run /\ ~config.power.require_locked
         /\ \A b \in EventBus : config[b].policy # "Monitor"
<1>1. PICK cfg \in Configs : config = Overridden(cfg)
  BY DEF LoopInv
<1>2. cfg \in Config
  BY <1>1, DaemonAssumption
<1>3. /\ config.dry_run = (cfg.dry_run \/ CliDryRun)
      /\ config.power = cfg.power /\ config.network = cfg.network /\ config.lid = cfg.lid
  BY <1>1, <1>2 DEF Overridden, Config
<1> QED BY <1>1, <1>3 DEF Decisive, EventBus

LEMMA DecisiveMode ==
  ASSUME Decisive, TypeOK, mode = "Enforce", [Next]_vars
  PROVE  mode' = "Enforce"
<1>1. ASSUME NEW c \in Conn, Client(c) \/ Serve(c)
      PROVE  mode' = "Enforce"
  <2>1. CASE UNCHANGED sharedVars
    BY <2>1 DEF sharedVars
  <2>2. ASSUME NEW req \in Requests, NEW caller, Dispatch(req, caller)
        PROVE  mode' = "Enforce"
    BY <2>2
    DEF Decisive, Dispatch, HandleDisarm, HandleArm, HandleMode, HandleReload, HandlePair,
        HandleAllowLast, HandleRevoke, HandleKill
  <2> QED BY <1>1, <2>1, <2>2, SocketSteps
<1>2. CASE PowerOff \/ ShutdownFails \/ Crash
  BY <1>2 DEF PowerOff, ShutdownFails, Crash, Exit, NewState, Decisive
<1> QED
  BY <1>1, <1>2
  DEF Next, Start, FirstBaselines, Poll, PollTop, Rebaseline, TakeReload, Load, Recapture,
      DrainKill, SkipChecks, DetectViolations, CheckPower, CheckNetwork, CheckLid, CheckPci,
      CheckDisplay, AdmitPaired, Keep, RecordViolation, HandleViolation, KillReturns, Tick,
      ChangeHardware, EditFile, vars, sharedVars

(* From the detection on the violation goes to the kill and nowhere else.  *)
LEMMA ActingStep ==
  ASSUME Decisive, LoopInv, TypeOK, mode = "Enforce", Acting, [Next]_vars
  PROVE  \/ Acting' /\ UNCHANGED <<since, grace>>
         \/ since' = NoTimers
<1>1. ~KillReturns
  BY DecisiveConfig DEF KillReturns, Decisive
<1>2. ASSUME NEW c \in Conn, Client(c) \/ Serve(c)
      PROVE  Acting' /\ UNCHANGED <<since, grace>>
  BY <1>2 DEF Client, Serve, SocketFrame, locals, eventVars, Acting
<1>3. CASE PowerOff \/ ShutdownFails \/ Crash
  BY <1>3 DEF PowerOff, ShutdownFails, Crash, Exit, NewEvents
<1>4. CASE Keep \/ RecordViolation \/ HandleViolation
  BY <1>4 DEF Keep, RecordViolation, HandleViolation, Goto, locals, eventVars, Acting
<1>5. CASE Tick \/ ChangeHardware \/ EditFile \/ UNCHANGED vars
  BY <1>5 DEF Tick, ChangeHardware, EditFile, vars, locals, eventVars, Acting
<1> QED
  BY <1>1, <1>2, <1>3, <1>4, <1>5
  DEF Next, Start, Poll, PollTop, Rebaseline, TakeReload, Load, Recapture, DrainKill, SkipChecks,
      DetectViolations, CheckPower, CheckNetwork, CheckLid, CheckPci, CheckDisplay, AdmitPaired,
      Admissible, Acting

LEMMA DecisiveStep == Decisive /\ TypeOK /\ LoopInv /\ DecisiveInv /\ [Next]_vars => DecisiveInv'
<1> SUFFICES ASSUME Decisive, TypeOK, LoopInv, DecisiveInv, [Next]_vars PROVE DecisiveInv'
  OBVIOUS
<1>1. mode' = "Enforce"
  BY DecisiveMode DEF DecisiveInv
<1>2. ASSUME NEW b \in EventBus, since'[b] # None
      PROVE  grace'[b] # None \/ Acting'
  <2>1. CASE Acting
    BY <1>2, <2>1, ActingStep DEF DecisiveInv, NoTimers
  <2>2. CASE ~Acting
    <3>1. since[b] # None => grace[b] # None
      BY <2>2 DEF DecisiveInv
    <3>2. /\ ~config.power.require_locked
          /\ \A c \in EventBus : config[c].policy # "Monitor"
      BY DecisiveConfig
    <3>3. \A c \in EventBus : SinceNow(c) \in Nat
      BY TimerTypes DEF SinceNow
    <3> QED
      BY <1>2, <3>1, <3>2, <3>3, TimerTypes, TimerSteps
      DEF TimerStep, NewEvents, NoTimers, ResetTimers, Clear, Wait, Elapse, Acting
  <2> QED BY <2>1, <2>2
<1> QED BY <1>1, <1>2 DEF DecisiveInv

LEMMA FiresStep ==
  ASSUME Decisive, TypeOK, LoopInv, DecisiveInv, [Next]_vars, pc' = "admit", pc \in EventBus,
         config[pc].grace_secs > 0
  PROVE  grace[pc] # None /\ clock >= since[pc] + config[pc].grace_secs
<1>1. Elapse(pc, config[pc].grace_secs)
  <2>1. ~NextCheck
    BY DEF NextCheck, Later, Sleep, Goto
  <2>2. CASE CheckPower \/ CheckNetwork \/ CheckLid
    BY <2>1, <2>2
    DEF CheckPower, CheckNetwork, CheckLid, PowerFires, NetworkFires, LidFires
  <2>3. ASSUME NEW c \in Conn, Client(c) \/ Serve(c) PROVE FALSE
    BY <2>3 DEF Client, Serve, SocketFrame, EventBus
  <2> QED
    BY <2>2, <2>3
    DEF Next, Start, Poll, PollTop, Rebaseline, TakeReload, Load, Recapture, DrainKill,
        SkipChecks, DetectViolations, CheckPci, CheckDisplay, AdmitPaired, Keep,
        RecordViolation, HandleViolation, KillReturns, PowerOff, ShutdownFails, Tick, ChangeHardware,
        EditFile, Crash, Exit, vars, EventBus
<1>2. ~(clock - SinceNow(pc) < config[pc].grace_secs)
  BY <1>1 DEF Elapse, Waits
<1>3. since[pc] # None
  BY <1>2, TimerTypes DEF SinceNow
<1>4. grace[pc] # None
  BY <1>3 DEF DecisiveInv, Acting, EventBus
<1>5. clock >= since[pc] + config[pc].grace_secs
  <2>1. since[pc] \in Nat /\ SinceNow(pc) = since[pc]
    BY <1>3, TimerTypes DEF SinceNow
  <2> QED BY <1>2, <2>1, TimerTypes
<1> QED BY <1>4, <1>5

(* Where every violation leads to a kill, a grace period is neither        *)
(* skipped nor cut short.                                                  *)
THEOREM GraceCorrect ==
  ASSUME Decisive
  PROVE  Spec => GraceKept
<1> DEFINE After == /\ pc' = "admit" /\ pc \in EventBus /\ config[pc].grace_secs > 0
                    /\ ~config.power.require_locked
                    => grace[pc] # None /\ clock >= since[pc] + config[pc].grace_secs
<1>1. Init => LoopInv /\ DecisiveInv
  BY LoopAssumption, DaemonAssumption
  DEF Init, InitState, InitEvents, NoTimers, LoopInv, DecisiveInv, Decisive
<1>2. TypeOK /\ LoopInv /\ [Next]_vars => LoopInv'
  BY LoopInvStep
<1>3. TypeOK /\ LoopInv /\ DecisiveInv /\ [Next]_vars => DecisiveInv'
  BY DecisiveStep
<1>4. TypeOK /\ LoopInv /\ DecisiveInv /\ [Next]_vars => [After]_vars
  BY FiresStep
<1> QED
  BY <1>1, <1>2, <1>3, <1>4, TypeCorrect, CountdownCorrect, PTL
  DEF Spec, FiresAfterCountdown, GraceKept

=============================================================================
