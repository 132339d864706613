-------------------------- MODULE MCPlugkillDaemon --------------------------
(***************************************************************************)
(* Small instances of PlugkillDaemon.  The cfg files pick, for each run,   *)
(* the configurations, the hardware and the requests from those below.     *)
(***************************************************************************)
EXTENDS DaemonProperties, TLC

NoCount == [d \in UsbId |-> 0]

BaseConfig ==
  [watch |-> {}, require_auth |-> FALSE, dry_run |-> FALSE, melt_self |-> FALSE,
   whitelist |-> NoCount, tb_whitelist |-> {}, sd_whitelist |-> {},
   power   |-> [policy |-> "AcRequired", grace_secs |-> 0, require_locked |-> FALSE],
   network |-> [policy |-> "Kill", grace_secs |-> 0, interfaces |-> {}],
   lid     |-> [policy |-> "Kill", grace_secs |-> 0],
   pci     |-> [policy |-> "Kill", ignore |-> {}],
   display |-> [policy |-> "Kill", ignore |-> {}]]

BaseMachine ==
  [usb |-> NoCount, thunderbolt |-> {}, sdcard |-> {}, pci |-> {},
   display |-> [c \in Connector |-> "off"], power |-> "Ac", locked |-> FALSE,
   network |-> [i \in Iface |-> "Up"], lid |-> "Open"]

Req(cmd, secs, for, id) == [cmd |-> cmd, secs |-> secs, for |-> for, id |-> id]
Plain(cmds) == {Req(c, 0, None, None) : c \in cmds}

Watching(buses) == [BaseConfig EXCEPT !.watch = buses]

(* arming: one Thunderbolt port under every command that arms or disarms.  *)
ArmingConfigs ==
  {[Watching({"thunderbolt"}) EXCEPT !.require_auth = TRUE, !.dry_run = b] : b \in BOOLEAN}
ThunderboltWorld == {[BaseMachine EXCEPT !.thunderbolt = S] : S \in SUBSET TbId}
ArmingRequests ==
  {Req("disarm", secs, None, None) : secs \in {1, 3}} \cup Plain({"arm", "kill"})

(* allowances: up to two instances of a USB device, a device on each of    *)
(* the buses that compare sets of ids, or a monitor on either of two       *)
(* connectors.                                                             *)
UsbConfigs == {Watching({"usb"})}
UsbWorld == {[BaseMachine EXCEPT !.usb = [d \in UsbId |-> n]] : n \in 0..2}
SetConfigs == {Watching({"thunderbolt", "pci"})}
SetWorld ==
  {[BaseMachine EXCEPT !.thunderbolt = T, !.pci = P] : T \in SUBSET TbId, P \in SUBSET PciId}
MovedConfigs == {Watching({"display"})}
MovedWorld ==
  {[BaseMachine EXCEPT !.display = D] :
     D \in {E \in [Connector -> {"off"} \cup Monitor] :
             Cardinality({c \in Connector : E[c] # "off"}) <= 1}}
AllowanceConfigs == UsbConfigs \cup SetConfigs \cup MovedConfigs
AllowanceWorld == UsbWorld \cup SetWorld \cup MovedWorld
AllowanceRequests ==
  {Req("pair", 1, None, None), Req("pair", 1, 1, None), Req("disarm", 1, None, None)}
  \cup Plain({"allow_last", "revoke_all", "arm", "reload"})

(* displays: one monitor at a time, on either of two connectors; the PCI   *)
(* device is there for the policy that only monitors.                      *)
DisplayConfigs == {Watching({"display"})}
MonitoredConfigs ==
  {[Watching({"pci", "display"}) EXCEPT !.pci.policy = "Monitor", !.display.policy = "Monitor"]}
EitherPolicy == DisplayConfigs \cup MonitoredConfigs
DisplayWorld ==
  {[BaseMachine EXCEPT !.display = D] :
     D \in {E \in [Connector -> {"gone", "off"} \cup Monitor] :
             Cardinality({c \in Connector : E[c] # "off"}) <= 1}}
MonitorWorld == DisplayWorld \cup {[BaseMachine EXCEPT !.pci = PciId]}
DisplayRequests ==
  {Req("pair", 1, None, None), Req("disarm", 1, None, None)}
  \cup Plain({"allow_last", "revoke_all", "reload"})

(* No definition tells one monitor, or one connector, from another.        *)
DisplaySymmetry == Permutations(Monitor) \cup Permutations(Connector)

(* events: one bus of the three, with and without a grace period.          *)
Power   == Watching({"power"})
Network == Watching({"network"})
Lid     == Watching({"lid"})
GraceConfigs ==
  {[Power EXCEPT !.power.grace_secs = 1],
   [Power EXCEPT !.power.grace_secs = 1, !.power.policy = "TriggerOnce"],
   [Power EXCEPT !.power.grace_secs = 1, !.power.require_locked = TRUE],
   [Power EXCEPT !.power.policy = "Monitor"],
   [Network EXCEPT !.network.grace_secs = 2],
   [Network EXCEPT !.network.policy = "Monitor"],
   [Lid EXCEPT !.lid.grace_secs = 2],
   [Lid EXCEPT !.lid.policy = "Monitor"]}
EventWorld ==
  {BaseMachine, [BaseMachine EXCEPT !.power = "Battery"],
   [BaseMachine EXCEPT !.power = "Battery", !.locked = TRUE],
   [BaseMachine EXCEPT !.network = [i \in Iface |-> "Down"]],
   [BaseMachine EXCEPT !.lid = "Closed"]}
SwitchedPolicies ==
  {[Power EXCEPT !.power.grace_secs = 1], [Power EXCEPT !.power.policy = "Monitor"]}
JustReload == Plain({"reload"})
RearmRequests == {Req("disarm", 1, None, None)} \cup Plain({"arm"})

(* reloads: buses switched off and on by the file, which may be broken.    *)
ReloadConfigs ==
  {Watching({"usb", "thunderbolt"}), Watching({"usb", "pci"}),
   [Watching({"thunderbolt", "pci", "display"}) EXCEPT !.melt_self = TRUE]}
ReloadFiles == ReloadConfigs \cup {None}
ReloadWorld ==
  {BaseMachine, [BaseMachine EXCEPT !.thunderbolt = TbId, !.usb = [d \in UsbId |-> 1]],
   [BaseMachine EXCEPT !.pci = PciId]}

(* liveness: a device that comes and goes under every arming command, then *)
(* a power supply that does, on a machine that is locked or will not say,  *)
(* with a file that switches the bus off and on.                           *)
LivenessConfigs == {Watching({"thunderbolt"})}
LivenessRequests == RearmRequests \cup Plain({"kill", "learn", "enforce"})
LockedConfigs ==
  {[Power EXCEPT !.power.grace_secs = 1, !.power.require_locked = TRUE], Watching({"sdcard", "lid"})}
LockWorld ==
  {BaseMachine, [BaseMachine EXCEPT !.power = "Battery"],
   [BaseMachine EXCEPT !.power = "Battery", !.locked = None]}

(* lockdown: every request, from a user who cannot authenticate.           *)
AllRequests ==
  {Req("pair", 1, None, None), Req("pair", 0, None, None), Req("disarm", 1, None, None)}
  \cup {Req("revoke", 0, None, d) : d \in DeviceRef}
  \cup Plain({"arm", "learn", "enforce", "reload", "allow_last", "revoke_all", "kill"})

---------------------------------------------------------------------------
(* One run can hold several of these stories without mixing them: a scene  *)
(* bounds the file, the hardware and the time by the configuration loaded, *)
(* and no file leads from one story to another.                            *)
Within(files, machines, horizon) ==
  /\ file \in files
  /\ hw \in machines
  /\ clock <= horizon
  /\ disarm_until # None => disarm_until <= horizon

(* Every command that arms or disarms, the countdowns, and the monitors.   *)
AsStarted ==
  /\ mode = "Enforce" /\ pairing = None /\ allowances = NoAllowances /\ ~reload_pending
  /\ \A c \in Conn : conns[c] # None => conns[c] \in ArmingRequests

ArmingScene ==
  /\ config \in ArmingConfigs =>
       Within(ArmingConfigs, ThunderboltWorld, 4) /\ AsStarted
  /\ config \in GraceConfigs =>
       Within({config}, EventWorld, 3) /\ ~kill_pending /\ AsStarted
  /\ config \in EitherPolicy =>
       /\ Within({config}, MonitorWorld, 1) /\ ~kill_pending /\ pc # "kill"
       /\ (mode = "Enforce" => pc \in {"down", "top"} /\ armed /\ AsStarted)
       /\ (pc = "down" => clock = 0) /\ ~rebaseline_pending
       /\ (pairing # None => pairing.until <= 1)
AnyScene == ArmingConfigs \cup GraceConfigs \cup EitherPolicy
AnyWorld == ThunderboltWorld \cup EventWorld \cup MonitorWorld
AnyRequests == ArmingRequests \cup DisplayRequests \cup Plain({"learn"})

AllowanceScene ==
  /\ config \in UsbConfigs => Within(UsbConfigs, UsbWorld, Horizon)
  /\ config \in SetConfigs => Within(SetConfigs, SetWorld, Horizon)
  /\ config \in MovedConfigs => Within(MovedConfigs, MovedWorld, Horizon)

(* A file that changes, where nothing asks for authentication; and every   *)
(* command, where everything does and nobody has any.  After a kill that   *)
(* came back the first goes on where the configuration removed itself.     *)
ReloadScene ==
  /\ config \in ReloadConfigs =>
       /\ Within(ReloadFiles, ReloadWorld, 1)
       /\ mode = "Enforce" /\ ~kill_pending /\ pairing = None
       /\ (violations # <<>> /\ pc \notin {"handle", "kill"} =>
             config.melt_self /\ file = None /\ clock = 0 /\ Len(violations) = 1)
  /\ config \in ArmingConfigs => Within(ArmingConfigs, ThunderboltWorld, 2)
ReloadOrLock == ReloadConfigs \cup ArmingConfigs
ReloadOrLockFiles == ReloadOrLock \cup {None}
ReloadOrLockWorld == ReloadWorld \cup ThunderboltWorld

(* Under fairness the scene cuts only what nobody has to do: what the      *)
(* machine looks like, what the file becomes and what a client asks for.   *)
LiveScene ==
  /\ config \in LivenessConfigs =>
       file \in LivenessConfigs /\ hw \in ThunderboltWorld /\ ~reload_pending
  /\ config \in {Overridden(f) : f \in LockedConfigs} =>
       file \in LockedConfigs /\ hw \in LockWorld /\ mode = "Enforce" /\ ~kill_pending
LiveConfigs  == LivenessConfigs \cup LockedConfigs
LiveWorld    == ThunderboltWorld \cup LockWorld
LiveRequests == LivenessRequests \cup Plain({"reload"})

============================================================================
