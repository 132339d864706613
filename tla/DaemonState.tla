---------------------------- MODULE DaemonState ----------------------------
(***************************************************************************)
(* What the threads of one plugkill daemon share: the mutex protected      *)
(* DaemonState, the configuration and baselines behind their RwLocks, and  *)
(* the hardware they watch; with the methods of DaemonState and of its     *)
(* allowance table.  ControlSocket has the socket threads, EventBuses and  *)
(* PlugkillDaemon the poll loop.                                           *)
(***************************************************************************)
EXTENDS DeviceBuses, Sequences

CONSTANTS
  Iface,         (* network interfaces                                      *)
  Configs,       (* the configurations the file can hold                    *)
  HISTORY_LEN,   (* how many violations the history keeps                   *)
  LOG_WRAP,      (* 2^64, where the violation counter wraps                 *)
  Horizon        (* bound: no clock reading passes it                       *)

Bus == {"usb", "thunderbolt", "sdcard", "pci", "display", "power", "network", "lid"}

PowerState == {"Ac", "Battery", "Unknown"}
LidState   == {"Open", "Closed", "Unknown"}
LinkState  == {"Up", "Down", "Unknown", "gone"}

(* What a bus with a policy does about a change, and its table of the      *)
(* configuration.                                                          *)
PowerConfig ==
  [policy : {"TriggerOnce", "AcRequired", "Monitor"}, grace_secs : Nat,
   require_locked : BOOLEAN]
NetworkConfig ==
  [policy : {"Kill", "Monitor"}, grace_secs : Nat, interfaces : SUBSET Iface]
LidConfig     == [policy : {"Kill", "Monitor"}, grace_secs : Nat]
PciConfig     == [policy : {"Kill", "Monitor"}, ignore : SUBSET PciId]
DisplayConfig == [policy : {"Kill", "Monitor"}, ignore : SUBSET Connector]

(* A loaded and validated configuration, CLI overrides applied.            *)
Config ==
  [watch        : SUBSET Bus,    require_auth : BOOLEAN,
   dry_run      : BOOLEAN,       melt_self    : BOOLEAN,
   whitelist    : UsbSnapshot,   tb_whitelist : SUBSET TbId,
   sd_whitelist : SUBSET SdId,
   power : PowerConfig,   network : NetworkConfig,   lid : LidConfig,
   pci   : PciConfig,     display : DisplayConfig]

ASSUME DaemonAssumption ==
  /\ Configs \subseteq Config
  /\ HISTORY_LEN \in Nat \ {0}
  /\ LOG_WRAP \in Nat \ {0}
  /\ Horizon \in Nat
  /\ None \notin Configs \cup Iface

VARIABLES
  clock,               (* Instant::now()                                    *)
  armed, mode, disarm_until, rebaseline_pending, reload_pending, kill_pending,
  allowances,          (* device -> its allowance, or None                  *)
  pairing,             (* the open pairing window, or None                  *)
  violations,          (* the history, newest first                         *)
  violations_logged,
  config,              (* Arc<RwLock<Config>>                               *)
  baselines,           (* Arc<RwLock<Baselines>>                            *)
  hw                   (* what is plugged in, and the power, link and lid   *)

sharedVars == <<armed, mode, disarm_until, rebaseline_pending, reload_pending,
                kill_pending, allowances, pairing, violations, violations_logged>>

---------------------------------------------------------------------------
Hardware ==
  [usb     : UsbSnapshot,     thunderbolt : SUBSET TbId, sdcard : SUBSET SdId,
   pci     : SUBSET PciId,    display : DisplaySnapshot, power  : PowerState,
   locked  : BOOLEAN \cup {None},  network : [Iface -> LinkState], lid : LidState]

(* None for a bus that is not watched or could not be captured.            *)
Baselines ==
  [usb     : UsbSnapshot \cup {None},   thunderbolt : (SUBSET TbId) \cup {None},
   sdcard  : (SUBSET SdId) \cup {None},   pci     : (SUBSET PciId) \cup {None},
   display : DisplaySnapshot \cup {None}, power : PowerState \cup {None},
   network : [Iface -> LinkState] \cup {None}, lid : LidState \cup {None}]

NoBaselines ==
  [usb |-> None, thunderbolt |-> None, sdcard |-> None, pci |-> None,
   display |-> None, power |-> None, network |-> None, lid |-> None]

(* expires_at is None for an allowance without --for.                      *)
Allowance == [expires_at : Nat \cup {None}, granted_by : {"Paired", "Promoted"}]

PairingWindow == [until : Nat, ttl : Nat \cup {None}]

EventKind == {"RemoteKill", "EnumerationFailure", "Unplugged", "LinkDown", "Closed"}

Violation ==
  [bus : Bus \cup {"relay"}, kind : ChangeKind \cup EventKind, id : DeviceRef \cup {None},
   at  : {None} \cup PciId \cup Connector \cup Iface \cup (Nat \X Nat), appeared : BOOLEAN]

ASSUME ViolationAssumption == None \notin Violation

(* No reading of a bus is the None that stands for there being none.       *)
ASSUME ReadingAssumption ==
  /\ None \notin PowerState \cup LidState
  /\ None \notin [Iface -> LinkState]
  /\ None \notin UsbSnapshot
  /\ None \notin DisplaySnapshot
  /\ \A S \in SUBSET DeviceRef : S # None

Event(bus, kind, at) ==
  [bus |-> bus, kind |-> kind, id |-> None, at |-> at, appeared |-> FALSE]

Device(bus, change, appeared) ==
  [bus |-> bus, kind |-> change.kind, id |-> change.id, at |-> change.at,
   appeared |-> appeared]

---------------------------------------------------------------------------
(* The allowance table.                                                    *)
NewAllowance(by, now, ttl) ==
  [expires_at |-> IF ttl = None THEN None ELSE now + ttl, granted_by |-> by]

IsActive(allowance, now) ==
  allowance # None /\ (allowance.expires_at = None \/ allowance.expires_at > now)

Active(now) == {d \in DeviceRef : IsActive(allowances[d], now)}

(* An expired entry is dropped by the first poll past its expiry.          *)
Sweep(now) ==
  [d \in DeviceRef |-> IF IsActive(allowances[d], now) THEN allowances[d] ELSE None]

NoAllowances == [d \in DeviceRef |-> None]

(* The history refreshes its head when the same violation fires again, and *)
(* pushes in front of it otherwise, dropping the oldest.                   *)
SameViolation(v, w) == v.bus = w.bus /\ v.id = w.id /\ v.kind = w.kind /\ v.at = w.at

Truncate_Never(seq) == seq   (* a bug: the history is not capped        *)

Truncate(seq) == SubSeq(seq, 1, IF Len(seq) < HISTORY_LEN THEN Len(seq) ELSE HISTORY_LEN)

(* a bug: the violation is compared with the oldest entry                  *)
Recorded_Oldest(v) ==
  IF violations # <<>> /\ SameViolation(violations[Len(violations)], v)
  THEN violations
  ELSE Truncate(<<v>> \o violations)

Recorded(v) ==
  IF violations # <<>> /\ SameViolation(violations[1], v)
  THEN violations
  ELSE Truncate(<<v>> \o violations)

(* a bug: an expiry that falls between two polls is missed                 *)
IsDisarmExpired_Exactly == disarm_until # None /\ clock = disarm_until

IsDisarmExpired == disarm_until # None /\ clock >= disarm_until

(* DaemonState::new.                                                       *)
InitState(startMode) ==
  /\ armed = TRUE
  /\ mode = startMode
  /\ disarm_until = None
  /\ rebaseline_pending = FALSE
  /\ reload_pending = FALSE
  /\ kill_pending = FALSE
  /\ allowances = NoAllowances
  /\ pairing = None
  /\ violations = <<>>
  /\ violations_logged = 0

NewState(startMode) ==
  /\ armed' = TRUE
  /\ mode' = startMode
  /\ disarm_until' = None
  /\ rebaseline_pending' = FALSE
  /\ reload_pending' = FALSE
  /\ kill_pending' = FALSE
  /\ allowances' = NoAllowances
  /\ pairing' = None
  /\ violations' = <<>>
  /\ violations_logged' = 0

---------------------------------------------------------------------------
SharedTypeOK ==
  /\ armed \in BOOLEAN
  /\ mode \in {"Enforce", "Learn"}
  /\ disarm_until \in Nat \cup {None}
  /\ rebaseline_pending \in BOOLEAN
  /\ reload_pending \in BOOLEAN
  /\ kill_pending \in BOOLEAN
  /\ allowances \in [DeviceRef -> Allowance \cup {None}]
  /\ pairing \in PairingWindow \cup {None}
  /\ violations \in Seq(Violation)
  /\ Len(violations) <= HISTORY_LEN
  /\ violations_logged \in 0..(LOG_WRAP - 1)

StateTypeOK ==
  /\ SharedTypeOK
  /\ clock \in 0..Horizon
  /\ config \in Config
  /\ baselines \in Baselines
  /\ hw \in Hardware

============================================================================
