----------------------------- MODULE EventBuses -----------------------------
(***************************************************************************)
(* Power, network and lid: the buses that name no device.  Each polls one  *)
(* condition and may hold the violation back for a grace period.  The      *)
(* three pairs of fields power_unplug_at / power_grace, network_link_down_at *)
(* / network_grace and lid_close_at / lid_grace of DaemonState are since   *)
(* and grace here, by bus.  A check either stays quiet or fires.           *)
(***************************************************************************)
EXTENDS DaemonState

EventBus == {"power", "network", "lid"}

VARIABLES
  since,                     (* when the condition was first seen, or None  *)
  grace,                     (* the deadline being waited out, or None      *)
  power_trigger_once_fired

eventVars == <<since, grace, power_trigger_once_fired>>

NoTimers == [b \in EventBus |-> None]

InitEvents ==
  /\ since = NoTimers
  /\ grace = NoTimers
  /\ power_trigger_once_fired = FALSE

NewEvents ==
  /\ since' = NoTimers
  /\ grace' = NoTimers
  /\ power_trigger_once_fired' = FALSE

(* a bug: the start of the countdown survives                              *)
ResetTimers_KeepsSince(captured) ==
  /\ grace' = [b \in EventBus |-> IF b \in captured THEN None ELSE grace[b]]
  /\ power_trigger_once_fired' = (power_trigger_once_fired /\ "power" \notin captured)
  /\ UNCHANGED since

(* A bus whose baseline is captured anew forgets its countdown.            *)
ResetTimers(captured) ==
  /\ since' = [b \in EventBus |-> IF b \in captured THEN None ELSE since[b]]
  /\ grace' = [b \in EventBus |-> IF b \in captured THEN None ELSE grace[b]]
  /\ power_trigger_once_fired' = (power_trigger_once_fired /\ "power" \notin captured)

---------------------------------------------------------------------------
(* The countdown all three share, Instant::now() being read in the check.  *)
Clear(bus) ==
  /\ since' = [since EXCEPT ![bus] = None]
  /\ grace' = [grace EXCEPT ![bus] = None]

SinceNow(bus) == IF since[bus] = None THEN clock ELSE since[bus]

(* Within the grace, which a first sight of the condition starts.          *)
Waits(bus, secs) == secs > 0 /\ clock - SinceNow(bus) < secs

(* a bug: every poll starts the announced countdown again                  *)
Wait_Restarts(bus, secs) ==
  /\ Waits(bus, secs)
  /\ since' = [since EXCEPT ![bus] = SinceNow(bus)]
  /\ grace' = [grace EXCEPT ![bus] = clock + secs]

Wait(bus, secs) ==
  /\ Waits(bus, secs)
  /\ since' = [since EXCEPT ![bus] = SinceNow(bus)]
  /\ grace' = [grace EXCEPT ![bus] = SinceNow(bus) + secs]

Elapse(bus, secs) ==
  /\ ~Waits(bus, secs)
  /\ since' = [since EXCEPT ![bus] = SinceNow(bus)]
  /\ grace' = [grace EXCEPT ![bus] = None]

Follow_Not(bus, reading) == UNCHANGED baselines   (* a bug                  *)

(* The monitor policies log a change once: the baseline moves with it.     *)
Follow(bus, reading) == baselines' = [baselines EXCEPT ![bus] = reading]

Accept(bus, reading) ==
  /\ grace' = [grace EXCEPT ![bus] = None]
  /\ Follow(bus, reading)
  /\ UNCHANGED <<since, power_trigger_once_fired>>

(* A check returns at once on a bus that is not watched or has no baseline. *)
Watched(bus) == bus \in config.watch /\ baselines[bus] # None

---------------------------------------------------------------------------
OnBattery == hw.power = "Battery"

InUse_UnlessLocked == config.power.require_locked /\ hw.locked # TRUE   (* a bug *)

(* A session known to be in use holds the check off; an unreadable lock    *)
(* state does not.                                                         *)
InUse == config.power.require_locked /\ hw.locked = FALSE

PowerExcused ==
  \/ config.power.policy = "TriggerOnce" /\ power_trigger_once_fired
  \/ baselines["power"] = "Battery"

PowerQuiet ==
  \/ config.power.policy = "Monitor" /\ Accept("power", hw.power)
  \/ /\ config.power.policy # "Monitor"
     /\ UNCHANGED <<baselines, power_trigger_once_fired>>
     /\ \/ ~OnBattery /\ Clear("power")
        \/ OnBattery /\ PowerExcused /\ UNCHANGED <<since, grace>>
        \/ /\ OnBattery /\ ~PowerExcused /\ InUse
           /\ since' = [since EXCEPT !["power"] = SinceNow("power")]
           /\ grace' = [grace EXCEPT !["power"] = None]
        \/ /\ OnBattery /\ ~PowerExcused /\ ~InUse
           /\ Wait("power", config.power.grace_secs)

PowerFires ==
  /\ config.power.policy # "Monitor"
  /\ OnBattery /\ ~PowerExcused /\ ~InUse
  /\ Elapse("power", config.power.grace_secs)
  /\ power_trigger_once_fired' =
       (power_trigger_once_fired \/ config.power.policy = "TriggerOnce")
  /\ UNCHANGED baselines

---------------------------------------------------------------------------
(* network.interfaces lists the ones to read, or is empty for all.         *)
Links(cfg) ==
  [i \in Iface |-> IF cfg.network.interfaces = {} \/ i \in cfg.network.interfaces
                   THEN hw.network[i] ELSE "gone"]

LinksDown ==
  {i \in Iface : baselines["network"][i] = "Up" /\ Links(config)[i] \in {"Down", "gone"}}

NetworkQuiet ==
  \/ /\ LinksDown # {}
     /\ config.network.policy = "Monitor"
     /\ Accept("network", Links(config))
  \/ /\ UNCHANGED <<baselines, power_trigger_once_fired>>
     /\ \/ LinksDown = {} /\ Clear("network")
        \/ /\ LinksDown # {} /\ config.network.policy = "Kill"
           /\ Wait("network", config.network.grace_secs)

NetworkFires ==
  /\ LinksDown # {}
  /\ config.network.policy = "Kill"
  /\ Elapse("network", config.network.grace_secs)
  /\ UNCHANGED <<baselines, power_trigger_once_fired>>

---------------------------------------------------------------------------
LidClosed == hw.lid = "Closed"

LidQuiet ==
  \/ /\ LidClosed /\ baselines["lid"] # "Closed"
     /\ config.lid.policy = "Monitor"
     /\ Accept("lid", hw.lid)
  \/ /\ UNCHANGED <<baselines, power_trigger_once_fired>>
     /\ \/ ~LidClosed /\ Clear("lid")
        \/ LidClosed /\ baselines["lid"] = "Closed" /\ UNCHANGED <<since, grace>>
        \/ /\ LidClosed /\ baselines["lid"] # "Closed" /\ config.lid.policy = "Kill"
           /\ Wait("lid", config.lid.grace_secs)

LidFires ==
  /\ LidClosed /\ baselines["lid"] # "Closed"
  /\ config.lid.policy = "Kill"
  /\ Elapse("lid", config.lid.grace_secs)
  /\ UNCHANGED <<baselines, power_trigger_once_fired>>

---------------------------------------------------------------------------
EventTypeOK ==
  /\ since \in [EventBus -> Nat \cup {None}]
  /\ grace \in [EventBus -> Nat \cup {None}]
  /\ power_trigger_once_fired \in BOOLEAN

============================================================================
