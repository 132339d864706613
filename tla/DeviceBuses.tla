---------------------------- MODULE DeviceBuses ----------------------------
(***************************************************************************)
(* The five device buses of plugkill: what a snapshot of each holds, which *)
(* change a poll reports against a baseline, and what a runtime allowance  *)
(* does to either side of the comparison.  Pure operators; the daemon's    *)
(* state is in DaemonState and the poll loop in PlugkillDaemon.            *)
(***************************************************************************)
EXTENDS Integers, FiniteSets

CONSTANTS
  UsbId,      (* USB vendor:product ids, the one bus that counts instances  *)
  TbId,       (* Thunderbolt unique ids                                     *)
  SdId,       (* SD card serials                                            *)
  PciId,      (* PCI selectors                                              *)
  Monitor,    (* monitor identities, as parsed from an EDID                 *)
  Connector,  (* names of the display connectors                            *)
  None        (* Rust's None                                                *)

(* What can be at a connector besides an identified monitor: the connector *)
(* is not listed, is listed and disconnected, or is connected to something *)
(* whose EDID cannot be read.                                              *)
Unplugged == {"gone", "off"}
Port      == Unplugged \cup {"unidentified"} \cup Monitor

ASSUME IdentityAssumption ==
  /\ None \notin UsbId \cup TbId \cup SdId \cup PciId \cup Monitor \cup Connector
  /\ None \notin Nat
  /\ Monitor \cap {"gone", "off", "unidentified"} = {}
  /\ UsbId \cap (TbId \cup SdId \cup PciId \cup Monitor) = {}
  /\ TbId \cap (SdId \cup PciId \cup Monitor) = {}
  /\ SdId \cap (PciId \cup Monitor) = {}
  /\ PciId \cap Monitor = {}

DeviceRef == UsbId \cup TbId \cup SdId \cup PciId \cup Monitor

(* A USB snapshot counts instances, with 0 for an id that is not present;  *)
(* the others are sets of ids, or one Port per connector.                  *)
UsbSnapshot     == [UsbId -> Nat]
DisplaySnapshot == [Connector -> Port]

---------------------------------------------------------------------------
(* A change names the kind, the device, and whatever else the message says *)
(* of it: the two counts on USB, the connector on display.                 *)
ChangeKind == {"Added", "Removed", "CountIncreased", "CountDecreased",
               "Appeared", "Disappeared", "Connected", "Disconnected", "Replaced"}

Change(kind, id, at) == [kind |-> kind, id |-> id, at |-> at]

(* The comparisons walk what is plugged in first and the baseline second,  *)
(* and return the first change they meet.  A hash map has no order, so any *)
(* member of the set may be the one returned; {} stands for no change.     *)
FirstOf(gains, losses) == IF gains # {} THEN gains ELSE losses

UsbGains(current, baseline, whitelist) ==
  LET unknown  == {d \in UsbId : current[d] > 0 /\ baseline[d] = 0 /\ whitelist[d] = 0}
      tooMany  == {d \in UsbId : current[d] > baseline[d] + whitelist[d]}
  IN  {Change("Added", d, None) : d \in unknown} \cup
      {Change("CountIncreased", d, <<baseline[d] + whitelist[d], current[d]>>) :
         d \in tooMany \ unknown}

UsbLosses(current, baseline) ==
  {Change("Removed", d, None) : d \in {e \in UsbId : baseline[e] > 0 /\ current[e] = 0}}
  \cup
  {Change("CountDecreased", d, <<baseline[d], current[d]>>) :
     d \in {e \in UsbId : 0 < current[e] /\ current[e] < baseline[e]}}

UsbChanges(current, baseline, whitelist) ==
  FirstOf(UsbGains(current, baseline, whitelist), UsbLosses(current, baseline))

(* Thunderbolt and SD card: presence by id, no counts.                     *)
SetChanges(current, baseline, whitelist) ==
  FirstOf({Change("Added", d, None) : d \in current \ (baseline \cup whitelist)},
          {Change("Removed", d, None) : d \in baseline \ current})

(* PCI has no whitelist here: what is ignored was left out of both sides   *)
(* when they were enumerated.  A removal keeps no identity.                *)
PciChanges(current, baseline) ==
  FirstOf({Change("Added", d, None) : d \in current \ baseline},
          {Change("Removed", None, d) : d \in baseline \ current})

(* The monitor a display change can be allowed by, when one is known.      *)
Identity(port) == IF port \in Monitor THEN port ELSE None

DisplayGains(current, baseline) ==
  LET listed == {c \in Connector : current[c] # "gone"}
      new    == {c \in listed : baseline[c] = "gone"}
      on     == {c \in listed \ new : current[c] # "off" /\ baseline[c] = "off"}
      off    == {c \in listed \ new : current[c] = "off" /\ baseline[c] # "off"}
      swap   == {c \in (listed \ new) \ (on \cup off) : current[c] # baseline[c]}
  IN  {Change("Appeared",     Identity(current[c]), c) : c \in new} \cup
      {Change("Connected",    Identity(current[c]), c) : c \in on}  \cup
      {Change("Disconnected", None, c)                 : c \in off} \cup
      {Change("Replaced",     Identity(current[c]), c) : c \in swap}

DisplayLosses(current, baseline) ==
  {Change("Disappeared", None, c) :
     c \in {d \in Connector : baseline[d] # "gone" /\ current[d] = "gone"}}

DisplayChanges(current, baseline) ==
  FirstOf(DisplayGains(current, baseline), DisplayLosses(current, baseline))

---------------------------------------------------------------------------
(* What a set of allowed devices does to each comparison.                  *)

(* An allowance counts for one USB instance, on top of the config count.   *)
UsbWhitelist(configured, allowed) ==
  [d \in UsbId |-> configured[d] + (IF d \in allowed THEN 1 ELSE 0)]

(* a bug: the allowance covers the ports and not the monitor               *)
HideAllowedDisplays_Ports(snapshot, allowed) ==
  [c \in Connector |-> IF allowed \cap Monitor # {} THEN "off" ELSE snapshot[c]]

(* Blank every connector that holds an allowed monitor.                    *)
HideAllowedDisplays(snapshot, allowed) ==
  [c \in Connector |-> IF snapshot[c] \in allowed THEN "off" ELSE snapshot[c]]

(* What a display.ignore list leaves of the connectors.                    *)
ListedDisplays(snapshot, ignore) ==
  [c \in Connector |-> IF c \in ignore THEN "gone" ELSE snapshot[c]]

(* a bug: every instance goes                                              *)
SkipAllowedUsb_All(snapshot, allowed) ==
  [d \in UsbId |-> IF d \in allowed THEN 0 ELSE snapshot[d]]

(* Keep one instance of every allowed USB device out of a fresh baseline.  *)
SkipAllowedUsb(snapshot, allowed) ==
  [d \in UsbId |-> IF d \in allowed /\ snapshot[d] > 0
                   THEN snapshot[d] - 1 ELSE snapshot[d]]

============================================================================
