---------------------------- MODULE Enumeration ----------------------------
(***************************************************************************)
(* How a bus is read.  A snapshot is not taken at one moment: a directory  *)
(* is listed, and each entry's attribute files are opened one by one while *)
(* the kernel plugs and unplugs devices, permissions change and reads      *)
(* fail.  This module walks one bus, as plugkill-core does for each, and   *)
(* hands what it found to a baseline, to a check against the baseline, or  *)
(* to the list a whitelist is generated from.  PlugkillDaemon takes each   *)
(* of the three as a single step; this is what is inside them.             *)
(***************************************************************************)
EXTENDS DeviceBuses, Sequences

CONSTANTS
  Err,          (* the error of a walk that failed                          *)
  Entry,        (* names of directory entries                               *)
  Part,         (* those whose name is not a device's: an interface, a      *)
                (* domain, a card without a connector, a slice of a card    *)
  NameOf,       (* the connector an entry of /sys/class/drm names           *)
  Walked,       (* the buses to walk, of those below                        *)
  Content(_, _),  (* bound: what the kernel can put at an entry of a bus    *)
  HexId,        (* what is_valid_hex_id accepts                             *)
  Ignored,      (* [pci] ignore                                             *)
  MaxEvents     (* bound: kernel events and failed reads in a behaviour     *)

(* The buses of Linux, and three of FreeBSD that are walked too; "lock" is *)
(* logind's list of sessions, asked whether the machine is locked.         *)
UsbBuses    == {"usb", "usb.bsd"}
CardBuses   == {"sdcard", "sdcard.bsd"}
LinkBuses   == {"network", "network.bsd"}
SysfsIds    == {"usb", "thunderbolt", "sdcard", "pci"}
IdBuses     == SysfsIds \cup {"usb.bsd", "sdcard.bsd"}
BusName     == IdBuses \cup LinkBuses \cup {"display", "power", "lock"}
Purpose     == {"baseline", "check", "list"}

(* What a walk, or the kernel, writes where a None would say: nothing.     *)
Word ==
  {"Mains", "Battery", "online", "charging", "graphical", "locked", "unlocked", "feeds",
   "connected", "empty", "up", "down", "Up", "Down", "Unknown", "Ac"}

ASSUME WalkAssumption ==
  /\ Walked \subseteq BusName
  /\ None \notin Entry \cup HexId \cup Purpose \cup Word /\ Err # None
  /\ IsFiniteSet(Entry) /\ Entry # {}
  /\ NameOf \in [Entry -> Connector]
  /\ Ignored \subseteq Entry /\ Part \subseteq Entry
  /\ MaxEvents \in Nat

VARIABLES
  bus,        (* the bus under the walk, fixed                              *)
  hw,         (* entry -> what the kernel shows there, or None              *)
  denied,     (* the entries whose attributes permission keeps closed       *)
  purpose,    (* what the walk is for, or None between walks                *)
  todo,       (* entries the listing returned and the walk has yet to visit *)
  at, got,    (* the entry being read, or None, and the values read of it   *)
  found,      (* the entries accepted, in the order of the directory        *)
  answer,     (* the snapshot, Err, or None while the walk goes on        *)
  baseline, whitelist, verdict,
  disturbed,  (* the entries that changed, or were misread, since this walk *)
              (* began, and since the one that led to the baseline, or to   *)
              (* the whitelist, did                                         *)
  events      (* how many kernel events and failed reads there were         *)

walk    == <<purpose, todo, at, got, found, answer>>
results == <<baseline, whitelist, verdict>>
history == <<disturbed, events>>
vars    == <<bus, hw, denied, walk, results, history>>

---------------------------------------------------------------------------
(* What each walk asks of an entry.                                        *)

(* How many attribute files an entry must have, and how many are opened: a *)
(* listing of a sysfs bus goes on to the optional ones, here a single one. *)
Required ==
  IF bus \in {"usb", "sdcard", "display", "power", "lock"} THEN 2 ELSE IF bus = "pci" THEN 0 ELSE 1

Attributes == IF purpose = "list" /\ bus \in SysfsIds THEN Required + 1 ELSE Required

(* Entries left out by their name, or for want of a `device` link.         *)
SkippedByName(e) ==
  \/ bus = "pci" /\ e \in Ignored
  \/ bus \in {"thunderbolt", "sdcard", "sdcard.bsd", "display"} /\ e \in Part
  \/ bus = "usb" /\ purpose = "list" /\ e \in Part
  \/ bus = "network" /\ (e \in Part \/ hw[e] = None)

(* a bug: no attribute may be empty                                        *)
Wanted_NeverEmpty(i, value) ==
  \/ i > Required
  \/ bus \in {"display", "network", "sdcard.bsd"}
  \/ bus = "power" /\ i = 2
  \/ /\ value # None
     /\ bus \in {"thunderbolt", "sdcard"} => value # "empty"

(* The values an entry must have at all: a vendor and a product, a         *)
(* unique_id and a serial that are not empty, a type, a graphical session. *)
Wanted(i, value) ==
  \/ i > Required
  \/ bus \in {"display", "network", "sdcard.bsd"}
  \/ bus \in {"power", "lock"} /\ i = 2
  \/ bus = "lock" /\ value = "graphical"
  \/ /\ bus # "lock" /\ value # None
     /\ (bus = "thunderbolt" \/ (bus = "sdcard" /\ i = 2)) => value # "empty"

(* ... and what they must look like, once all are read.                    *)
Valid(values) == bus = "usb" => values[1] \in HexId /\ values[2] \in HexId

(* The EDID of a connector nothing is connected to is not read, nor a      *)
(* second file of a supply that is neither an adapter nor a battery.       *)
Enough(values) ==
  \/ Len(values) = Attributes
  \/ bus = "display" /\ Len(values) = 1 /\ values[1] # "connected"
  \/ bus = "power"   /\ Len(values) = 1 /\ values[1] \notin {"Mains", "Battery"}

(* a bug: only an adapter counts                                           *)
OnMains_AdapterOnly(values) == values = <<"Mains", "online">>

(* One of these and the walk stops: the machine is on mains.               *)
OnMains(values) == values \in {<<"Mains", "online">>, <<"Battery", "charging">>}

(* The first graphical session that is locked ends a walk of logind's.     *)
LockedOne(values) == values = <<"graphical", "locked">>

(* a bug: a refused attribute reads as missing everywhere                  *)
Refuses_Never == FALSE

(* A sysfs walk by identity fails when permission is refused.  Elsewhere a *)
(* refused attribute reads as one that is not there.                       *)
Refuses == bus \in SysfsIds

(* A directory that does not open fails these; for the others it is empty. *)
FailsUnlisted == bus \in SysfsIds \cup {"usb.bsd"}

---------------------------------------------------------------------------
(* Snapshots, and the changes a check finds between two of them.           *)
Row(e, values) == [entry |-> e, values |-> values]
Rows(list)     == {list[i] : i \in 1..Len(list)}

UsbIdOf(values) == IF bus = "usb" THEN <<values[1], values[2]>> ELSE values[1]

(* FreeBSD knows a card that tells no serial by its device node.           *)
CardOf(row) ==
  IF bus = "sdcard" THEN row.values[2]
  ELSE IF row.values[1] \in {None, "empty"} THEN row.entry ELSE row.values[1]

LinkOf(value) ==
  CASE value = "up" -> "Up" [] value = "down" -> "Down" [] OTHER -> "Unknown"

PortOf(row) ==
  [name      |-> NameOf[row.entry],
   connected |-> row.values[1] = "connected",
   edid      |-> IF row.values[1] = "connected" THEN row.values[2] ELSE None]

PowerOf(rows) ==
  IF \E r \in rows : OnMains(r.values) THEN "Ac"
  ELSE IF \E r \in rows : r.values[1] = "Mains" THEN "Battery" ELSE "Unknown"

(* A session whose hint could not be read counts as one that is open.      *)
LockOf(rows) ==
  IF \E r \in rows : LockedOne(r.values) THEN "locked"
  ELSE IF rows # {} THEN "unlocked" ELSE "Unknown"

(* What an entry shows says what it is: its id is the identity of a device *)
(* on the buses of devices, the state of a link, whether a supply feeds    *)
(* the machine, and whether a graphical session is locked.                 *)
IdOf(b, e, values) ==
  CASE b = "usb"         -> IF values[1] \in HexId /\ values[2] \in HexId
                            THEN <<values[1], values[2]>> ELSE None
    [] b = "usb.bsd"     -> values[1]
    [] b = "thunderbolt" -> IF values[1] = "empty" THEN None ELSE values[1]
    [] b = "sdcard"      -> IF values[1] = None \/ values[2] = "empty" THEN None ELSE values[2]
    [] b = "sdcard.bsd"  -> IF values[1] \in {None, "empty"} THEN e ELSE values[1]
    [] b \in LinkBuses   -> LinkOf(values[1])
    [] b = "power"       -> IF <<values[1], values[2]>> \in {<<"Mains", "online">>, <<"Battery", "charging">>}
                            THEN "feeds" ELSE None
    [] b = "lock"        -> IF values[1] # "graphical" THEN None
                            ELSE IF values[2] = "locked" THEN "locked" ELSE "unlocked"

(* How many attribute files of an entry a walk may open.                   *)
Files(b) ==
  IF b \in {"usb", "sdcard"} THEN 3
  ELSE IF b \in {"thunderbolt", "display", "power", "lock"} THEN 2 ELSE IF b = "pci" THEN 0 ELSE 1

(* Each has something in it, or nothing.  An interface of a USB device has *)
(* no vendor and product; FreeBSD, the power class and logind list no      *)
(* parts, and FreeBSD no interface without a state.                        *)
ASSUME ContentAssumption ==
  \A b \in Walked, e \in Entry : \A c \in Content(b, e) :
    /\ c.values \in Seq({c.values[i] : i \in DOMAIN c.values})
    /\ Len(c.values) >= Files(b)
    /\ e \notin Part /\ b \notin {"pci", "display"} => c.id = IdOf(b, e, c.values)
    /\ b = "usb" /\ e \in Part => None \in {c.values[1], c.values[2]}
    /\ b \in {"usb.bsd", "network.bsd", "power", "lock"} => e \notin Part
    /\ b = "network.bsd" => c.values[1] # None

(* Counting instances, on USB; a card or a Thunderbolt device is there or  *)
(* not, so that two cards of one serial are one.                           *)
Counts(list) ==
  [d \in UsbId |-> Cardinality({i \in 1..Len(list) : UsbIdOf(list[i].values) = d})]

Snapshot(list) ==
  CASE bus \in UsbBuses    -> Counts(list)
    [] bus = "thunderbolt" -> {r.values[1] : r \in Rows(list)}
    [] bus \in CardBuses   -> {CardOf(r) : r \in Rows(list)}
    [] bus = "pci"         -> {r.entry : r \in Rows(list)}
    [] bus = "display"     -> [i \in 1..Len(list) |-> PortOf(list[i])]
    [] bus \in LinkBuses   -> [e \in {r.entry : r \in Rows(list)} |->
                                 LinkOf((CHOOSE r \in Rows(list) : r.entry = e).values[1])]
    [] bus = "power"       -> PowerOf(Rows(list))
    [] bus = "lock"        -> LockOf(Rows(list))

(* Two cards may have a connector of the same name; get finds the first.   *)
Named(ports, name) == {i \in 1..Len(ports) : ports[i].name = name}

Get(ports, name) ==
  ports[CHOOSE i \in Named(ports, name) : \A j \in Named(ports, name) : i <= j]

ConnectorChanges(current, before) ==
  FirstOf({c \in Rows(current) :
             \/ Named(before, c.name) = {}
             \/ LET was == Get(before, c.name)
                IN  c.connected # was.connected \/ c.edid # was.edid},
          {c \in Rows(before) : Named(current, c.name) = {}})

LinksDown(current, before) ==
  {i \in DOMAIN before :
     before[i] = "Up" /\ (i \in DOMAIN current => current[i] = "Down")}

Changes(current) ==
  CASE bus \in UsbBuses    -> UsbChanges(current, baseline, whitelist)
    [] bus \in CardBuses \cup {"thunderbolt"} -> SetChanges(current, baseline, whitelist)
    [] bus = "pci"         -> PciChanges(current, baseline)
    [] bus = "display"     -> ConnectorChanges(current, baseline)
    [] bus \in LinkBuses   -> LinksDown(current, baseline)
    [] bus = "power"       -> IF baseline = "Ac" /\ current = "Battery" THEN {"pulled"} ELSE {}
    [] bus = "lock"        -> {}

NoWhitelist == IF bus \in UsbBuses THEN [d \in UsbId |-> 0] ELSE {}

(* a bug: one line per device, whatever the number of its instances        *)
GenerateWhitelist_Once(list) ==
  IF bus \in UsbBuses THEN [d \in UsbId |-> IF Counts(list)[d] > 0 THEN 1 ELSE 0]
                      ELSE Snapshot(list)

(* The whitelist block --generate-whitelist prints of a listing.           *)
GenerateWhitelist(list) == Snapshot(list)

---------------------------------------------------------------------------
Shown    == {e \in Entry : hw[e] # None}
Budget   == events < MaxEvents
Disturb(which) == [k \in DOMAIN disturbed |-> disturbed[k] \cup which]

Init ==
  /\ bus \in Walked
  /\ hw \in [Entry -> UNION {Content(bus, e) : e \in Entry} \cup {None}]
  /\ \A e \in Entry : hw[e] \in Content(bus, e) \cup {None}
  /\ denied = {}
  /\ purpose = None /\ todo = {} /\ at = None /\ got = <<>> /\ found = <<>> /\ answer = None
  /\ baseline = None /\ whitelist = NoWhitelist /\ verdict = {}
  /\ disturbed = [k \in {"walk", "baseline", "list"} |-> Entry]
  /\ events = 0

(* The kernel and the administrator, at any moment.                        *)
Plug(e) ==
  /\ Budget /\ hw[e] = None
  /\ \E c \in Content(bus, e) : hw' = [hw EXCEPT ![e] = c]
  /\ disturbed' = Disturb({e}) /\ events' = events + 1
  /\ UNCHANGED <<bus, denied, walk, results>>

Unplug(e) ==
  /\ Budget /\ hw[e] # None
  /\ hw' = [hw EXCEPT ![e] = None]
  /\ disturbed' = Disturb({e}) /\ events' = events + 1
  /\ UNCHANGED <<bus, denied, walk, results>>

Chmod(e) ==
  /\ Budget
  /\ denied' = (denied \ {e}) \cup ({e} \ denied)
  /\ events' = events + 1
  /\ UNCHANGED <<bus, hw, walk, results, disturbed>>

---------------------------------------------------------------------------
(* A walk begins: a check only against a baseline, but for sessions, which *)
(* have none, and a listing only of a bus that has one.  The directory may *)
(* fail to open, out of descriptors say.                                   *)
Begins(p) ==
  /\ purpose = None
  /\ p = "check" => baseline # None \/ bus = "lock"
  /\ p = "baseline" => bus # "lock"
  /\ p = "list" => bus \in IdBuses \ {"pci"}
  /\ purpose' = p
  /\ at' = None /\ got' = <<>> /\ found' = <<>>
  /\ verdict' = {}
  /\ UNCHANGED <<bus, hw, denied, baseline, whitelist>>

Open(p) ==
  /\ Begins(p)
  /\ todo' = Shown /\ answer' = None
  /\ disturbed' = [disturbed EXCEPT !["walk"] = {}]
  /\ UNCHANGED events

OpenFails(p) ==
  /\ Budget /\ Begins(p)
  /\ todo' = {}
  /\ IF FailsUnlisted
     THEN answer' = Err /\ UNCHANGED disturbed
     ELSE answer' = None /\ disturbed' = Disturb(Entry)
  /\ events' = events + 1

(* The next entry of the listing, wherever the directory puts it.          *)
Visit(e) ==
  /\ purpose # None /\ answer = None /\ at = None /\ e \in todo
  /\ todo' = todo \ {e}
  /\ IF SkippedByName(e) THEN UNCHANGED <<at, found>>
     ELSE IF Attributes = 0 THEN found' = Append(found, Row(e, <<>>)) /\ UNCHANGED at
     ELSE at' = e /\ UNCHANGED found
  /\ got' = <<>>
  /\ UNCHANGED <<bus, hw, denied, purpose, answer, results, history>>

(* What is made of a value: the entry goes, is kept, or is read on; and an *)
(* adapter on line, or a locked session, ends the walk.                    *)
Take(value) ==
  LET values == Append(got, value)
  IN  /\ got' = values
      /\ IF ~Wanted(Len(values), value) THEN at' = None /\ UNCHANGED found
         ELSE IF ~Enough(values) THEN UNCHANGED <<at, found>>
         ELSE /\ at' = None
              /\ found' = IF Valid(values) THEN Append(found, Row(at, values)) ELSE found
      /\ answer' = CASE bus = "power" /\ OnMains(values)  -> "Ac"
                     [] bus = "lock" /\ LockedOne(values) -> "locked"
                     [] OTHER                             -> None

ReadAttribute ==
  /\ at # None /\ answer = None /\ at \notin denied
  /\ Take(IF hw[at] = None THEN None ELSE hw[at].values[Len(got) + 1])
  /\ UNCHANGED <<bus, hw, denied, purpose, todo, results, history>>

(* An error that is neither: it is logged, and reads as not there.         *)
ReadFails ==
  /\ Budget /\ at # None /\ answer = None /\ at \notin denied
  /\ Take(None)
  /\ disturbed' = Disturb({at}) /\ events' = events + 1
  /\ UNCHANGED <<bus, hw, denied, purpose, todo, results>>

ReadRefused ==
  /\ at \in denied /\ answer = None
  /\ IF Refuses THEN answer' = Err /\ UNCHANGED <<at, got, found>> ELSE Take(None)
  /\ disturbed' = IF bus \in SysfsIds THEN disturbed ELSE Disturb({at})
  /\ UNCHANGED <<bus, hw, denied, purpose, todo, results, events>>

Finish ==
  /\ purpose # None /\ answer = None /\ at = None /\ todo = {}
  /\ answer' = Snapshot(found)
  /\ UNCHANGED <<bus, hw, denied, purpose, todo, at, got, found, results, history>>

(* The caller gets the snapshot.  A failed one changes no baseline, and a  *)
(* check that fails finds nothing.                                         *)
Deliver ==
  /\ answer # None
  /\ purpose' = None /\ answer' = None /\ todo' = {} /\ at' = None /\ got' = <<>> /\ found' = <<>>
  /\ IF answer = Err THEN UNCHANGED <<results, disturbed>>
     ELSE /\ baseline'  = IF purpose = "baseline" THEN answer ELSE baseline
          /\ whitelist' = IF purpose = "list" THEN GenerateWhitelist(found) ELSE whitelist
          /\ verdict'   = IF purpose = "check" THEN Changes(answer) ELSE {}
          /\ disturbed' = IF purpose = "check" THEN disturbed
                          ELSE [disturbed EXCEPT ![purpose] = disturbed["walk"]]
  /\ UNCHANGED <<bus, hw, denied, events>>

Kernel == \E e \in Entry : Plug(e) \/ Unplug(e) \/ Chmod(e)
Walker == \/ \E p \in Purpose : Open(p) \/ OpenFails(p)
          \/ \E e \in Entry : Visit(e)
          \/ ReadAttribute \/ ReadFails \/ ReadRefused \/ Finish \/ Deliver

Next == Kernel \/ Walker
Spec == Init /\ [][Next]_vars

============================================================================
