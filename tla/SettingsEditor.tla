--------------------------- MODULE SettingsEditor ---------------------------
(***************************************************************************)
(* The settings window of plugkill-gui: the editor of the configuration,   *)
(* the devices and violations panels that put entries in it, and the text  *)
(* root pastes into the file the daemon loads.  The window never writes a  *)
(* file.  USB stands for the lists; PCI, Thunderbolt and SD card entries   *)
(* name one device and carry no count.                                     *)
(***************************************************************************)
EXTENDS Integers, FiniteSets, SequencesExt

CONSTANTS
  None,
  UsbId,             (* vendor:product, as sysfs and the daemon spell it    *)
  Spelling, Norm,    (* what a person may write for one                     *)
  Port, PortOrder,   (* where a device may sit, and when the daemon lists it *)
  Behind,            (* [Port -> SUBSET Port]: a port and those hanging off it *)
  Path,
  Links, BadLinks,   (* names for network.interfaces                        *)
  MIN_SLEEP, MAX_SLEEP,
  SPIN_SLEEP,        (* the spin button's ceiling, wider than the loader's   *)
  Defaults,          (* Config::default()                                   *)
  Disks,             (* what may be in the files at first                   *)
  MaxPlugs, MaxEdits, MaxRoot    (* bounds *)

Entry  == [id : Spelling, count : Nat]
Config == [devices : Seq(Entry), sleep_ms : Nat, interfaces : SUBSET Links,
           commands : {"none", "root's"}]

ASSUME SettingsAssumption ==
  /\ UsbId \subseteq Spelling
  /\ Norm \in [Spelling -> UsbId] /\ \A id \in UsbId : Norm[id] = id
  /\ IsFiniteSet(Port) /\ PortOrder \in [Port -> Nat] /\ IsInjective(PortOrder)
  /\ Behind \in [Port -> SUBSET Port] /\ \A p \in Port : p \in Behind[p]
  /\ BadLinks \subseteq Links
  /\ MIN_SLEEP \in Nat /\ MAX_SLEEP \in Nat /\ MIN_SLEEP <= MAX_SLEEP
  /\ SPIN_SLEEP \in Nat
  /\ Defaults \in Config /\ Defaults.devices = <<>>
  /\ Disks \subseteq [Path -> Config \cup {None}]
  /\ None \notin UsbId \cup Path

VARIABLES
  plugged,      (* [Port -> UsbId \cup {None}]: what the daemon lists       *)
  allowed,      (* its runtime allowances                                   *)
  refused,      (* the devices of its violations                            *)
  disk,         (* [Path -> Config], or None for a file that does not parse *)
  unreadable,   (* the files the person's account may not read              *)
  daemon,       (* [path, config]: what it runs                             *)
  editor,       (* [path, loaded, config, read, origin]                     *)
  offers,       (* the devices panel as drawn: [adds, expansions]           *)
  rows,         (* the violations panel: [instances, shown, present]        *)
  wanted,       (* history: the devices a person added to what was loaded    *)
  plugs, edits, rooted    (* bounds *)

bounds == <<plugs, edits, rooted>>
vars   == <<plugged, allowed, refused, disk, unreadable, daemon, editor, offers, rows, wanted, bounds>>

---------------------------------------------------------------------------
(* The daemon's loader, and what it makes of the whitelist.                *)
Clamp(n) == IF n < MIN_SLEEP THEN MIN_SLEEP ELSE IF n > MAX_SLEEP THEN MAX_SLEEP ELSE n

Valid(c) ==
  /\ \A i \in DOMAIN c.devices : c.devices[i].count > 0
  /\ c.interfaces \cap BadLinks = {}

Parse(text) ==
  IF text # None /\ Valid(text) THEN [text EXCEPT !.sleep_ms = Clamp(@)] ELSE None

(* The instances the entries of a device stand for; their summed counts.   *)
Copies(c, id) ==
  UNION {{i} \X (1..c.devices[i].count) : i \in {j \in DOMAIN c.devices : c.devices[j].id = id}}

Total(c, id) == Cardinality(Copies(c, id))

(* detect_changes against a baseline without the device.                   *)
Gains(listing, c, id) == Cardinality({p \in Port : listing[p] = id}) > Total(c, id)

---------------------------------------------------------------------------
(* editor/model.rs: the lists.                                             *)
Listed(c, id) == \E i \in DOMAIN c.devices : c.devices[i].id = id

FirstListed(c, id) == CHOOSE i \in DOMAIN c.devices :
                  c.devices[i].id = id /\ \A j \in 1..(i - 1) : c.devices[j].id # id

ListAdd(c, id) ==
  IF Listed(c, id) THEN c ELSE [c EXCEPT !.devices = Append(@, [id |-> id, count |-> 1])]

InOrder(S) ==
  CHOOSE at \in [1..Cardinality(S) -> S] : \A i, j \in DOMAIN at : i < j => at[i] < at[j]

ListRemove(c, entry) ==
  LET at == InOrder({i \in DOMAIN c.devices : c.devices[i].id # entry})
  IN  [c EXCEPT !.devices = [k \in DOMAIN at |-> @[at[k]]]]

ListCoverOne_Unbounded(c, id, present) ==   (* a bug: every click raises it *)
  IF Listed(c, id) THEN [c EXCEPT !.devices[FirstListed(c, id)].count = @ + 1] ELSE ListAdd(c, id)

ListCoverOne_Refuses(c, id, present) ==   (* a bug: a second one is a duplicate *)
  IF Listed(c, id) THEN c ELSE ListAdd(c, id)

ListCoverOne(c, id, present) ==
  IF ~Listed(c, id) THEN ListAdd(c, id)
  ELSE IF c.devices[FirstListed(c, id)].count < present
       THEN [c EXCEPT !.devices[FirstListed(c, id)].count = @ + 1]
       ELSE c

(* list_add_instances of what is listed already.                           *)
Raised(e, adds) ==
  LET more == {a \in adds : a.id = e.id /\ a.count > e.count}
  IN  IF more = {} THEN e ELSE CHOOSE a \in more : TRUE

---------------------------------------------------------------------------
(* settings/devices.rs: one row per device, taking the instances an entry  *)
(* stands for in the daemon's order.                                       *)
Instances(listing) == [id \in UsbId |-> Cardinality({p \in Port : listing[p] = id})]

Before(listing, p) ==
  {q \in Port : listing[q] = listing[p] /\ PortOrder[q] < PortOrder[p]}

TakesInstance_Any(listing, c, p) == Total(c, listing[p]) > 0   (* a bug: one entry covers all *)

TakesInstance(listing, c, p) == Cardinality(Before(listing, p)) < Total(c, listing[p])

Action(listing, allowances, c, p) ==
  IF TakesInstance(listing, c, p) THEN "in the whitelist"
  ELSE IF listing[p] \in allowances THEN "allowed at runtime"
  ELSE "add"

Offered(listing, allowances, c) ==
  {p \in Port : listing[p] # None /\ Action(listing, allowances, c, p) = "add"}

(* expansion: the node and what hangs off it, folded by identity.          *)
Expansion(listing, allowances, c, p) ==
  LET behind == {q \in Behind[p] : listing[q] # None}
      open   == {listing[q] : q \in behind \cap Offered(listing, allowances, c)}
  IN  {[id |-> id, count |-> Cardinality({q \in behind : listing[q] = id})] : id \in open}

(* A row with a device behind it has the button.                           *)
Expandable(listing) ==
  {p \in Port : listing[p] # None /\ \E b \in Behind[p] \ {p} : listing[b] # None}

(* One list_add_instances for each: the first entry of a device that is    *)
(* listed is raised to as many, and the others are added.                  *)
Expanded(c, adds) ==
  LET raised == [i \in DOMAIN c.devices |->
                   IF FirstListed(c, c.devices[i].id) = i THEN Raised(c.devices[i], adds)
                   ELSE c.devices[i]]
  IN  [c EXCEPT !.devices = raised \o SetToSeq({a \in adds : ~Listed(c, a.id)})]

---------------------------------------------------------------------------
(* build: the loader runs before anything is shown.                        *)
Output_Unchecked(c) == c   (* a bug *)

Output(c) == Parse(c)

Edit(change) ==
  /\ edits < MaxEdits
  /\ edits' = edits + 1
  /\ editor' = [editor EXCEPT !.config = change]
  /\ UNCHANGED <<plugged, allowed, refused, disk, unreadable, daemon, offers, rows, plugs, rooted>>

Missing(ids) == {id \in ids : ~Listed(editor.loaded, id)}

TypeEntry ==
  \E text \in Spelling :
    /\ Edit(ListAdd(editor.config, Norm[text]))
    /\ wanted' = wanted \cup Missing({Norm[text]})

RemoveEntry ==
  \E i \in DOMAIN editor.config.devices :
    LET entry == editor.config.devices[i].id IN
      /\ Edit(ListRemove(editor.config, entry))
      /\ wanted' = wanted \ {entry}

EditField ==
  /\ \/ \E n \in 0..SPIN_SLEEP : Edit([editor.config EXCEPT !.sleep_ms = n])
     \/ \E links \in SUBSET Links : Edit([editor.config EXCEPT !.interfaces = links])
  /\ UNCHANGED wanted

ClickAdd ==
  \E r \in offers.adds :
    /\ Edit(ListCoverOne(editor.config, r.id, r.present))
    /\ wanted' = wanted \cup Missing({r.id})

ClickExpand ==
  \E adds \in offers.expansions :
    /\ Edit(Expanded(editor.config, adds))
    /\ wanted' = wanted \cup Missing({a.id : a \in adds})

ClickViolation ==
  /\ rows.shown # None
  /\ \E id \in rows.shown :
       /\ Edit(ListCoverOne(editor.config, id, rows.present[id]))
       /\ wanted' = wanted \cup Missing({id})

---------------------------------------------------------------------------
(* An update of the window: the editor, then the panels.                   *)
Load(path) ==
  LET read == path \notin unreadable /\ Parse(disk[path]) # None
      c    == IF read THEN Parse(disk[path]) ELSE Defaults
  IN [path |-> path, loaded |-> c, config |-> c, read |-> read,
      origin |-> IF read THEN path ELSE None]

Untouched_Always == TRUE   (* a bug *)

Untouched == editor.config = editor.loaded

Opened ==
  IF editor.path = daemon.path THEN editor
  ELSE IF Untouched THEN Load(daemon.path)
  ELSE [editor EXCEPT !.path = daemon.path]

Draw(c) ==
  LET count == Instances(plugged) IN
  [adds |-> {[id |-> plugged[p], present |-> count[plugged[p]]] : p \in Offered(plugged, allowed, c)},
   expansions |-> {Expansion(plugged, allowed, c, p) : p \in Expandable(plugged)} \ {{}}]

Attached(count) == {id \in UsbId : count[id] > 0}

Ceiling(count, id) == IF count[id] > 0 THEN count[id] ELSE 1

Rows(walked, asked) ==
  LET count   == IF walked THEN Instances(plugged) ELSE rows.instances
      renamed == Attached(count) # Attached(rows.instances)
  IN IF asked /\ (renamed \/ rows.shown # refused)
     THEN [instances |-> count, shown |-> refused,
           present |-> [id \in UsbId |-> Ceiling(count, id)]]
     ELSE [rows EXCEPT !.instances = count]

UpdateWindow ==
  /\ \E walked, asked \in BOOLEAN :
       /\ editor' = Opened
       /\ offers' = IF walked THEN Draw(editor'.config) ELSE offers
       /\ rows' = Rows(walked, asked)
  /\ UNCHANGED <<plugged, allowed, refused, disk, unreadable, daemon, wanted, bounds>>

---------------------------------------------------------------------------
(* Root: pastes what the window shows, unless the window says it stands    *)
(* for no file; edits a file, but not the commands of the one the window   *)
(* stands for; and restarts the daemon, maybe on another file.             *)
Placeholder_Never == FALSE   (* a bug *)

Placeholder == ~editor.read

Target == IF editor.origin # None THEN editor.origin ELSE editor.path

Paste ==
  /\ rooted < MaxRoot
  /\ rooted' = rooted + 1
  /\ Target # None
  /\ ~Placeholder
  /\ Output(editor.config) # None
  /\ disk' = [disk EXCEPT ![Target] = Output(editor.config)]
  /\ UNCHANGED <<plugged, allowed, refused, unreadable, daemon, editor, offers, rows, wanted, plugs, edits>>

RootEdits ==
  /\ rooted < MaxRoot
  /\ rooted' = rooted + 1
  /\ \E path \in Path, d \in Disks :
       /\ path = editor.origin => d[path] # None /\ d[path].commands = disk[path].commands
       /\ disk' = [disk EXCEPT ![path] = d[path]]
  /\ UNCHANGED <<plugged, allowed, refused, unreadable, daemon, editor, offers, rows, wanted, plugs, edits>>

DaemonLoads ==
  /\ \/ /\ Parse(disk[daemon.path]) # None
        /\ daemon' = [daemon EXCEPT !.config = Parse(disk[daemon.path])]
        /\ UNCHANGED rooted
     \/ /\ rooted < MaxRoot
        /\ rooted' = rooted + 1
        /\ \E path \in Path :
             /\ Parse(disk[path]) # None
             /\ daemon' = [path |-> path, config |-> Parse(disk[path])]
  /\ UNCHANGED <<plugged, allowed, refused, disk, unreadable, editor, offers, rows, wanted, plugs, edits>>

(* Devices come and go, and the daemon allows or refuses them.             *)
PlugDevice ==
  /\ plugs < MaxPlugs
  /\ plugs' = plugs + 1
  /\ \E p \in Port, id \in UsbId \cup {None} :
       /\ plugged' = [plugged EXCEPT ![p] = id]
       /\ refused' \in {refused, refused \cup ({id} \ {None})}
  /\ allowed' \in {allowed} \cup {{id} : id \in refused}
  /\ UNCHANGED <<disk, unreadable, daemon, editor, offers, rows, wanted, edits, rooted>>

---------------------------------------------------------------------------
Init ==
  /\ plugged = [p \in Port |-> None]
  /\ allowed = {} /\ refused = {}
  /\ disk \in Disks
  /\ unreadable \in SUBSET Path
  /\ \E path \in Path :
       /\ Parse(disk[path]) # None
       /\ daemon = [path |-> path, config |-> Parse(disk[path])]
  /\ editor = [path |-> None, loaded |-> Defaults, config |-> Defaults, read |-> FALSE, origin |-> None]
  /\ offers = [adds |-> {}, expansions |-> {}]
  /\ rows = [instances |-> [id \in UsbId |-> 0], shown |-> None, present |-> [id \in UsbId |-> 1]]
  /\ wanted = {}
  /\ plugs = 0 /\ edits = 0 /\ rooted = 0

Next ==
  \/ TypeEntry \/ RemoveEntry \/ EditField
  \/ ClickAdd \/ ClickExpand \/ ClickViolation
  \/ UpdateWindow \/ Paste \/ RootEdits \/ DaemonLoads \/ PlugDevice

Spec == Init /\ [][Next]_vars

============================================================================
