----------------------------- MODULE RelayMesh -----------------------------
(***************************************************************************)
(* The relays of a mesh of machines: the watcher and the listener of each, *)
(* the --trigger command, and a network that loses, delays, duplicates and *)
(* reorders what they send.  The daemon beside each relay is here only as  *)
(* far as the relay can see and drive it.                                  *)
(***************************************************************************)
EXTENDS Integers, Sequences, FiniteSets

CONSTANTS
  None,
  Node,
  Meshes,               (* the configurations a mesh may be run with        *)
  Daemons,              (* what the daemons beside them may be at first     *)
  Texts,                (* the reasons an operator gives to --trigger       *)
  LocalViolation,       (* the reason of the watcher                        *)
  PREFIX, MAX_REASON_LEN,
  TIMESTAMP_WINDOW, NONCE_CACHE_SIZE,
  Operated,             (* bound: the nodes where something begins          *)
  MayFailBind,          (* bound: the nodes where fan_out may get no socket *)
  Unreliable,           (* bound: the nodes where a power-off may fail      *)
  MaxNonces, MaxClock, MaxRestarts, MaxViolations   (* bounds *)

Thread == {"listener", "watcher", "trigger"}
Nonce  == 1..MaxNonces
Clock  == 0..MaxClock

(* A reason: a text of so many characters of so many bytes each, behind    *)
(* one "relay:" per hop.                                                   *)
Reason == [hops : Nat, width : 1..4, chars : Nat]

Kill == [nonce : Nonce, from : Node, to : Node, stamp : Int, reason : Reason,
         readable : BOOLEAN]

(* A peer without an address is send-only: it is heard and never sent to.  *)
(* A relay and the daemon beside it have a dry run each.                   *)
Mesh ==
  [addressed : [Node -> SUBSET Node], known : [Node -> SUBSET Node], dry_run : SUBSET Node,
   rehearsed : SUBSET Node, skew : [Node -> Int], max_retries : Nat]

(* validate: a relay does not start with anything else.                    *)
ValidMesh(m) ==
  /\ m.max_retries <= 10
  /\ \A n \in Node : m.addressed[n] \subseteq m.known[n]

ASSUME RelayAssumption ==
  /\ None \notin Node
  /\ Meshes \subseteq Mesh
  /\ \A m \in Meshes : ValidMesh(m) /\ \A n \in Node : n \notin m.addressed[n]
  /\ Daemons \subseteq [Node -> {"absent", "learn", "disarmed", "enforce"}]
  /\ Texts \cup {LocalViolation} \subseteq Reason
  /\ {PREFIX, MAX_REASON_LEN, TIMESTAMP_WINDOW, MaxNonces, MaxClock,
      MaxRestarts, MaxViolations} \subseteq Nat
  /\ NONCE_CACHE_SIZE \in Nat \ {0}
  /\ Operated \subseteq Node /\ MayFailBind \subseteq Node /\ Unreliable \subseteq Node

VARIABLES
  mesh,
  clock,
  power,        (* "on" or "off"                                            *)
  daemon,       (* "absent", "learn", "disarmed" or "enforce"               *)
  kill_pending, (* the kill its socket took and its loop has not drained    *)
  loop,         (* "idle", at a "local" or "remote" violation, or "killing" *)
  violations,   (* violations_logged                                        *)
  felled,       (* history: the relay has sent it a kill or powered it off  *)
  spared,       (* history: since the last kill came in, one was dropped,   *)
                (* run dry, or did not get the power off                    *)
  struck,       (* history: violations in enforce mode since the last poll  *)
  last,         (* the watcher's last_violations                            *)
  handling,     (* the kill the listener has accepted and not acted on      *)
  seen,         (* its nonce cache                                          *)
  fan,          (* the fan_out each thread is blocked in                    *)
  used,         (* nonces drawn                                             *)
  net, inbox,   (* kills under way, and received by each node's socket      *)
  acks,         (* acks under way: [nonce, from]                            *)
  confirmed,    (* history: the acks that were counted                      *)
  accepted,     (* the nonces its listener took for a kill since it started *)
  told, begun,  (* history: [nonce, from] of every kill taken by a node,    *)
                (* and the nodes that began one of their own                *)
  restarts

traffic == <<net, inbox, acks>>
relay   == <<last, handling, seen, fan, used, confirmed, accepted, told, begun>>
machine == <<power, daemon, kill_pending, loop, felled, spared, violations, struck>>
vars    == <<mesh, clock, machine, relay, traffic, restarts>>

---------------------------------------------------------------------------
(* serialize cuts the bytes of the reason, deserialize wants whole         *)
(* characters.                                                             *)
TextRoom(r) == IF PREFIX * r.hops < MAX_REASON_LEN THEN MAX_REASON_LEN - PREFIX * r.hops ELSE 0

Fits(r)  == r.width * r.chars <= TextRoom(r)
Cut(r)   == IF Fits(r) THEN r ELSE [r EXCEPT !.chars = TextRoom(r) \div r.width]
Whole(r) == Fits(r) \/ TextRoom(r) % r.width = 0

Now(n) == clock + mesh.skew[n]

Distance(s, t) == IF s < t THEN t - s ELSE s - t

Alive(n) == power[n] = "on"

---------------------------------------------------------------------------
(* fan_out: blocks the thread that calls it.                               *)
Packet(n, to, nonce, reason) ==
  [nonce |-> nonce, from |-> n, to |-> to, stamp |-> Now(n), reason |-> Cut(reason),
   readable |-> Whole(reason)]

(* send_to_peer: a name that does not resolve and a send that fails are    *)
(* packets that never arrive.                                              *)
SendToPeers(packets) == net' = net \cup packets

FanOut(n, t, reason, exclude) ==
  LET targets == mesh.addressed[n] \ exclude
  IN
  \/ /\ n \in MayFailBind \/ targets = {} \/ used = MaxNonces
     /\ UNCHANGED <<fan, used, net>>
  \/ /\ targets # {}
     /\ used < MaxNonces
     /\ used' = used + 1
     /\ fan' = [fan EXCEPT ![n][t] =
          [nonce |-> used + 1, packets |-> {Packet(n, p, used + 1, reason) : p \in targets},
           acked |-> {}, retry |-> 0]]
     /\ SendToPeers(fan'[n][t].packets)

CountAck_AnyNonce(n, t, a) == fan[n][t] # None   (* a bug *)

CountAck(n, t, a) ==
  /\ fan[n][t] # None
  /\ fan[n][t].nonce = a.nonce
  /\ a.from \in mesh.known[n]

CollectAck(n, t) ==
  /\ Alive(n)
  /\ \E a \in acks :
       /\ CountAck(n, t, a)
       /\ acks' = acks \ {a}
       /\ fan' = [fan EXCEPT ![n][t].acked = @ \cup {a.from}]
       /\ confirmed' = confirmed \cup {[nonce |-> fan[n][t].nonce, from |-> a.from]}
  /\ UNCHANGED <<mesh, clock, machine, last, handling, seen, used, accepted, told, begun,
                 net, inbox, restarts>>

Pending(f) == {p \in f.packets : p.to \notin f.acked}

LastTry_OneMore(f) == Pending(f) = {} \/ f.retry > mesh.max_retries   (* a bug *)

LastTry(f) == Pending(f) = {} \/ f.retry = mesh.max_retries

NextTry_Stuck(f) == f.retry   (* a bug *)

NextTry(f) == f.retry + 1

AckDeadline(n, t) ==
  /\ Alive(n)
  /\ fan[n][t] # None
  /\ \/ /\ LastTry(fan[n][t])
        /\ fan' = [fan EXCEPT ![n][t] = None]
        /\ UNCHANGED net
     \/ /\ ~LastTry(fan[n][t])
        /\ fan' = [fan EXCEPT ![n][t].packets = Pending(fan[n][t]), ![n][t].retry = NextTry(fan[n][t])]
        /\ SendToPeers(Pending(fan[n][t]))
  /\ UNCHANGED <<mesh, clock, machine, last, handling, seen, used, confirmed, accepted, told,
                 begun, inbox, acks, restarts>>

---------------------------------------------------------------------------
(* The --trigger command: a process of its own, without a listener.        *)
Trigger(n) ==
  /\ n \in Operated /\ Alive(n)
  /\ fan[n]["trigger"] = None
  /\ \E text \in Texts : FanOut(n, "trigger", text, {})
  /\ begun' = begun \cup {n}
  /\ UNCHANGED <<mesh, clock, machine, last, handling, seen, confirmed, accepted, told, inbox,
                 acks, restarts>>

(* One turn of the main thread: Watcher::poll and the fan_out it calls for.*)
Fires(n) ==
  /\ daemon[n] = "enforce"
  /\ last[n] # None
  /\ violations[n] > last[n]

PollDaemon(n) ==
  /\ Alive(n)
  /\ fan[n]["watcher"] = None
  /\ daemon[n] # "absent"
  /\ last' = [last EXCEPT ![n] = violations[n]]
  /\ struck' = [struck EXCEPT ![n] = FALSE]
  /\ \/ /\ Fires(n)
        /\ FanOut(n, "watcher", LocalViolation, {})
        /\ begun' = begun \cup {n}
     \/ /\ ~Fires(n)
        /\ UNCHANGED <<fan, used, net, begun>>
  /\ UNCHANGED <<mesh, clock, power, daemon, kill_pending, loop, felled, spared, violations, handling,
                 seen, confirmed, accepted, told, inbox, acks, restarts>>

---------------------------------------------------------------------------
(* NonceCache::check_and_insert.                                           *)
Remembered_Never(n, nonce) == FALSE   (* a bug *)

Remembered(n, nonce) == \E i \in DOMAIN seen[n] : seen[n][i] = nonce

Insert(s, nonce) == Append(IF Len(s) >= NONCE_CACHE_SIZE THEN Tail(s) ELSE s, nonce)

(* What the listener takes for a kill.                                     *)
Valid_AnySender(n, p) == p.readable /\ Distance(Now(n), p.stamp) <= TIMESTAMP_WINDOW   (* a bug *)

Valid(n, p) ==
  /\ p.readable
  /\ p.from \in mesh.known[n]
  /\ Distance(Now(n), p.stamp) <= TIMESTAMP_WINDOW

Passes(n, p) == Valid(n, p) /\ ~Remembered(n, p.nonce)

RelayOn(r) == [r EXCEPT !.hops = @ + 1]

(* send_ack: an ack is the nonce of the kill over the receiver's signature.*)
Ack(n, p) == [nonce |-> p.nonce, from |-> n]

(* The ack goes out before anything is done about the kill.                *)
Accept(n, p) ==
  /\ seen' = [seen EXCEPT ![n] = Insert(@, p.nonce)]
  /\ accepted' = [accepted EXCEPT ![n] = @ \cup {p.nonce}]
  /\ acks' = acks \cup {Ack(n, p)}
  /\ told' = told \cup {Ack(n, p)}
  /\ \/ /\ n \in mesh.dry_run
        /\ UNCHANGED <<handling, fan, used, net>>
     \/ /\ n \notin mesh.dry_run
        /\ handling' = [handling EXCEPT ![n] = p]
        /\ FanOut(n, "listener", RelayOn(p.reason), {p.from})

Receive(n) ==
  /\ Alive(n)
  /\ handling[n] = None
  /\ \E p \in inbox[n] :
       /\ inbox' = [inbox EXCEPT ![n] = @ \ {p}]
       /\ \/ Passes(n, p) /\ Accept(n, p)
          \/ ~Passes(n, p) /\ UNCHANGED <<seen, accepted, told, acks, handling, fan, used, net>>
  /\ UNCHANGED <<mesh, clock, machine, last, confirmed, begun, restarts>>

(* trigger_local_kill: anything but an ok from the daemon powers off, and  *)
(* what becomes of that is not looked at.                                  *)
Refused_Ignored(n) == daemon[n] = "absent"   (* a bug: only a dead socket counts *)

Refused(n) == daemon[n] \in {"absent", "learn"}

TriggerLocalKill(n) ==
  /\ Alive(n)
  /\ handling[n] # None
  /\ fan[n]["listener"] = None
  /\ handling' = [handling EXCEPT ![n] = None]
  /\ kill_pending' = [kill_pending EXCEPT ![n] = daemon[n] \in {"disarmed", "enforce"} \/ @]
  /\ violations' = [violations EXCEPT ![n] = IF daemon[n] = "learn" THEN @ + 1 ELSE @]
  /\ felled' = [felled EXCEPT ![n] = TRUE]
  /\ \/ /\ ~Refused(n)
        /\ UNCHANGED <<power, spared>>
     \/ /\ Refused(n)
        /\ power' = [power EXCEPT ![n] = "off"]
        /\ UNCHANGED spared
     \/ /\ Refused(n) /\ n \in Unreliable
        /\ spared' = [spared EXCEPT ![n] = TRUE]
        /\ UNCHANGED power
  /\ UNCHANGED <<mesh, clock, daemon, loop, struck, last, seen, fan, used, confirmed, accepted,
                 told, begun, traffic, restarts>>

---------------------------------------------------------------------------
(* The service manager starts a relay that died: what it knew is gone.     *)
Restart(n) ==
  /\ Alive(n)
  /\ restarts < MaxRestarts
  /\ restarts' = restarts + 1
  /\ last' = [last EXCEPT ![n] = None]
  /\ handling' = [handling EXCEPT ![n] = None]
  /\ seen' = [seen EXCEPT ![n] = <<>>]
  /\ fan' = [fan EXCEPT ![n]["listener"] = None, ![n]["watcher"] = None]
  /\ inbox' = [inbox EXCEPT ![n] = {}]
  /\ accepted' = [accepted EXCEPT ![n] = {}]
  /\ UNCHANGED <<mesh, clock, machine, used, confirmed, told, begun, net, acks>>

---------------------------------------------------------------------------
(* The daemon beside a relay.  A mode or arming command lands whenever it  *)
(* likes; learn mode is one here, armed or not.                            *)
SetMode(n) ==
  /\ n \in Operated /\ Alive(n)
  /\ daemon[n] # "absent"
  /\ \E to \in {"learn", "disarmed", "enforce"} \ {daemon[n]} :
       daemon' = [daemon EXCEPT ![n] = to]
  /\ UNCHANGED <<mesh, clock, power, kill_pending, loop, felled, spared, violations, struck, relay,
                 traffic, restarts>>

(* One poll of its loop.  A kill from the socket comes before the checks,  *)
(* armed or not.                                                           *)
DrainKill(n) ==
  /\ Alive(n)
  /\ loop[n] = "idle" /\ kill_pending[n]
  /\ loop' = [loop EXCEPT ![n] = "remote"]
  /\ kill_pending' = [kill_pending EXCEPT ![n] = FALSE]
  /\ UNCHANGED <<mesh, clock, power, daemon, felled, spared, violations, struck, relay, traffic,
                 restarts>>

DetectViolation(n) ==
  /\ n \in Operated /\ Alive(n)
  /\ loop[n] = "idle" /\ ~kill_pending[n]
  /\ daemon[n] \in {"learn", "enforce"}
  /\ violations[n] < MaxViolations
  /\ loop' = [loop EXCEPT ![n] = "local"]
  /\ UNCHANGED <<mesh, clock, power, daemon, kill_pending, felled, spared, violations, struck,
                 relay, traffic, restarts>>

(* handle_violation reads the mode again, however the violation came.      *)
HandleViolation(n) ==
  /\ Alive(n)
  /\ loop[n] \in {"local", "remote"}
  /\ \/ /\ daemon[n] = "learn"
        /\ loop' = [loop EXCEPT ![n] = "idle"]
        /\ violations' = [violations EXCEPT ![n] = @ + 1]
        /\ spared' = [spared EXCEPT ![n] = loop[n] = "remote" \/ @]
        /\ UNCHANGED struck
     \/ /\ daemon[n] # "learn"
        /\ loop' = [loop EXCEPT ![n] = "killing"]
        /\ struck' = [struck EXCEPT ![n] = loop[n] = "local" \/ @]
        /\ UNCHANGED <<violations, spared>>
  /\ UNCHANGED <<mesh, clock, power, daemon, kill_pending, felled, relay, traffic, restarts>>

(* execute_kill_sequence: the machine is off; or it came back, from a dry  *)
(* run or a power-off command that only said it went well, and the patrol  *)
(* goes on; or it failed and the daemon exits, with all it knew.           *)
PowerOff(n) ==
  /\ Alive(n) /\ loop[n] = "killing"
  /\ n \notin mesh.rehearsed
  /\ power' = [power EXCEPT ![n] = "off"]
  /\ UNCHANGED <<mesh, clock, daemon, kill_pending, loop, felled, spared, violations, struck, relay,
                 traffic, restarts>>

KillReturns(n) ==
  /\ Alive(n) /\ loop[n] = "killing"
  /\ n \in mesh.rehearsed \cup Unreliable
  /\ loop' = [loop EXCEPT ![n] = "idle"]
  /\ spared' = [spared EXCEPT ![n] = TRUE]
  /\ UNCHANGED <<mesh, clock, power, daemon, kill_pending, felled, violations, struck, relay,
                 traffic, restarts>>

KillFails(n) ==
  /\ Alive(n) /\ loop[n] = "killing"
  /\ n \in Unreliable \ mesh.rehearsed
  /\ daemon' = [daemon EXCEPT ![n] = "absent"]
  /\ kill_pending' = [kill_pending EXCEPT ![n] = FALSE]
  /\ loop' = [loop EXCEPT ![n] = "idle"]
  /\ violations' = [violations EXCEPT ![n] = 0]
  /\ spared' = [spared EXCEPT ![n] = TRUE]
  /\ UNCHANGED <<mesh, clock, power, felled, struck, relay, traffic, restarts>>

StartDaemon(n) ==
  /\ n \in Unreliable /\ Alive(n)
  /\ daemon[n] = "absent"
  /\ \E to \in {"learn", "enforce"} : daemon' = [daemon EXCEPT ![n] = to]
  /\ UNCHANGED <<mesh, clock, power, kill_pending, loop, felled, spared, violations, struck, relay,
                 traffic, restarts>>

---------------------------------------------------------------------------
(* The network: a packet that never arrives is lost, one that stays under  *)
(* way after it arrived may arrive again.                                  *)
Arrive ==
  /\ \E p \in net :
       /\ Alive(p.to)
       /\ inbox' = [inbox EXCEPT ![p.to] = @ \cup {p}]
       /\ net' \in {net, net \ {p}}
       /\ spared' = [spared EXCEPT ![p.to] = FALSE]
  /\ UNCHANGED <<mesh, clock, power, daemon, kill_pending, loop, felled, violations, struck, relay,
                 acks, restarts>>

(* A waiting listener reads within a second.                               *)
Tick ==
  /\ clock < MaxClock
  /\ \A n \in Node : Alive(n) /\ handling[n] = None => inbox[n] = {}
  /\ clock' = clock + 1
  /\ UNCHANGED <<mesh, machine, relay, traffic, restarts>>

---------------------------------------------------------------------------
Init ==
  /\ mesh \in Meshes
  /\ clock = 0
  /\ power = [n \in Node |-> "on"]
  /\ daemon \in Daemons
  /\ kill_pending = [n \in Node |-> FALSE]
  /\ loop = [n \in Node |-> "idle"]
  /\ felled = [n \in Node |-> FALSE]
  /\ spared = [n \in Node |-> FALSE]
  /\ violations = [n \in Node |-> 0]
  /\ struck = [n \in Node |-> FALSE]
  /\ last = [n \in Node |-> None]
  /\ handling = [n \in Node |-> None]
  /\ seen = [n \in Node |-> <<>>]
  /\ fan = [n \in Node |-> [t \in Thread |-> None]]
  /\ used = 0
  /\ net = {}
  /\ inbox = [n \in Node |-> {}]
  /\ acks = {}
  /\ confirmed = {}
  /\ accepted = [n \in Node |-> {}]
  /\ told = {}
  /\ begun = {}
  /\ restarts = 0

Relays(n) ==
  \/ \E t \in Thread : AckDeadline(n, t)
  \/ Receive(n) \/ TriggerLocalKill(n)

Kills(n) ==
  \/ DrainKill(n) \/ HandleViolation(n)
  \/ PowerOff(n) \/ KillReturns(n) \/ KillFails(n)

Next ==
  \/ \E n \in Node :
       \/ Relays(n) \/ PollDaemon(n)
       \/ \E t \in Thread : CollectAck(n, t)
       \/ Trigger(n) \/ Restart(n)
       \/ Kills(n) \/ SetMode(n) \/ DetectViolation(n) \/ StartDaemon(n)
  \/ Arrive \/ Tick

Spec == Init /\ [][Next]_vars

(* The relay's threads and the daemon's loop run and a fan_out's deadlines *)
(* pass; nothing is asked of the network, the clock or the operator.       *)
FairSpec == Spec /\ \A n \in Node : WF_vars(Relays(n)) /\ WF_vars(Kills(n))

============================================================================
