----------------------------- MODULE RelayProofs -----------------------------
(***************************************************************************)
(* The relays of a mesh, for every mesh, any number of machines and any    *)
(* loss, delay, duplication and reordering: types, acks, and the spread of *)
(* a kill.                                                                 *)
(***************************************************************************)
EXTENDS RelayProperties, FiniteSetTheorems, SequenceTheorems, TLAPS

LEMMA Bounds ==
  /\ PREFIX \in Nat /\ MAX_REASON_LEN \in Nat /\ TIMESTAMP_WINDOW \in Nat
  /\ MaxNonces \in Nat /\ MaxClock \in Nat /\ MaxRestarts \in Nat
  /\ NONCE_CACHE_SIZE \in Nat \ {0}
BY RelayAssumption

LEMMA MeshType ==
  ASSUME TypeOK
  PROVE  /\ mesh.addressed \in [Node -> SUBSET Node]
         /\ mesh.known \in [Node -> SUBSET Node]
         /\ mesh.dry_run \subseteq Node
         /\ mesh.skew \in [Node -> Int]
         /\ mesh.max_retries \in Nat
BY RelayAssumption DEF TypeOK, Mesh

(* A reason that is cut to the packet is a reason, however often it was    *)
(* relayed on before.                                                      *)
LEMMA CutType ==
  ASSUME NEW r \in Reason
  PROVE  Cut(r) \in Reason
<1> DEFINE room == TextRoom(r)
<1>1. r.hops \in Nat /\ r.width \in 1..4 /\ r.chars \in Nat
  BY DEF Reason
<1>2. room \in Nat
  <2> DEFINE prefixes == PREFIX * r.hops
  <2>1. prefixes \in Nat /\ MAX_REASON_LEN \in Nat
    BY <1>1, Bounds
  <2> HIDE DEF prefixes
  <2>2. (IF prefixes < MAX_REASON_LEN THEN MAX_REASON_LEN - prefixes ELSE 0) \in Nat
    BY <2>1
  <2> QED BY <2>2 DEF prefixes, TextRoom
<1> HIDE DEF room
<1>3. room \div r.width \in Nat
  BY <1>1, <1>2
<1> QED BY <1>1, <1>3 DEF room, Cut, Reason

LEMMA PacketType ==
  ASSUME TypeOK, NEW n \in Node, NEW to \in Node, NEW nonce \in Nonce, NEW r \in Reason
  PROVE  Packet(n, to, nonce, r) \in Kill
<1>1. Now(n) \in Int
  <2>1. mesh.skew[n] \in Int
    BY MeshType
  <2>2. clock \in Int
    BY Bounds DEF TypeOK, Clock
  <2> QED BY <2>1, <2>2 DEF Now
<1>2. Whole(r) \in BOOLEAN
  BY DEF Whole
<1> QED BY <1>1, <1>2, CutType DEF Packet, Kill

(* What a fan_out adds to the network, and leaves to its thread.           *)
LEMMA FanOutType ==
  ASSUME TypeOK, NEW n \in Node, NEW t \in Thread, NEW r \in Reason, NEW exclude,
         FanOut(n, t, r, exclude)
  PROVE  /\ used' \in 0..MaxNonces
         /\ net' \subseteq Kill
         /\ fan' \in [Node -> [Thread -> FanState \cup {None}]]
         /\ \A m \in Node, u \in Thread :
              fan'[m][u] # fan[m][u] => m = n /\ u = t /\ fan'[m][u].retry = 0
         /\ \A p \in net' \ net : p.from = n /\ p.to \in mesh.addressed[n]
         /\ \A m \in Node, u \in Thread :
              fan'[m][u] # fan[m][u] =>
                \A p \in fan'[m][u].packets : p.from = n /\ p.to \in mesh.addressed[n]
<1> DEFINE targets == mesh.addressed[n] \ exclude
           packets == {Packet(n, p, used + 1, r) : p \in targets}
           state   == [nonce |-> used + 1, packets |-> packets, acked |-> {}, retry |-> 0]
<1>1. CASE UNCHANGED <<fan, used, net>>
  BY <1>1 DEF TypeOK
<1>2. CASE /\ used < MaxNonces /\ used' = used + 1
           /\ fan' = [fan EXCEPT ![n][t] = state] /\ net' = net \cup packets
  <2>1. used + 1 \in Nonce /\ used' \in 0..MaxNonces
    BY <1>2, Bounds DEF TypeOK, Nonce
  <2>2. targets \subseteq Node
    BY MeshType
  <2>3. packets \subseteq Kill
    BY <2>1, <2>2, PacketType
  <2>4. \A p \in packets : p.from = n /\ p.to \in mesh.addressed[n]
    BY DEF Packet
  <2> HIDE DEF packets
  <2>5. state \in FanState
    BY <2>1, <2>3 DEF FanState
  <2>6. state.retry = 0 /\ state.packets = packets
    OBVIOUS
  <2> HIDE DEF state
  <2>7. fan' \in [Node -> [Thread -> FanState \cup {None}]] /\ net' \subseteq Kill
    BY <1>2, <2>3, <2>5 DEF TypeOK
  <2>8. \A m \in Node, u \in Thread : fan'[m][u] # fan[m][u] => m = n /\ u = t /\ fan'[m][u] = state
    BY <1>2 DEF TypeOK
  <2> QED BY <1>2, <2>1, <2>4, <2>6, <2>7, <2>8
<1>3. \/ UNCHANGED <<fan, used, net>>
      \/ /\ used < MaxNonces /\ used' = used + 1
         /\ fan' = [fan EXCEPT ![n][t] = state] /\ net' = net \cup fan'[n][t].packets
  BY DEF FanOut, SendToPeers
<1>4. fan' = [fan EXCEPT ![n][t] = state] => fan'[n][t].packets = packets
  BY DEF TypeOK
<1> QED BY <1>1, <1>2, <1>3, <1>4

---------------------------------------------------------------------------
(* The type invariant, one action at a time.                               *)
LEMMA InitTypes == Init => TypeOK
<1> SUFFICES ASSUME Init PROVE TypeOK
  OBVIOUS
<1>1. clock \in Clock /\ used \in 0..MaxNonces
  BY Bounds DEF Init, Clock
<1>2. seen \in [Node -> Seq(Nonce)]
  BY DEF Init
<1>3. fan \in [Node -> [Thread -> FanState \cup {None}]] /\ \A n \in Node, t \in Thread : fan[n][t] = None
  BY DEF Init
<1>4. daemon \in [Node -> {"absent", "learn", "disarmed", "enforce"}]
  BY RelayAssumption DEF Init
<1> QED BY <1>1, <1>2, <1>3, <1>4 DEF Init, TypeOK

(* Of the retries, what is left to say when a fan_out changed no other.    *)
LEMMA FanOutRetries ==
  ASSUME TypeOK, UNCHANGED mesh, NEW n \in Node, NEW th \in Thread, NEW r \in Reason, NEW exclude,
         FanOut(n, th, r, exclude)
  PROVE  \A m \in Node, u \in Thread : fan'[m][u] # None => fan'[m][u].retry <= mesh'.max_retries
<1>1. mesh.max_retries \in Nat
  BY MeshType
<1>2. \A m \in Node, u \in Thread : fan'[m][u] # fan[m][u] => fan'[m][u].retry = 0
  BY FanOutType
<1>3. \A m \in Node, u \in Thread : fan[m][u] # None => fan[m][u].retry <= mesh.max_retries
  BY DEF TypeOK
<1> QED BY <1>1, <1>2, <1>3

LEMMA CollectAckTypes ==
  ASSUME TypeOK, NEW n \in Node, NEW t \in Thread, CollectAck(n, t)
  PROVE  TypeOK'
<1>1. PICK a \in acks :
        /\ fan[n][t] # None
        /\ acks' = acks \ {a}
        /\ fan' = [fan EXCEPT ![n][t].acked = @ \cup {a.from}]
        /\ confirmed' = confirmed \cup {[nonce |-> fan[n][t].nonce, from |-> a.from]}
  BY DEF CollectAck, CountAck
<1>2. fan[n][t] \in FanState /\ a \in Receipt
  BY <1>1 DEF TypeOK
<1> DEFINE new == [fan[n][t] EXCEPT !.acked = @ \cup {a.from}]
<1>3. new \in FanState /\ new.retry = fan[n][t].retry
  BY <1>2 DEF FanState, Receipt
<1>4. fan' = [fan EXCEPT ![n] = [fan[n] EXCEPT ![t] = new]]
  BY <1>1, <1>2 DEF TypeOK, FanState
<1> HIDE DEF new
<1>5. fan' \in [Node -> [Thread -> FanState \cup {None}]]
  BY <1>3, <1>4 DEF TypeOK
<1>6. \A m \in Node, u \in Thread : fan'[m][u] = fan[m][u] \/ (m = n /\ u = t /\ fan'[m][u] = new)
  BY <1>4 DEF TypeOK
<1>7. [nonce |-> fan[n][t].nonce, from |-> a.from] \in Receipt
  BY <1>2 DEF FanState, Receipt
<1>8. UNCHANGED <<mesh, clock, machine, last, handling, seen, used, accepted, told, begun, net,
                  inbox, restarts>>
  BY DEF CollectAck
<1>9. \A m \in Node, u \in Thread : fan'[m][u] # None => fan'[m][u].retry <= mesh'.max_retries
  BY <1>1, <1>3, <1>6, <1>8 DEF TypeOK
<1> QED BY <1>1, <1>5, <1>7, <1>8, <1>9 DEF TypeOK, machine

(* A pending packet is one of those already under way.                     *)
LEMMA AckDeadlineTypes ==
  ASSUME TypeOK, NEW n \in Node, NEW t \in Thread, AckDeadline(n, t)
  PROVE  TypeOK'
<1> DEFINE f == fan[n][t]
<1>1. f \in FanState /\ f.retry <= mesh.max_retries /\ mesh.max_retries \in Nat
  BY MeshType DEF TypeOK, AckDeadline
<1>2. UNCHANGED <<mesh, clock, machine, last, handling, seen, used, confirmed, accepted, told,
                  begun, inbox, acks, restarts>>
  BY DEF AckDeadline
<1>3. CASE fan' = [fan EXCEPT ![n][t] = None] /\ UNCHANGED net
  <2>1. fan' \in [Node -> [Thread -> FanState \cup {None}]]
    BY <1>3 DEF TypeOK
  <2>2. \A m \in Node, u \in Thread : fan'[m][u] = fan[m][u] \/ fan'[m][u] = None
    BY <1>3 DEF TypeOK
  <2> QED BY <1>2, <1>3, <2>1, <2>2 DEF TypeOK, machine
<1>4. CASE /\ ~LastTry(f)
           /\ fan' = [fan EXCEPT ![n][t].packets = Pending(f), ![n][t].retry = NextTry(f)]
           /\ SendToPeers(Pending(f))
  <2> DEFINE new == [f EXCEPT !.packets = Pending(f), !.retry = NextTry(f)]
  <2>1. Pending(f) \subseteq Kill
    BY <1>1 DEF Pending, FanState
  <2>2. f.retry \in Nat /\ f.retry < mesh.max_retries
    BY <1>1, <1>4 DEF LastTry, FanState
  <2>3. new \in FanState /\ new.retry = f.retry + 1
    <3>1. f.retry + 1 \in Nat /\ NextTry(f) = f.retry + 1
      BY <2>2 DEF NextTry
    <3> HIDE DEF f
    <3>2. new = [f EXCEPT !.packets = Pending(f), !.retry = f.retry + 1]
      BY <3>1
    <3> HIDE DEF new
    <3> QED BY <1>1, <2>1, <3>1, <3>2 DEF FanState
  <2>4. fan' = [fan EXCEPT ![n] = [fan[n] EXCEPT ![t] = new]]
    BY <1>1, <1>4 DEF TypeOK, FanState
  <2>5. net' \subseteq Kill
    BY <1>4, <2>1 DEF SendToPeers, TypeOK
  <2> HIDE DEF f, new
  <2>6. fan' \in [Node -> [Thread -> FanState \cup {None}]]
    BY <2>3, <2>4 DEF TypeOK
  <2>7. \A m \in Node, u \in Thread : fan'[m][u] = fan[m][u] \/ fan'[m][u] = new
    BY <2>4 DEF TypeOK
  <2>8. \A m \in Node, u \in Thread : fan'[m][u] # None => fan'[m][u].retry <= mesh'.max_retries
    <3>1. f.retry \in Nat /\ mesh.max_retries \in Nat /\ new.retry <= mesh.max_retries
      BY <1>1, <2>2, <2>3
    <3>2. \A m \in Node, u \in Thread : fan[m][u] # None => fan[m][u].retry <= mesh.max_retries
      BY DEF TypeOK
    <3> QED BY <1>2, <2>7, <3>1, <3>2
  <2> QED BY <1>2, <2>5, <2>6, <2>8 DEF TypeOK, machine
<1> QED BY <1>3, <1>4 DEF AckDeadline

LEMMA TriggerTypes ==
  ASSUME TypeOK, NEW n \in Node, Trigger(n)
  PROVE  TypeOK'
<1>1. PICK text \in Texts : FanOut(n, "trigger", text, {})
  BY DEF Trigger
<1>2. text \in Reason /\ "trigger" \in Thread
  BY RelayAssumption DEF Thread
<1>3. UNCHANGED mesh
  BY DEF Trigger
<1>4. /\ used' \in 0..MaxNonces /\ net' \subseteq Kill
      /\ fan' \in [Node -> [Thread -> FanState \cup {None}]]
      /\ \A m \in Node, u \in Thread : fan'[m][u] # None => fan'[m][u].retry <= mesh'.max_retries
  BY <1>1, <1>2, <1>3, FanOutType, FanOutRetries
<1> QED BY <1>4 DEF TypeOK, Trigger, machine

LEMMA PollDaemonTypes ==
  ASSUME TypeOK, NEW n \in Node, PollDaemon(n)
  PROVE  TypeOK'
<1>1. /\ used' \in 0..MaxNonces /\ net' \subseteq Kill
      /\ fan' \in [Node -> [Thread -> FanState \cup {None}]]
      /\ \A m \in Node, u \in Thread : fan'[m][u] # None => fan'[m][u].retry <= mesh'.max_retries
  <2>1. CASE FanOut(n, "watcher", LocalViolation, {})
    <3>1. LocalViolation \in Reason /\ "watcher" \in Thread /\ UNCHANGED mesh
      BY RelayAssumption DEF Thread, PollDaemon
    <3> QED BY <2>1, <3>1, FanOutType, FanOutRetries
  <2>2. CASE UNCHANGED <<fan, used, net>>
    BY <2>2 DEF TypeOK, PollDaemon
  <2> QED BY <2>1, <2>2 DEF PollDaemon
<1>2. begun' \subseteq Node
  BY DEF PollDaemon, TypeOK
<1>3. last' \in [Node -> Nat \cup {None}] /\ struck' \in [Node -> BOOLEAN]
  BY DEF PollDaemon, TypeOK
<1>4. UNCHANGED <<mesh, clock, power, daemon, kill_pending, loop, felled, spared, violations, handling,
                  seen, confirmed, accepted, told, inbox, acks, restarts>>
  BY DEF PollDaemon
<1> QED BY <1>1, <1>2, <1>3, <1>4 DEF TypeOK

(* What the listener remembers.                                            *)
LEMMA InsertType ==
  ASSUME NEW s \in Seq(Nonce), NEW nonce \in Nonce
  PROVE  Insert(s, nonce) \in Seq(Nonce)
<1>1. Len(s) >= NONCE_CACHE_SIZE => s # <<>>
  BY Bounds
<1>2. Len(s) >= NONCE_CACHE_SIZE => Tail(s) \in Seq(Nonce)
  BY <1>1
<1> QED BY <1>2 DEF Insert

LEMMA RelayOnType ==
  ASSUME NEW r \in Reason
  PROVE  RelayOn(r) \in Reason
BY DEF RelayOn, Reason

LEMMA AcceptTypes ==
  ASSUME TypeOK, UNCHANGED mesh, NEW n \in Node, NEW p \in Kill, Accept(n, p)
  PROVE  /\ seen' \in [Node -> Seq(Nonce)] /\ accepted' \in [Node -> SUBSET Nonce]
         /\ acks' \subseteq Receipt /\ told' \subseteq Receipt
         /\ handling' \in [Node -> Kill \cup {None}]
         /\ used' \in 0..MaxNonces /\ net' \subseteq Kill
         /\ fan' \in [Node -> [Thread -> FanState \cup {None}]]
         /\ \A m \in Node, u \in Thread : fan'[m][u] # None => fan'[m][u].retry <= mesh'.max_retries
<1>1. p.nonce \in Nonce /\ p.reason \in Reason
  BY DEF Kill
<1>2. Insert(seen[n], p.nonce) \in Seq(Nonce)
  BY <1>1, InsertType DEF TypeOK
<1>3. Ack(n, p) \in Receipt
  BY <1>1 DEF Ack, Receipt
<1>4. /\ seen' \in [Node -> Seq(Nonce)] /\ accepted' \in [Node -> SUBSET Nonce]
      /\ acks' \subseteq Receipt /\ told' \subseteq Receipt
  BY <1>1, <1>2, <1>3 DEF Accept, TypeOK
<1>5. CASE UNCHANGED <<handling, fan, used, net>>
  BY <1>4, <1>5 DEF TypeOK
<1>6. CASE /\ handling' = [handling EXCEPT ![n] = p]
           /\ FanOut(n, "listener", RelayOn(p.reason), {p.from})
  <2>1. RelayOn(p.reason) \in Reason /\ "listener" \in Thread
    BY <1>1, RelayOnType DEF Thread
  <2>2. handling' \in [Node -> Kill \cup {None}]
    BY <1>6 DEF TypeOK
  <2> QED BY <1>4, <1>6, <2>1, <2>2, FanOutType, FanOutRetries
<1> QED BY <1>5, <1>6 DEF Accept

LEMMA ReceiveTypes ==
  ASSUME TypeOK, NEW n \in Node, Receive(n)
  PROVE  TypeOK'
<1>1. PICK p \in inbox[n] :
        /\ inbox' = [inbox EXCEPT ![n] = @ \ {p}]
        /\ \/ Accept(n, p)
           \/ UNCHANGED <<seen, accepted, told, acks, handling, fan, used, net>>
  BY DEF Receive
<1>2. p \in Kill /\ inbox' \in [Node -> SUBSET Kill]
  BY <1>1 DEF TypeOK
<1>3. UNCHANGED <<mesh, clock, machine, last, confirmed, begun, restarts>>
  BY DEF Receive
<1>4. CASE UNCHANGED <<seen, accepted, told, acks, handling, fan, used, net>>
  BY <1>2, <1>3, <1>4 DEF TypeOK, machine
<1>5. CASE Accept(n, p)
  <2>1. /\ seen' \in [Node -> Seq(Nonce)] /\ accepted' \in [Node -> SUBSET Nonce]
        /\ acks' \subseteq Receipt /\ told' \subseteq Receipt
        /\ handling' \in [Node -> Kill \cup {None}]
        /\ used' \in 0..MaxNonces /\ net' \subseteq Kill
        /\ fan' \in [Node -> [Thread -> FanState \cup {None}]]
        /\ \A m \in Node, u \in Thread : fan'[m][u] # None => fan'[m][u].retry <= mesh'.max_retries
    BY <1>2, <1>3, <1>5, AcceptTypes
  <2> QED BY <1>2, <1>3, <2>1 DEF TypeOK, machine
<1> QED BY <1>1, <1>4, <1>5

(* The steps of a daemon: they touch no relay and no network.              *)
Patrols(n) == Kills(n) \/ SetMode(n) \/ DetectViolation(n) \/ StartDaemon(n)

LEMMA PatrolKeeps ==
  ASSUME NEW n \in Node, Patrols(n)
  PROVE  /\ UNCHANGED <<mesh, clock, felled, restarts>> /\ UNCHANGED relay /\ UNCHANGED traffic
         /\ UNCHANGED <<last, handling, seen, fan, used, confirmed, accepted, told, begun>>
         /\ UNCHANGED <<net, inbox, acks>>
<1>1. UNCHANGED <<mesh, clock, felled, restarts, relay, traffic>>
  BY DEF Patrols, Kills, DrainKill, HandleViolation, PowerOff, KillReturns, KillFails, SetMode,
         DetectViolation, StartDaemon
<1> QED BY <1>1 DEF relay, traffic

LEMMA PatrolTypes ==
  ASSUME TypeOK, NEW n \in Node, Patrols(n)
  PROVE  TypeOK'
<1>1. power' \in [Node -> {"on", "off"}]
  BY DEF TypeOK, Patrols, Kills, DrainKill, HandleViolation, PowerOff, KillReturns, KillFails,
         SetMode, DetectViolation, StartDaemon
<1>2. daemon' \in [Node -> {"absent", "learn", "disarmed", "enforce"}]
  BY DEF TypeOK, Patrols, Kills, DrainKill, HandleViolation, PowerOff, KillReturns, KillFails,
         SetMode, DetectViolation, StartDaemon
<1>3. kill_pending' \in [Node -> BOOLEAN]
  <2>1. kill_pending' \in {kill_pending, [kill_pending EXCEPT ![n] = FALSE]}
    BY DEF Patrols, Kills, DrainKill, HandleViolation, PowerOff, KillReturns, KillFails,
           SetMode, DetectViolation, StartDaemon
  <2> QED BY <2>1 DEF TypeOK
<1>4. loop' \in [Node -> {"idle", "local", "remote", "killing"}]
  <2>1. \/ loop' = loop
        \/ \E to \in {"idle", "local", "remote", "killing"} : loop' = [loop EXCEPT ![n] = to]
    BY DEF Patrols, Kills, DrainKill, HandleViolation, PowerOff, KillReturns, KillFails,
           SetMode, DetectViolation, StartDaemon
  <2> QED BY <2>1 DEF TypeOK
<1>5. violations' \in [Node -> Nat]
  <2>1. violations[n] + 1 \in Nat
    BY DEF TypeOK
  <2>2. violations' \in {violations, [violations EXCEPT ![n] = 0],
                         [violations EXCEPT ![n] = violations[n] + 1]}
    BY DEF Patrols, Kills, DrainKill, HandleViolation, PowerOff, KillReturns, KillFails,
           SetMode, DetectViolation, StartDaemon
  <2> QED BY <2>1, <2>2 DEF TypeOK
<1>6. spared' \in [Node -> BOOLEAN] /\ struck' \in [Node -> BOOLEAN]
  <2>1. (loop[n] = "remote" \/ spared[n]) \in BOOLEAN /\ (loop[n] = "local" \/ struck[n]) \in BOOLEAN
    BY DEF TypeOK
  <2>2. spared' \in {spared, [spared EXCEPT ![n] = TRUE],
                     [spared EXCEPT ![n] = loop[n] = "remote" \/ spared[n]]}
    BY DEF Patrols, Kills, DrainKill, HandleViolation, PowerOff, KillReturns, KillFails,
           SetMode, DetectViolation, StartDaemon
  <2>3. struck' \in {struck, [struck EXCEPT ![n] = loop[n] = "local" \/ struck[n]]}
    BY DEF Patrols, Kills, DrainKill, HandleViolation, PowerOff, KillReturns, KillFails,
           SetMode, DetectViolation, StartDaemon
  <2> QED BY <2>1, <2>2, <2>3 DEF TypeOK
<1> QED BY <1>1, <1>2, <1>3, <1>4, <1>5, <1>6, PatrolKeeps DEF TypeOK

(* The steps that send nothing.                                            *)
LEMMA RestTypes ==
  ASSUME TypeOK,
         \/ \E n \in Node : TriggerLocalKill(n) \/ Restart(n)
         \/ Arrive \/ Tick \/ UNCHANGED vars
  PROVE  TypeOK'
<1>1. ASSUME NEW n \in Node, TriggerLocalKill(n)
      PROVE  TypeOK'
  <2>1. (daemon[n] \in {"disarmed", "enforce"} \/ kill_pending[n]) \in BOOLEAN
    BY DEF TypeOK
  <2>2. kill_pending' \in [Node -> BOOLEAN]
    BY <1>1, <2>1 DEF TypeOK, TriggerLocalKill
  <2>6. felled' \in [Node -> BOOLEAN] /\ spared' \in [Node -> BOOLEAN]
    <3>1. spared' \in {spared, [spared EXCEPT ![n] = TRUE]} /\ felled' = [felled EXCEPT ![n] = TRUE]
      BY <1>1 DEF TriggerLocalKill
    <3> QED BY <3>1 DEF TypeOK
  <2>3. power' \in [Node -> {"on", "off"}] /\ violations' \in [Node -> Nat]
    BY <1>1 DEF TypeOK, TriggerLocalKill
  <2>4. handling' \in [Node -> Kill \cup {None}]
    BY <1>1 DEF TypeOK, TriggerLocalKill
  <2>5. UNCHANGED <<mesh, clock, daemon, loop, struck, last, seen, fan, used, confirmed, accepted,
                    told, begun, traffic, restarts>>
    BY <1>1 DEF TriggerLocalKill
  <2> QED BY <2>2, <2>3, <2>4, <2>5, <2>6 DEF TypeOK, traffic
<1>2. ASSUME NEW n \in Node, Restart(n)
      PROVE  TypeOK'
  <2>1. <<>> \in Seq(Nonce) /\ restarts' \in Nat
    BY <1>2 DEF TypeOK, Restart
  <2>2. /\ seen' \in [Node -> Seq(Nonce)] /\ accepted' \in [Node -> SUBSET Nonce]
        /\ last' \in [Node -> Nat \cup {None}] /\ handling' \in [Node -> Kill \cup {None}]
        /\ inbox' \in [Node -> SUBSET Kill]
    BY <1>2, <2>1 DEF TypeOK, Restart
  <2>3. fan' \in [Node -> [Thread -> FanState \cup {None}]]
    BY <1>2 DEF TypeOK, Restart
  <2>4. \A m \in Node, u \in Thread : fan'[m][u] \in {fan[m][u], None}
    BY <1>2 DEF TypeOK, Restart
  <2>5. UNCHANGED <<mesh, clock, machine, used, confirmed, told, begun, net, acks>>
    BY <1>2 DEF Restart
  <2> QED BY <2>1, <2>2, <2>3, <2>4, <2>5 DEF TypeOK, machine
<1>3. CASE Arrive
  <2>1. inbox' \in [Node -> SUBSET Kill] /\ net' \subseteq Kill
    BY <1>3 DEF Arrive, TypeOK, Kill
  <2>2. spared' \in [Node -> BOOLEAN]
    BY <1>3 DEF Arrive, TypeOK
  <2> QED BY <1>3, <2>1, <2>2 DEF TypeOK, Arrive, relay
<1>4. CASE Tick
  <2>1. clock' \in Clock
    BY <1>4, Bounds DEF Tick, TypeOK, Clock
  <2> QED BY <1>4, <2>1 DEF TypeOK, Tick, machine, relay, traffic
<1>5. CASE UNCHANGED vars
  BY <1>5 DEF TypeOK, vars, machine, relay, traffic
<1> QED BY <1>1, <1>2, <1>3, <1>4, <1>5

(* Types, for any mesh; and no fan_out gets past its last retry: broadcast *)
(* of plugkill-relay.                                                      *)
THEOREM RelayTypeCorrect == Spec => []TypeOK
<1>1. TypeOK /\ [Next]_vars => TypeOK'
  BY CollectAckTypes, AckDeadlineTypes, TriggerTypes, PollDaemonTypes, ReceiveTypes, RestTypes,
     PatrolTypes
  DEF Next, Relays, Patrols
<1> QED BY <1>1, InitTypes, PTL DEF Spec

---------------------------------------------------------------------------
(* An ack is sent by the node that took the kill it names, and only acks   *)
(* that were sent are counted.                                             *)
AckInv == acks \subseteq told /\ confirmed \subseteq told

LEMMA AckStep == TypeOK /\ AckInv /\ [Next]_vars => AckInv'
<1> SUFFICES ASSUME TypeOK, AckInv, [Next]_vars PROVE AckInv'
  OBVIOUS
<1>1. ASSUME NEW n \in Node, NEW t \in Thread, CollectAck(n, t)
      PROVE  AckInv'
  <2>1. PICK a \in acks :
          /\ fan[n][t].nonce = a.nonce
          /\ acks' = acks \ {a}
          /\ confirmed' = confirmed \cup {[nonce |-> fan[n][t].nonce, from |-> a.from]}
    BY <1>1 DEF CollectAck, CountAck
  <2>2. a = [nonce |-> fan[n][t].nonce, from |-> a.from]
    BY <2>1 DEF TypeOK, Receipt
  <2>3. UNCHANGED told
    BY <1>1 DEF CollectAck
  <2> QED BY <2>1, <2>2, <2>3 DEF AckInv
<1>2. ASSUME NEW n \in Node, Receive(n)
      PROVE  AckInv'
  BY <1>2 DEF AckInv, Receive, Accept
<1>3. ASSUME NEW n \in Node,
             \/ \E t \in Thread : AckDeadline(n, t)
             \/ TriggerLocalKill(n) \/ PollDaemon(n) \/ Trigger(n) \/ Restart(n)
      PROVE  UNCHANGED <<acks, told, confirmed>>
  BY <1>3 DEF AckDeadline, TriggerLocalKill, PollDaemon, Trigger, Restart, relay, traffic
<1>4. Arrive \/ Tick \/ UNCHANGED vars => UNCHANGED <<acks, told, confirmed>>
  BY DEF Arrive, Tick, vars, relay, traffic
<1> QED BY <1>1, <1>2, <1>3, <1>4, PatrolKeeps DEF Next, Relays, Patrols, AckInv

(* Whatever the network does to acks, a peer is counted as having acked    *)
(* only the kill it did take: check_ack of sender.rs.                      *)
THEOREM AckCorrect == Spec => []AckIsTrue
<1>1. Init => AckInv
  BY DEF Init, AckInv
<1>2. AckInv => AckIsTrue
  BY DEF AckInv, AckIsTrue
<1> QED BY <1>1, <1>2, AckStep, RelayTypeCorrect, PTL DEF Spec

---------------------------------------------------------------------------
(* The cache has room for every kill there is: past that the listener      *)
(* forgets the oldest, and only the age of a packet keeps it out.          *)
CacheHoldsAll == MaxNonces <= NONCE_CACHE_SIZE

(* Then it holds what the process accepted, each nonce in one place.       *)
MemoryOf(n) ==
  /\ IsFiniteSet(accepted[n])
  /\ Cardinality(accepted[n]) = Len(seen[n])
  /\ \A x \in Nonce : x \in accepted[n] <=> \E i \in DOMAIN seen[n] : seen[n][i] = x

MemoryInv == \A n \in Node : MemoryOf(n)

(* A nonce that is not remembered is a new one, and there is room for it.  *)
LEMMA RoomForOne ==
  ASSUME CacheHoldsAll, TypeOK, NEW n \in Node, MemoryOf(n), NEW x \in Nonce, ~Remembered(n, x)
  PROVE  /\ x \notin accepted[n]
         /\ Len(seen[n]) < NONCE_CACHE_SIZE
<1>1. x \notin accepted[n]
  BY DEF MemoryOf, Remembered
<1>2. accepted[n] \subseteq Nonce /\ seen[n] \in Seq(Nonce)
  BY DEF TypeOK
<1>3. IsFiniteSet(Nonce) /\ Cardinality(Nonce) = MaxNonces
  BY Bounds, FS_Interval DEF Nonce
<1>4. Cardinality(accepted[n] \cup {x}) = Cardinality(accepted[n]) + 1
  BY <1>1, FS_AddElement DEF MemoryOf
<1>5. Cardinality(accepted[n] \cup {x}) <= MaxNonces
  BY <1>2, <1>3, FS_Subset
<1>6. Len(seen[n]) \in Nat
  BY <1>2
<1> QED BY <1>1, <1>4, <1>5, <1>6, Bounds DEF CacheHoldsAll, MemoryOf

LEMMA AcceptRemembers ==
  ASSUME CacheHoldsAll, TypeOK, MemoryInv, NEW n \in Node, NEW p \in Kill,
         ~Remembered(n, p.nonce), Accept(n, p)
  PROVE  MemoryInv'
<1> DEFINE x == p.nonce
<1>1. x \in Nonce
  BY DEF Kill
<1>2. x \notin accepted[n] /\ Len(seen[n]) < NONCE_CACHE_SIZE
  BY <1>1, RoomForOne DEF MemoryInv
<1>3. seen[n] \in Seq(Nonce) /\ accepted[n] \subseteq Nonce
  BY DEF TypeOK
<1> HIDE DEF x
<1>4. Insert(seen[n], x) = Append(seen[n], x)
  <2>1. Len(seen[n]) \in Nat /\ NONCE_CACHE_SIZE \in Nat
    BY <1>3, Bounds
  <2> QED BY <1>2, <2>1 DEF Insert
<1>5. seen'[n] = Append(seen[n], x) /\ accepted'[n] = accepted[n] \cup {x}
  BY <1>4 DEF Accept, TypeOK, x
<1>6. \A m \in Node \ {n} : seen'[m] = seen[m] /\ accepted'[m] = accepted[m]
  BY DEF Accept, TypeOK
<1>7. /\ Len(seen'[n]) = Len(seen[n]) + 1
      /\ \A y : (\E i \in DOMAIN seen'[n] : seen'[n][i] = y)
                  <=> y = x \/ \E i \in DOMAIN seen[n] : seen[n][i] = y
  BY <1>1, <1>3, <1>5, AppendProperties
<1>8. IsFiniteSet(accepted'[n]) /\ Cardinality(accepted'[n]) = Cardinality(accepted[n]) + 1
  <2>1. IsFiniteSet(accepted[n])
    BY DEF MemoryInv, MemoryOf
  <2>2. IsFiniteSet(accepted[n] \cup {x}) /\ Cardinality(accepted[n] \cup {x}) = Cardinality(accepted[n]) + 1
    BY <1>2, <2>1, FS_AddElement
  <2> QED BY <1>5, <2>2
<1>9. MemoryOf(n)'
  BY <1>5, <1>7, <1>8 DEF MemoryInv, MemoryOf
<1> QED BY <1>6, <1>9 DEF MemoryInv, MemoryOf

LEMMA MemoryStep == CacheHoldsAll /\ TypeOK /\ MemoryInv /\ [Next]_vars => MemoryInv'
<1> SUFFICES ASSUME CacheHoldsAll, TypeOK, MemoryInv, [Next]_vars PROVE MemoryInv'
  OBVIOUS
<1>1. ASSUME NEW n \in Node, Receive(n)
      PROVE  MemoryInv'
  <2>1. PICK p \in inbox[n] :
          \/ ~Remembered(n, p.nonce) /\ Accept(n, p)
          \/ UNCHANGED <<seen, accepted>>
    BY <1>1 DEF Receive, Passes
  <2>2. p \in Kill
    BY DEF TypeOK
  <2>3. CASE UNCHANGED <<seen, accepted>>
    BY <2>3 DEF MemoryInv, MemoryOf
  <2> QED BY <2>1, <2>2, <2>3, AcceptRemembers
<1>2. ASSUME NEW n \in Node, Restart(n)
      PROVE  MemoryInv'
  <2>1. seen'[n] = <<>> /\ accepted'[n] = {}
    BY <1>2 DEF Restart, TypeOK
  <2>2. \A m \in Node \ {n} : seen'[m] = seen[m] /\ accepted'[m] = accepted[m]
    BY <1>2 DEF Restart, TypeOK
  <2>3. MemoryOf(n)'
    BY <2>1, FS_EmptySet DEF MemoryOf
  <2> QED BY <2>2, <2>3 DEF MemoryInv, MemoryOf
<1>3. ASSUME NEW n \in Node,
             \/ \E t \in Thread : AckDeadline(n, t) \/ CollectAck(n, t)
             \/ TriggerLocalKill(n) \/ PollDaemon(n) \/ Trigger(n)
      PROVE  UNCHANGED <<seen, accepted>>
  BY <1>3 DEF AckDeadline, CollectAck, TriggerLocalKill, PollDaemon, Trigger, relay
<1>4. Arrive \/ Tick \/ UNCHANGED vars => UNCHANGED <<seen, accepted>>
  BY DEF Arrive, Tick, vars, relay
<1> QED BY <1>1, <1>2, <1>3, <1>4, PatrolKeeps DEF Next, Relays, Patrols, MemoryInv, MemoryOf

ActsOnNew ==
  \A n \in Node : handling[n] = None /\ handling'[n] # None => handling'[n].nonce \notin accepted[n]

LEMMA ActsOnNewStep == CacheHoldsAll /\ TypeOK /\ MemoryInv /\ [Next]_vars => ActsOnNew
<1> SUFFICES ASSUME CacheHoldsAll, TypeOK, MemoryInv, [Next]_vars,
                    NEW n \in Node, handling[n] = None, handling'[n] # None
             PROVE  handling'[n].nonce \notin accepted[n]
  BY DEF ActsOnNew
<1>1. Receive(n)
  <2>1. ASSUME NEW m \in Node, Receive(m)
        PROVE  m = n
    BY <2>1 DEF Receive, Accept, TypeOK
  <2>2. ASSUME NEW m \in Node, TriggerLocalKill(m) \/ Restart(m)
        PROVE  FALSE
    BY <2>2 DEF TriggerLocalKill, Restart, TypeOK
  <2>3. ASSUME NEW m \in Node,
               \/ \E t \in Thread : AckDeadline(m, t) \/ CollectAck(m, t)
               \/ PollDaemon(m) \/ Trigger(m)
        PROVE  UNCHANGED handling
    BY <2>3 DEF AckDeadline, CollectAck, PollDaemon, Trigger, relay
  <2>4. Arrive \/ Tick \/ UNCHANGED vars => UNCHANGED handling
    BY DEF Arrive, Tick, vars, relay
  <2> QED BY <2>1, <2>2, <2>3, <2>4, PatrolKeeps DEF Next, Relays, Patrols
<1>2. PICK p \in inbox[n] : ~Remembered(n, p.nonce) /\ handling' = [handling EXCEPT ![n] = p]
  BY <1>1 DEF Receive, Passes, Accept
<1>3. p \in Kill /\ handling'[n] = p
  BY <1>2 DEF TypeOK
<1> QED BY <1>2, <1>3, RoomForOne DEF MemoryInv, Kill

(* A kill that is sent again or delivered twice is acted on once, by every *)
(* process that has room for all the nonces: check_and_insert of           *)
(* crypto.rs, called before the listener acts.                             *)
THEOREM ActsOnceCorrect ==
  ASSUME CacheHoldsAll
  PROVE  Spec => ActsOnce
<1>1. Init => MemoryInv
  BY FS_EmptySet DEF Init, MemoryInv, MemoryOf
<1>2. TypeOK /\ MemoryInv /\ [Next]_vars => MemoryInv'
  BY MemoryStep
<1>3. TypeOK /\ MemoryInv /\ [Next]_vars => [ActsOnNew]_vars
  BY ActsOnNewStep
<1> QED BY <1>1, <1>2, <1>3, RelayTypeCorrect, PTL DEF Spec, ActsOnce, ActsOnNew
---------------------------------------------------------------------------
(* The path of a kill.  A packet, wherever it is, is from a machine that   *)
(* may tell of a kill to one of its peers, and a listener that has a kill  *)
(* on its hands is on a machine that was told and is not in a dry run.     *)
ToldNodes == {r.from : r \in told}

Teller(n) == n \in begun \/ n \in ToldNodes \ mesh.dry_run

Rightful(p) == p.to \in mesh.addressed[p.from] /\ Teller(p.from)

PathInv ==
  /\ \A p \in net : Rightful(p)
  /\ \A n \in Node : \A p \in inbox[n] : p.to = n /\ Rightful(p)
  /\ \A n \in Node, t \in Thread : fan[n][t] # None => \A p \in fan[n][t].packets : Rightful(p)
  /\ \A n \in Node : handling[n] # None => n \in ToldNodes \ mesh.dry_run

LEMMA StaysRightful ==
  ASSUME UNCHANGED mesh, begun \subseteq begun', told \subseteq told'
  PROVE  /\ ToldNodes \subseteq ToldNodes'
         /\ \A p : Rightful(p) => Rightful(p)'
BY DEF Rightful, Teller, ToldNodes

(* What the machine sends that may tell is rightful.                       *)
LEMMA SentRightful ==
  ASSUME TypeOK, PathInv, UNCHANGED mesh, begun \subseteq begun', told \subseteq told',
         NEW n \in Node, NEW t \in Thread, NEW r \in Reason, NEW exclude,
         FanOut(n, t, r, exclude), Teller(n)'
  PROVE  /\ \A p \in net' : Rightful(p)'
         /\ \A m \in Node, u \in Thread :
              fan'[m][u] # None => \A p \in fan'[m][u].packets : Rightful(p)'
<1>1. \A p : Rightful(p) => Rightful(p)'
  BY StaysRightful
<1>2. \A p : p.from = n /\ p.to \in mesh.addressed[n] => Rightful(p)'
  BY DEF Rightful
<1>3. /\ \A p \in net' \ net : p.from = n /\ p.to \in mesh.addressed[n]
      /\ \A m \in Node, u \in Thread :
           fan'[m][u] # fan[m][u] =>
             \A p \in fan'[m][u].packets : p.from = n /\ p.to \in mesh.addressed[n]
  BY FanOutType
<1> QED BY <1>1, <1>2, <1>3 DEF PathInv

LEMMA ToldGrows ==
  ASSUME NEW n, NEW p, told' = told \cup {Ack(n, p)}
  PROVE  ToldNodes' = ToldNodes \cup {n}
<1> DEFINE ack == Ack(n, p)
<1>1. ack.from = n
  BY DEF Ack
<1> HIDE DEF ack
<1>2. told' = told \cup {ack}
  BY DEF ack
<1> QED BY <1>1, <1>2 DEF ToldNodes

LEMMA AcceptPath ==
  ASSUME TypeOK, PathInv, UNCHANGED <<mesh, begun>>, NEW n \in Node, NEW p \in Kill, Accept(n, p)
  PROVE  /\ \A q \in net' : Rightful(q)'
         /\ \A m \in Node, u \in Thread :
              fan'[m][u] # None => \A q \in fan'[m][u].packets : Rightful(q)'
         /\ \A m \in Node : handling'[m] # None => m \in ToldNodes' \ mesh'.dry_run
<1>1. told' = told \cup {Ack(n, p)}
  BY DEF Accept
<1>2. n \in ToldNodes' /\ ToldNodes \subseteq ToldNodes' /\ \A q : Rightful(q) => Rightful(q)'
  BY <1>1, ToldGrows, StaysRightful
<1>3. CASE UNCHANGED <<handling, fan, net>>
  BY <1>2, <1>3 DEF PathInv
<1>4. CASE /\ n \notin mesh.dry_run
           /\ handling' = [handling EXCEPT ![n] = p]
           /\ FanOut(n, "listener", RelayOn(p.reason), {p.from})
  <2>1. RelayOn(p.reason) \in Reason /\ "listener" \in Thread
    BY RelayOnType DEF Kill, Thread
  <2>2. Teller(n)'
    BY <1>2, <1>4 DEF Teller
  <2>3. \A m \in Node : handling'[m] # None => m = n \/ handling[m] # None
    BY <1>4 DEF TypeOK
  <2> QED BY <1>1, <1>2, <1>4, <2>1, <2>2, <2>3, SentRightful DEF PathInv
<1> QED BY <1>3, <1>4 DEF Accept

LEMMA PathStep == TypeOK /\ PathInv /\ [Next]_vars => PathInv'
<1> SUFFICES ASSUME TypeOK, PathInv, [Next]_vars PROVE PathInv'
  OBVIOUS
<1>1. ASSUME NEW n \in Node, Trigger(n)
      PROVE  PathInv'
  <2>1. PICK text \in Texts : FanOut(n, "trigger", text, {})
    BY <1>1 DEF Trigger
  <2>2. text \in Reason /\ "trigger" \in Thread
    BY RelayAssumption DEF Thread
  <2>3. /\ UNCHANGED <<mesh, told, inbox, handling>>
        /\ begun' = begun \cup {n}
    BY <1>1 DEF Trigger
  <2>4. Teller(n)'
    BY <2>3 DEF Teller
  <2> QED BY <2>1, <2>2, <2>3, <2>4, SentRightful, StaysRightful DEF PathInv
<1>2. ASSUME NEW n \in Node, PollDaemon(n)
      PROVE  PathInv'
  <2>1. UNCHANGED <<mesh, told, inbox, handling>> /\ begun \subseteq begun'
    BY <1>2 DEF PollDaemon
  <2>2. CASE begun' = begun \cup {n} /\ FanOut(n, "watcher", LocalViolation, {})
    <3>1. LocalViolation \in Reason /\ "watcher" \in Thread
      BY RelayAssumption DEF Thread
    <3>2. Teller(n)'
      BY <2>2 DEF Teller
    <3> QED BY <2>1, <2>2, <3>1, <3>2, SentRightful, StaysRightful DEF PathInv
  <2>3. CASE UNCHANGED <<fan, net>>
    BY <2>1, <2>3, StaysRightful DEF PathInv
  <2> QED BY <1>2, <2>2, <2>3 DEF PollDaemon
<1>3. ASSUME NEW n \in Node, Receive(n)
      PROVE  PathInv'
  <2>1. PICK p \in inbox[n] :
          /\ inbox' = [inbox EXCEPT ![n] = @ \ {p}]
          /\ Accept(n, p) \/ UNCHANGED <<told, handling, fan, net>>
    BY <1>3 DEF Receive
  <2>2. p \in Kill /\ UNCHANGED <<mesh, begun>> /\ \A m \in Node : inbox'[m] \subseteq inbox[m]
    BY <1>3, <2>1 DEF Receive, TypeOK
  <2>3. told \subseteq told'
    BY <2>1 DEF Accept
  <2>4. /\ \A q \in net' : Rightful(q)'
        /\ \A m \in Node, u \in Thread :
             fan'[m][u] # None => \A q \in fan'[m][u].packets : Rightful(q)'
        /\ \A m \in Node : handling'[m] # None => m \in ToldNodes' \ mesh'.dry_run
    BY <2>1, <2>2, <2>3, AcceptPath, StaysRightful DEF PathInv
  <2> QED BY <2>2, <2>3, <2>4, StaysRightful DEF PathInv
<1>4. ASSUME NEW n \in Node, NEW t \in Thread, CollectAck(n, t)
      PROVE  PathInv'
  <2>1. UNCHANGED <<mesh, begun, told, inbox, handling, net>>
    BY <1>4 DEF CollectAck
  <2>2. \A m \in Node, u \in Thread :
          fan'[m][u] # None => fan[m][u] # None /\ fan'[m][u].packets = fan[m][u].packets
    BY <1>4 DEF CollectAck, CountAck, TypeOK, FanState
  <2> QED BY <2>1, <2>2, StaysRightful DEF PathInv
<1>5. ASSUME NEW n \in Node, NEW t \in Thread, AckDeadline(n, t)
      PROVE  PathInv'
  <2>1. UNCHANGED <<mesh, begun, told, inbox, handling>>
    BY <1>5 DEF AckDeadline
  <2>2. fan[n][t] # None /\ Pending(fan[n][t]) \subseteq fan[n][t].packets
    BY <1>5 DEF AckDeadline, Pending
  <2>3. net' \subseteq net \cup fan[n][t].packets
    BY <1>5, <2>2 DEF AckDeadline, SendToPeers
  <2>4. \A m \in Node, u \in Thread :
          fan'[m][u] # None => fan[m][u] # None /\ fan'[m][u].packets \subseteq fan[m][u].packets
    <3> DEFINE new == [fan[n][t] EXCEPT !.packets = Pending(fan[n][t]), !.retry = NextTry(fan[n][t])]
    <3>1. fan[n][t] \in FanState
      BY <2>2 DEF TypeOK
    <3>2. new.packets = Pending(fan[n][t])
      BY <3>1 DEF FanState
    <3>3. \/ fan' = [fan EXCEPT ![n] = [fan[n] EXCEPT ![t] = None]]
          \/ fan' = [fan EXCEPT ![n] = [fan[n] EXCEPT ![t] = new]]
      <4>1. CASE fan' = [fan EXCEPT ![n][t] = None]
        BY <4>1 DEF TypeOK
      <4>2. CASE fan' = [fan EXCEPT ![n][t].packets = Pending(fan[n][t]),
                                    ![n][t].retry = NextTry(fan[n][t])]
        BY <3>1, <4>2 DEF TypeOK, FanState
      <4> QED BY <1>5, <4>1, <4>2 DEF AckDeadline
    <3> HIDE DEF new
    <3>4. \A m \in Node, u \in Thread :
            \/ fan'[m][u] \in {fan[m][u], None}
            \/ m = n /\ u = t /\ fan'[m][u] = new
      BY <3>3 DEF TypeOK
    <3> QED BY <2>2, <3>2, <3>4
  <2> QED BY <2>1, <2>2, <2>3, <2>4, StaysRightful DEF PathInv
<1>6. ASSUME NEW n \in Node, TriggerLocalKill(n) \/ Restart(n)
      PROVE  PathInv'
  <2>1. UNCHANGED <<mesh, begun, told, net>>
    BY <1>6 DEF TriggerLocalKill, Restart, traffic
  <2>2. \A m \in Node : handling'[m] # None => handling[m] # None
    BY <1>6 DEF TriggerLocalKill, Restart, TypeOK
  <2>3. \A m \in Node : inbox'[m] \subseteq inbox[m]
    BY <1>6 DEF TriggerLocalKill, Restart, TypeOK, traffic
  <2>4. \A m \in Node, u \in Thread : fan'[m][u] # None => fan'[m][u] = fan[m][u]
    <3>1. CASE Restart(n)
      <4>1. fan' = [fan EXCEPT ![n]["listener"] = None, ![n]["watcher"] = None]
        BY <3>1 DEF Restart
      <4> QED BY <4>1 DEF TypeOK
    <3>2. CASE TriggerLocalKill(n)
      BY <3>2 DEF TriggerLocalKill
    <3> QED BY <1>6, <3>1, <3>2
  <2> QED BY <2>1, <2>2, <2>3, <2>4, StaysRightful DEF PathInv
<1>7. CASE Arrive
  <2>1. PICK p \in net : inbox' = [inbox EXCEPT ![p.to] = @ \cup {p}] /\ net' \in {net, net \ {p}}
    BY <1>7 DEF Arrive
  <2>2. UNCHANGED <<mesh, begun, told, handling, fan>>
    BY <1>7 DEF Arrive, relay
  <2>3. \A m \in Node : \A q \in inbox'[m] : q \in inbox[m] \/ (q = p /\ m = p.to)
    BY <2>1 DEF TypeOK
  <2> QED BY <2>1, <2>2, <2>3, StaysRightful DEF PathInv
<1>8. ASSUME (\E n \in Node : Patrols(n)) \/ Tick \/ UNCHANGED vars
      PROVE  PathInv'
  <2>1. UNCHANGED <<mesh, begun, told, handling, fan, net, inbox>>
    BY <1>8, PatrolKeeps DEF Tick, vars, relay, traffic
  <2> QED BY <2>1, StaysRightful DEF PathInv
<1> QED BY <1>1, <1>2, <1>3, <1>4, <1>5, <1>6, <1>7, <1>8 DEF Next, Relays, Patrols

(* Every step of the relays is one of the spread, or none.                 *)
Tells == {w \in Node \X Node : w[2] \in mesh.addressed[w[1]] /\ w[1] \in mesh.known[w[2]]}

FelledNodes == {n \in Node : felled[n]}

SpreadStep == [Spread!Next]_<<Tells, mesh.dry_run, begun, ToldNodes, FelledNodes>>

LEMMA ReceiveSpreads ==
  ASSUME TypeOK, PathInv, NEW n \in Node, Receive(n)
  PROVE  SpreadStep
<1>1. PICK p \in inbox[n] : \/ Valid(n, p) /\ told' = told \cup {Ack(n, p)}
                            \/ UNCHANGED told
  BY DEF Receive, Accept, Passes
<1>2. UNCHANGED <<mesh, begun, felled>>
  BY DEF Receive, machine
<1>3. CASE UNCHANGED told
  BY <1>2, <1>3 DEF SpreadStep, Tells, ToldNodes, FelledNodes
<1>4. CASE Valid(n, p) /\ told' = told \cup {Ack(n, p)}
  <2>1. p \in Kill /\ p.to = n /\ Rightful(p)
    BY DEF TypeOK, PathInv
  <2>2. p.from \in Node /\ <<p.from, n>> \in Tells
    BY <1>4, <2>1 DEF Valid, Rightful, Tells, Kill
  <2>3. ToldNodes' = ToldNodes \cup {n}
    BY <1>4, ToldGrows
  <2>4. Spread!Tell(p.from, n)
    BY <1>2, <2>1, <2>2, <2>3
    DEF Spread!Tell, Rightful, Teller, Tells, ToldNodes, FelledNodes
  <2>5. UNCHANGED <<Tells, mesh.dry_run>>
    BY <1>2 DEF Tells
  <2> QED BY <2>2, <2>4, <2>5 DEF SpreadStep, Spread!Next, Tells
<1> QED BY <1>1, <1>3, <1>4

LEMMA BeginSpreads ==
  ASSUME NEW n \in Node, UNCHANGED <<mesh, told, felled>>, begun' \in {begun, begun \cup {n}}
  PROVE  SpreadStep
<1>1. UNCHANGED <<Tells, mesh.dry_run, ToldNodes, FelledNodes>>
  BY DEF Tells, ToldNodes, FelledNodes
<1>2. begun' = begun \cup {n} => Spread!Begin(n)
  BY <1>1 DEF Spread!Begin, ToldNodes, FelledNodes
<1> QED BY <1>1, <1>2 DEF SpreadStep, Spread!Next, Tells

LEMMA NextSpreads ==
  ASSUME TypeOK, PathInv, [Next]_vars
  PROVE  SpreadStep
<1>1. ASSUME NEW n \in Node, Trigger(n) \/ PollDaemon(n)
      PROVE  SpreadStep
  <2>1. UNCHANGED <<mesh, told, felled>> /\ begun' \in {begun, begun \cup {n}}
    BY <1>1 DEF Trigger, PollDaemon, machine
  <2> QED BY <2>1, BeginSpreads
<1>2. ASSUME NEW n \in Node, TriggerLocalKill(n)
      PROVE  SpreadStep
  <2>1. UNCHANGED <<mesh, begun, told>> /\ felled' = [felled EXCEPT ![n] = TRUE]
    BY <1>2 DEF TriggerLocalKill
  <2>2. UNCHANGED <<Tells, mesh.dry_run, ToldNodes>>
    BY <2>1 DEF Tells, ToldNodes
  <2>3. FelledNodes' = FelledNodes \cup {n}
    BY <2>1 DEF FelledNodes, TypeOK
  <2>4. n \in ToldNodes \ mesh.dry_run
    BY <1>2 DEF TriggerLocalKill, PathInv
  <2>5. Spread!Fell(n)
    BY <2>1, <2>2, <2>3, <2>4 DEF Spread!Fell, FelledNodes, ToldNodes
  <2> QED BY <2>2, <2>5 DEF SpreadStep, Spread!Next, Tells
<1>3. ASSUME \/ \E n \in Node : \/ Restart(n) \/ Patrols(n)
                                \/ \E t \in Thread : CollectAck(n, t) \/ AckDeadline(n, t)
             \/ Arrive \/ Tick \/ UNCHANGED vars
      PROVE  SpreadStep
  <2>1. UNCHANGED <<mesh, begun, told, felled>>
    BY <1>3, PatrolKeeps
    DEF Restart, CollectAck, AckDeadline, Arrive, Tick, vars, machine, relay
  <2> QED BY <2>1 DEF SpreadStep, Tells, ToldNodes, FelledNodes
<1> QED BY <1>1, <1>2, <1>3, ReceiveSpreads DEF Next, Relays, Patrols

(* A kill spreads as KillSpread says: a machine is told only by one that   *)
(* has it for a peer, is its peer, and began the kill or was told of it    *)
(* outside of a dry run, and no relay brings down a machine that was not   *)
(* told: broadcast of sender.rs and the main loop of listener.rs.          *)
THEOREM SpreadRefinement == Spec => SpreadSpec
<1>1. Init => PathInv
  BY DEF Init, PathInv
<1>2. Init => Spread!Init
  BY RelayAssumption DEF Init, Spread!Init, Mesh
<1>3. TypeOK /\ PathInv /\ [Next]_vars =>
        [Spread!Next]_<<Tells, mesh.dry_run, begun, ToldNodes, FelledNodes>>
  BY NextSpreads DEF SpreadStep
<1> QED BY <1>1, <1>2, <1>3, PathStep, RelayTypeCorrect, PTL
        DEF Spec, SpreadSpec, Spread!Spec, Tells, ToldNodes, FelledNodes

=============================================================================
