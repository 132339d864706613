-------------------------- MODULE RelayProperties --------------------------
(***************************************************************************)
(* What the relays of a mesh have to keep true.                            *)
(***************************************************************************)
EXTENDS RelayMesh

Receipt == [nonce : Nonce, from : Node]

FanState == [nonce : Nonce, packets : SUBSET Kill, acked : SUBSET Node, retry : Nat]

(* Types; a fan_out never gets past its last retry.                        *)
TypeOK ==
  /\ mesh \in Meshes
  /\ clock \in Clock
  /\ power \in [Node -> {"on", "off"}]
  /\ daemon \in [Node -> {"absent", "learn", "disarmed", "enforce"}]
  /\ kill_pending \in [Node -> BOOLEAN]
  /\ loop \in [Node -> {"idle", "local", "remote", "killing"}]
  /\ {struck, felled, spared} \subseteq [Node -> BOOLEAN]
  /\ violations \in [Node -> Nat]
  /\ last \in [Node -> Nat \cup {None}]
  /\ handling \in [Node -> Kill \cup {None}]
  /\ seen \in [Node -> Seq(Nonce)] /\ accepted \in [Node -> SUBSET Nonce]
  /\ fan \in [Node -> [Thread -> FanState \cup {None}]]
  /\ \A n \in Node, t \in Thread : fan[n][t] # None => fan[n][t].retry <= mesh.max_retries
  /\ used \in 0..MaxNonces
  /\ net \subseteq Kill /\ inbox \in [Node -> SUBSET Kill]
  /\ acks \subseteq Receipt /\ confirmed \subseteq Receipt /\ told \subseteq Receipt
  /\ begun \subseteq Node
  /\ restarts \in Nat

(* A peer fan_out reports as having acked did take that very kill, however *)
(* late, doubled or crossed the acks of this fan_out and of others come in:*)
(* the ack carries the kill's nonce and check_ack compares it.             *)
AckIsTrue == confirmed \subseteq told

(* A kill that is sent again, or that the network delivers twice, is acted *)
(* on once by the process that took it: the nonce outlives the packet.     *)
ActsOnce ==
  [][\A n \in Node :
       handling[n] = None /\ handling'[n] # None => handling'[n].nonce \notin accepted[n]]_vars

(* Kills spread along configured peers only, and a dry run ends the chain. *)
Spread == INSTANCE KillSpread WITH
  Nodes  <- Node,
  tells  <- {w \in Node \X Node : w[2] \in mesh.addressed[w[1]] /\ w[1] \in mesh.known[w[2]]},
  silent <- mesh.dry_run,
  begun  <- begun,
  told   <- {r.from : r \in told},
  felled <- {n \in Node : felled[n]}

SpreadSpec == Spread!Spec

---------------------------------------------------------------------------
(* A good kill that reached a node's socket brings the machine down, even  *)
(* when it goes stale in the queue behind another one: then it is the      *)
(* other that does.  A listener blocked in fan_out, behind peers that      *)
(* never answer or are blocked the same way, gets out of it, and a daemon  *)
(* that will not have the kill is gone round.  Not where a relay died with *)
(* an acked kill in its hands; nor, and then it shows in spared, where the *)
(* daemon had said ok to it and was put in learn mode before it drained it *)
(* (main.rs:843 accepts that), runs dry itself, or the power stays on.     *)
HeardKillLands ==
  \A n \in Node :
    (/\ Alive(n) /\ n \notin mesh.dry_run
     /\ \E p \in inbox[n] : Passes(n, p))
      ~> (power[n] = "off" \/ spared[n] \/ restarts > 0)

---------------------------------------------------------------------------
(* watcher.rs:18: a violation seen in enforce mode since the last poll is  *)
(* reported by the next one, and the mesh is told.                         *)
PollReportsViolation ==
  [][\A n \in Node :
       struck[n] /\ ~struck'[n] /\ last[n] # None /\ mesh.addressed[n] # {} =>
         fan'[n]["watcher"] # None]_vars

============================================================================
