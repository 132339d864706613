---------------------------- MODULE MCRelayMesh ----------------------------
(***************************************************************************)
(* Three machines: a line, where the kill crosses two hops, and a ring     *)
(* with a send-only peer, where it comes round; and a dry run beside a     *)
(* machine that knows nobody.                                              *)
(***************************************************************************)
EXTENDS RelayProperties, TLC

CONSTANTS a, b, c

Nodes == {a, b, c}

Ascii == [hops |-> 0, width |-> 1, chars |-> 15]
Wide  == [hops |-> 0, width |-> 3, chars |-> 85]

Line ==
  [addressed |-> (a :> {b} @@ b :> {a, c} @@ c :> {}),
   known     |-> (a :> {b} @@ b :> {a, c} @@ c :> {b}),
   dry_run   |-> {},
   rehearsed |-> {},
   skew      |-> [n \in Nodes |-> 0],
   max_retries |-> 1]

Ring ==
  [addressed |-> (a :> {b, c} @@ b :> {a, c} @@ c :> {a}),
   known     |-> (a :> {b, c} @@ b :> {a, c} @@ c :> {a, b}),
   dry_run   |-> {},
   rehearsed |-> {},
   skew      |-> (a :> 0 @@ b :> 0 @@ c :> 1),
   max_retries |-> 0]

Reasons == {Wide}

Mixed == {(a :> m @@ b :> "enforce" @@ c :> "learn") : m \in {"absent", "enforce"}}

Rehearsal ==
  [addressed |-> (a :> {b, c} @@ b :> {a, c} @@ c :> {}),
   known     |-> (a :> {b, c} @@ b :> {a, c} @@ c :> {}),
   dry_run   |-> {b},
   rehearsed |-> {a},
   skew      |-> [n \in Nodes |-> 0],
   max_retries |-> 1]

MeshesToRun == {Line, Rehearsal, Ring}

(* Bounds: a begins one kill, and before it looks at its daemon, finds     *)
(* violations of its own, save in the rehearsal in learn mode, and is put  *)
(* in another mode, on the ring also when a kill is under way; the relays  *)
(* of b and c leave their daemons unwatched; that of b restarts on the     *)
(* line, where a packet comes to it twice; time passes on the ring.        *)
Calm ==
  /\ begun # {} => \A t \in {"trigger", "watcher"} : fan[a][t] # None \/ fan'[a][t] = None
  /\ loop'[a] = "local" => used = 0 /\ (mesh = Rehearsal \/ daemon'[a] = "learn")
  /\ daemon' # daemon =>
       \/ used = 0 /\ (mesh = Line => daemon'[a] # "disarmed")
       \/ /\ mesh = Ring /\ daemon'[a] # "disarmed"
          /\ handling[a] # None \/ kill_pending[a] \/ loop[a] # "idle"
  /\ \A n \in Nodes : last'[n] # last[n] => n = a /\ (used = 0 \/ last'[a] = None)
  /\ restarts' # restarts => mesh = Line /\ used # 0 /\ Restart(b)
  /\ \A n \in Nodes : ~(inbox'[n] \subseteq inbox[n]) /\ net' = net =>
       n = b /\ mesh = Line /\ used = 1
  /\ clock' # clock => mesh = Ring

============================================================================
