----------------------------- MODULE KillSpread -----------------------------
(***************************************************************************)
(* How a kill may spread over a mesh, with none of the packets: a machine  *)
(* is told only by one that names it as a peer and that began the kill or  *)
(* was told of it and passes kills on, and a machine that was told is the  *)
(* only one that goes down for it.                                         *)
(***************************************************************************)
CONSTANT Nodes

VARIABLES
  tells,         (* who may tell whom                                       *)
  silent,        (* the machines that neither go down nor pass a kill on    *)
  begun,         (* the machines that began a kill                          *)
  told,          (* the machines that were told of one                      *)
  felled         (* the machines their relay has brought down               *)

Init ==
  /\ tells \subseteq Nodes \X Nodes
  /\ silent \subseteq Nodes
  /\ begun = {} /\ told = {} /\ felled = {}

Begin(n) == begun' = begun \cup {n} /\ UNCHANGED <<told, felled>>

Tell(m, n) ==
  /\ m \in begun \/ m \in told \ silent
  /\ <<m, n>> \in tells
  /\ told' = told \cup {n}
  /\ UNCHANGED <<begun, felled>>

Fell(n) ==
  /\ n \in told \ silent
  /\ felled' = felled \cup {n}
  /\ UNCHANGED <<begun, told>>

Next ==
  /\ \E n \in Nodes : Begin(n) \/ Fell(n) \/ \E m \in Nodes : Tell(m, n)
  /\ UNCHANGED <<tells, silent>>

Spec == Init /\ [][Next]_<<tells, silent, begun, told, felled>>

============================================================================
