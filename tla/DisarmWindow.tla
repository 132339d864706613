---------------------------- MODULE DisarmWindow ----------------------------
(***************************************************************************)
(* What arming and disarming promise, with none of the daemon's machinery. *)
(* What is accepted on each bus changes only while somebody holds a window *)
(* open, or in the settling that follows it.  While the machine is guarded *)
(* acceptance may be narrowed, begin on a bus that had none, or follow the *)
(* reading of a bus that is only monitored; nothing else is taken in.      *)
(***************************************************************************)
CONSTANTS
  Buses,
  Nothing,             (* what is accepted on a bus that is not watched     *)
  Narrower(_, _, _),   (* on a bus: the first accepts no more than the second *)
  Followed             (* the buses that are only monitored                 *)

VARIABLES phase, accepted

Guarded ==
  \A b \in Buses :
    \/ accepted'[b] = accepted[b]
    \/ accepted[b] = Nothing \/ accepted'[b] = Nothing
    \/ Narrower(b, accepted'[b], accepted[b])
    \/ b \in Followed

Init == phase = "settling" /\ \A b \in Buses : accepted[b] = Nothing

Guard  == phase = "guarding" /\ phase' = "guarding" /\ Guarded
Open   == phase' = "open" /\ (phase = "guarding" => Guarded)
Close  == phase = "open" /\ phase' = "settling"
Settle == phase = "settling" /\ phase' \in {"settling", "guarding"}
Stop   == phase' = "settling" /\ \A b \in Buses : accepted'[b] = Nothing

Next == Guard \/ Open \/ Close \/ Settle \/ Stop

Spec == Init /\ [][Next]_<<phase, accepted>>

============================================================================
