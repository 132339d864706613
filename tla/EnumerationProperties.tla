----------------------- MODULE EnumerationProperties -----------------------
(***************************************************************************)
(* What a walk may and may not make of a bus that changes under it.  The   *)
(* field id of an entry says what is really there: a device's identity, a  *)
(* link's state, whether a supply feeds the machine; no walk reads it.     *)
(***************************************************************************)
EXTENDS Enumeration

(* The entries that were there, unchanged and readable, all through.       *)
Steady == {e \in Shown : e \notin disturbed["walk"] /\ e \notin Part}
Told   == answer # None /\ answer # Err
SteadyWith(id) == {e \in Steady : hw[e].id = id}

(* Every device that was plugged in for the whole of a walk is in its      *)
(* snapshot, every instance of it; and what the snapshot holds besides is  *)
(* accounted for by the entries that changed under the walk.               *)
SteadyIsSeen ==
  Told =>
    /\ bus \in UsbBuses =>
         \A d \in UsbId : LET n == Cardinality(SteadyWith(d))
                          IN  answer[d] \in n..(n + Cardinality(disturbed["walk"]))
    /\ bus \in {"thunderbolt", "sdcard", "sdcard.bsd"} =>
         LET ids == {hw[e].id : e \in Steady} \ {None}
         IN  /\ ids \subseteq answer
             /\ Cardinality(answer \ ids) <= Cardinality(disturbed["walk"])

(* On a machine where nothing was plugged, pulled or misread since the     *)
(* baseline's walk began, a check finds nothing, even while permissions    *)
(* come and go on the buses that tell a refusal from an absence.  And a    *)
(* whitelist generated from a listing covers the machine it was taken on:  *)
(* until that machine changes, whatever the baseline is, a check finds     *)
(* nothing that was added.                                                 *)
StillIsQuiet ==
  /\ disturbed["baseline"] = {} => verdict = {}
  /\ disturbed["list"] = {} /\ bus \in IdBuses =>
       \A change \in verdict : change.kind \notin {"Added", "CountIncreased"}

(* "Battery" is never said of a machine one of whose supplies fed it all   *)
(* through the walk, "AC" never of one that nothing fed, and a link is     *)
(* reported lost only if it was down, or something happened to it; one     *)
(* that is down all through is.  A machine with a session that was locked  *)
(* all through is not called unlocked, and one that is called locked has a *)
(* session that is, or that changed.                                       *)
ReadingIsTrue ==
  Told =>
    /\ bus = "power" =>
         CASE answer = "Battery" -> SteadyWith("feeds") = {}
           [] answer = "Ac"      -> SteadyWith("feeds") # {} \/ disturbed["walk"] # {}
           [] OTHER              -> \A e \in Steady : hw[e].id # "feeds"
    /\ bus = "lock" =>
         CASE answer = "unlocked" -> SteadyWith("locked") = {}
           [] answer = "locked"   -> SteadyWith("locked") # {} \/ disturbed["walk"] # {}
           [] OTHER               -> SteadyWith("locked") \cup SteadyWith("unlocked") = {}
    /\ bus \in LinkBuses => \A e \in Steady : e \in DOMAIN answer /\ answer[e] = hw[e].id

---------------------------------------------------------------------------
(* power.rs:132: the answer is `Some(false)` "if all are unlocked", `None` *)
(* "on D-Bus errors".                                                      *)
UnlockedMeansAll ==
  bus = "lock" /\ answer = "unlocked" => \A r \in Rows(found) : r.values[2] = "unlocked"

============================================================================
