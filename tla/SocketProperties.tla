-------------------------- MODULE SocketProperties --------------------------
(***************************************************************************)
(* What the threads around the control socket have to keep true.           *)
(***************************************************************************)
EXTENDS SocketThreads

(* The guards are what the lock discipline of std allows, and no thread    *)
(* ends a request or a part of a poll with one in its hands.               *)
TypeOK ==
  /\ reads \in [Lock -> [Thread -> 0..2]]
  /\ owner \in [Lock -> Thread \cup {None}]
  /\ \A l \in Lock, t \in Thread :
       /\ owner[l] # None => reads[l][t] = 0
       /\ program[t] = <<>> => reads[l][t] = 0 /\ owner[l] # t
  /\ stage \in DOMAIN Poll
  /\ require_auth \in BOOLEAN /\ halfway \in BOOLEAN
  /\ verdict \in [Handler -> {"none", "allowed", "refused"}]
  /\ subject \in [Handler -> Session \cup {None}]
  /\ waited \in [Handler -> Nat]

(* A status never reports a countdown next to a baseline that was taken    *)
(* after it began: it holds all three locks while it reads.                *)
StatusIsOneMoment == \A h \in Handler : At(h, "report") => ~halfway

(* The session polkit is asked about is the caller's own, although a pid   *)
(* may have been given to someone else since SO_PEERCRED was read.         *)
SubjectIsCallersOwn ==
  \A h \in Handler :
    call[h] = "CheckAuthorization" => subject[h] # None /\ SessionOwner[subject[h]] = Caller[h]

(* The patrol goes on, whoever is asked for a password and whatever the    *)
(* handlers are doing: only a kill sequence may keep the loop.             *)
PatrolGoesOn == []<>(stage = 1 \/ At("loop", "kill"))

(* Whoever asks for the state of the daemon is answered, in the middle of  *)
(* a kill sequence and beside any number of prompts: this is what the      *)
(* relay's watcher and the tray live on.                                   *)
StatusIsAnswered ==
  \A h \in Handler : request[h] \in {"status", "devices", "violations", "command"} ~> request[h] = None

---------------------------------------------------------------------------
(* authz.rs:93: METHOD_TIMEOUT is short of the client's wait, so that the  *)
(* refusal arrives before the client has given up.                         *)
RefusalBeatsClient ==
  \A h \in Handler : verdict[h] = "refused" => waited[h] <= AUTH_READ_TIMEOUT

============================================================================
