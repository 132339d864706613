--------------------------- MODULE ControlSocket ---------------------------
(***************************************************************************)
(* The control socket: one thread per connection, each reading a request,  *)
(* authorizing it, and running its handler under the state lock.  Asking   *)
(* polkit waits on a person and holds no lock, so a request that asks is   *)
(* authorized in one step and dispatched in a later one, with the poll     *)
(* loop and the other connections running in between.  One that asks       *)
(* nobody is one step: its first read, of require_auth, is taken with the  *)
(* handler's own.                                                          *)
(***************************************************************************)
EXTENDS DaemonState

CONSTANTS
  Conn,              (* connections to the socket                           *)
  Requests,          (* bound: the requests the clients send                *)
  Callers,           (* who connects: "root", or a "user" of the group      *)
  Verdicts,          (* the answers polkit gives: TRUE is authenticated     *)
  MAX_DISARM_SECS, MAX_PAIR_SECS

(* secs is the disarm timeout or the pairing window, for the --for expiry, *)
(* id the selector to revoke; each 0 or None where the command has none.   *)
Command == {"disarm", "arm", "learn", "enforce", "reload", "pair", "allow_last",
            "revoke", "revoke_all", "kill"}
Request == [cmd : Command, secs : Nat, for : Nat \cup {None}, id : DeviceRef \cup {None}]

ASSUME SocketAssumption ==
  /\ Requests \subseteq Request
  /\ None \notin Requests
  /\ Callers \subseteq {"root", "user"}
  /\ Verdicts \subseteq BOOLEAN
  /\ MAX_DISARM_SECS \in Nat
  /\ MAX_PAIR_SECS \in Nat

VARIABLE conns   (* connection -> the authorized request it is about to run *)

---------------------------------------------------------------------------
Gated_NotPair(req)   == req.cmd \in {"disarm", "learn", "reload", "allow_last"}   (* a bug *)
Gated_NotDisarm(req) == req.cmd \in {"learn", "reload", "allow_last", "pair"}     (* a bug *)

(* The commands that can stop a kill, or let a device through.             *)
Gated(req) ==
  \/ req.cmd \in {"disarm", "learn", "reload", "allow_last"}
  \/ req.cmd = "pair" /\ req.secs # 0

(* Root passes without asking; anything but an explicit yes is a refusal.  *)
Asks(req, caller) == Gated(req) /\ config.require_auth /\ caller # "root"

---------------------------------------------------------------------------
(* The handlers, each one critical section.  A refused request leaves the  *)
(* state alone and is no step.                                             *)
HandleDisarm(secs) ==
  /\ 0 < secs /\ secs <= MAX_DISARM_SECS
  /\ armed' = FALSE
  /\ disarm_until' = clock + secs
  /\ UNCHANGED <<mode, rebaseline_pending, reload_pending, kill_pending,
                 allowances, pairing, violations, violations_logged>>

(* a bug: the deadline outlives the disarm                                 *)
HandleArm_KeepsDeadline ==
  /\ armed' = TRUE
  /\ rebaseline_pending' = (rebaseline_pending \/ ~armed)
  /\ UNCHANGED <<mode, disarm_until, reload_pending, kill_pending, allowances, pairing,
                 violations, violations_logged>>

(* a bug: the re-arm does not ask for new baselines                        *)
HandleArm_NoRebaseline ==
  /\ armed' = TRUE
  /\ disarm_until' = None
  /\ UNCHANGED <<mode, rebaseline_pending, reload_pending, kill_pending, allowances, pairing,
                 violations, violations_logged>>

(* a bug: any arm re-captures, an armed daemon's too                       *)
HandleArm_Always ==
  /\ armed' = TRUE
  /\ disarm_until' = None
  /\ rebaseline_pending' = TRUE
  /\ UNCHANGED <<mode, reload_pending, kill_pending, allowances, pairing,
                 violations, violations_logged>>

HandleArm ==
  /\ armed' = TRUE
  /\ disarm_until' = None
  /\ rebaseline_pending' = (rebaseline_pending \/ ~armed)
  /\ UNCHANGED <<mode, reload_pending, kill_pending, allowances, pairing,
                 violations, violations_logged>>

HandleMode(newMode) ==
  /\ mode' = newMode
  /\ UNCHANGED <<armed, disarm_until, rebaseline_pending, reload_pending,
                 kill_pending, allowances, pairing, violations, violations_logged>>

HandleReload ==
  /\ reload_pending' = TRUE
  /\ UNCHANGED <<armed, mode, disarm_until, rebaseline_pending, kill_pending,
                 allowances, pairing, violations, violations_logged>>

(* A second pair moves the deadline, and 0 closes the window.              *)
HandlePair(secs, for) ==
  /\ secs <= MAX_PAIR_SECS
  /\ for # 0
  /\ pairing' = IF secs = 0 THEN None ELSE [until |-> clock + secs, ttl |-> for]
  /\ UNCHANGED <<armed, mode, disarm_until, rebaseline_pending, reload_pending,
                 kill_pending, allowances, violations, violations_logged>>

(* The device behind the newest violation, when there is one to allow.     *)
LastDevice == IF violations = <<>> THEN None ELSE violations[1].id

HandleAllowLast(for) ==
  /\ for # 0
  /\ LastDevice # None
  /\ allowances' = [allowances EXCEPT ![LastDevice] = NewAllowance("Promoted", clock, for)]
  /\ UNCHANGED <<armed, mode, disarm_until, rebaseline_pending, reload_pending,
                 kill_pending, pairing, violations, violations_logged>>

HandleRevoke(ids) ==
  /\ \E d \in ids : allowances[d] # None
  /\ allowances' = [d \in DeviceRef |-> IF d \in ids THEN None ELSE allowances[d]]
  /\ UNCHANGED <<armed, mode, disarm_until, rebaseline_pending, reload_pending,
                 kill_pending, pairing, violations, violations_logged>>

(* The loop runs the sequence; learn mode counts the kill and refuses it,  *)
(* which makes the relay power the machine off itself.                     *)
HandleKill(caller) ==
  /\ caller = "root"
  /\ \/ /\ mode = "Learn"
        /\ violations_logged' = (violations_logged + 1) % LOG_WRAP
        /\ UNCHANGED kill_pending
     \/ /\ mode = "Enforce"
        /\ kill_pending' = TRUE
        /\ UNCHANGED violations_logged
  /\ UNCHANGED <<armed, mode, disarm_until, rebaseline_pending, reload_pending,
                 allowances, pairing, violations>>

Dispatch(req, caller) ==
  \/ req.cmd = "disarm"     /\ HandleDisarm(req.secs)
  \/ req.cmd = "arm"        /\ HandleArm
  \/ req.cmd = "learn"      /\ HandleMode("Learn")
  \/ req.cmd = "enforce"    /\ HandleMode("Enforce")
  \/ req.cmd = "reload"     /\ HandleReload
  \/ req.cmd = "pair"       /\ HandlePair(req.secs, req.for)
  \/ req.cmd = "allow_last" /\ HandleAllowLast(req.for)
  \/ req.cmd = "revoke"     /\ HandleRevoke({req.id})
  \/ req.cmd = "revoke_all" /\ HandleRevoke(DeviceRef)
  \/ req.cmd = "kill"       /\ HandleKill(caller)

---------------------------------------------------------------------------
(* The authority said yes, and the request waits for its handler to run.   *)
Authorize(c, req, caller, verdict) ==
  /\ Asks(req, caller)
  /\ conns[c] = None
  /\ verdict
  /\ conns' = [conns EXCEPT ![c] = req]
  /\ UNCHANGED sharedVars

(* What a handler answers with an error, its state untouched.              *)
Refused(req) ==
  \/ req.cmd = "disarm" /\ (req.secs = 0 \/ req.secs > MAX_DISARM_SECS)
  \/ req.cmd = "pair"   /\ (req.secs > MAX_PAIR_SECS \/ req.for = 0)
  \/ /\ req.cmd = "allow_last"
     /\ req.for = 0 \/ LastDevice = None

(* Its handler runs, or refuses.  No gated handler looks at the caller.    *)
RunAuthorized(c) ==
  /\ conns[c] # None
  /\ conns' = [conns EXCEPT ![c] = None]
  /\ \/ Dispatch(conns[c], "user")
     \/ Refused(conns[c]) /\ UNCHANGED sharedVars

(* A request that asks nobody goes straight through.                       *)
RunUnasked(c, req, caller) ==
  /\ ~Asks(req, caller)
  /\ conns[c] = None
  /\ Dispatch(req, caller)
  /\ UNCHANGED conns

(* Bound: a deadline past the horizon is not asked for.                    *)
WithinHorizon(req) ==
  /\ clock + req.secs <= Horizon
  /\ req.for # None => clock + req.for <= Horizon

SocketTypeOK == conns \in [Conn -> Requests \cup {None}]

============================================================================
