--------------------------- MODULE SocketThreads ---------------------------
(***************************************************************************)
(* The threads of the daemon and the three locks they share: the poll      *)
(* loop, one handler per connection, and the authority a handler waits on  *)
(* for a gated command.  A thread runs a program of lock steps, read off   *)
(* the source one call at a time; what happens under the locks is the      *)
(* business of PlugkillDaemon.                                             *)
(***************************************************************************)
EXTENDS Naturals, Sequences, FiniteSets

CONSTANTS
  None,
  Handler,
  Session, Uid,
  SessionOwner,        (* session -> uid                                    *)
  Caller,              (* handler -> the uid SO_PEERCRED gave               *)
  HasPid,              (* the handlers whose peer credentials carry a pid   *)
  Root,
  Lasts,               (* bound: how long an answer on the bus may take     *)
  METHOD_TIMEOUT, AUTH_READ_TIMEOUT

(* The calls of authorize on the system bus.                               *)
BusCall == {"GetSessionByPID", "User", "GetUser", "Id", "Display", "CheckAuthorization"}

ASSUME SocketAssumption ==
  /\ None \notin Session \cup Uid \cup Handler \cup BusCall \cup {"loop"}
  /\ "loop" \notin Handler
  /\ Root \in Uid
  /\ SessionOwner \in [Session -> Uid]
  /\ Caller \in [Handler -> Uid]
  /\ HasPid \subseteq Handler
  /\ METHOD_TIMEOUT \in Nat /\ AUTH_READ_TIMEOUT \in Nat
  /\ Lasts \subseteq 0..METHOD_TIMEOUT

Thread == Handler \cup {"loop"}
Lock   == {"config", "baselines", "state"}

VARIABLES
  program,      (* what is left of the program of each thread               *)
  stage,        (* the part of a poll the loop is in                        *)
  reads,        (* read guards of each lock held by each thread             *)
  owner,        (* who holds a lock for writing, or the mutex               *)
  halfway,      (* a baseline has been replaced and its countdown not yet   *)
  request,      (* what each handler is serving, or None                    *)
  require_auth, (* [general] require_auth                                   *)
  call,         (* the call on the system bus a handler waits for, or None  *)
  subject,      (* the session the authority works with, or None            *)
  verdict,      (* "none", "allowed" or "refused"                           *)
  waited        (* how long the bus has kept the client waiting             *)

locks  == <<reads, owner>>
asking == <<call, subject, verdict, waited>>
vars   == <<program, stage, locks, halfway, request, require_auth, asking>>

---------------------------------------------------------------------------
(* Lock steps.  A writer that waits turns new readers away, as std's       *)
(* RwLock does on Linux; "queue" is the moment it begins to wait.          *)
Read(l)   == <<[op |-> "read", lock |-> l]>>
Free(l)   == <<[op |-> "free", lock |-> l]>>
Mutex     == <<[op |-> "lock", lock |-> "state"]>>
Write(l)  == <<[op |-> "queue", lock |-> l], [op |-> "lock", lock |-> l]>>
Does(what) == <<[op |-> what, lock |-> None]>>

Brief(l)   == Read(l) \o Free(l)
TouchState == Mutex \o Free("state")

(* The handlers of socket.rs.                                              *)
StatusLocks_InTurn ==   (* a bug: one lock after the other *)
  Brief("config") \o Read("config") \o Brief("baselines") \o Mutex \o Does("report")
    \o Free("state") \o Free("config")

StatusLocks ==
  Brief("config") \o Read("config") \o Read("baselines") \o Mutex \o Does("report")
    \o Free("state") \o Free("baselines") \o Free("config")

AuthorizeLocks_Guarded ==   (* a bug: the guard lives through the prompt *)
  Read("config") \o Does("require_auth") \o Does("ask") \o Free("config")

AuthorizeLocks == Read("config") \o Does("require_auth") \o Free("config") \o Does("ask")

(* The buses are read with no lock held.                                   *)
DevicesLocks == Brief("config")

ViolationsLocks == TouchState

Programs ==
  [status     |-> StatusLocks,
   devices    |-> DevicesLocks,
   violations |-> ViolationsLocks,
   command    |-> TouchState,
   gated      |-> AuthorizeLocks \o Does("obey") \o TouchState]

ASSUME RequestAssumption == None \notin DOMAIN Programs

(* The parts of one poll, each with the ways it may go.                    *)
CaptureLocks ==
  Read("config") \o Write("baselines") \o TouchState \o Does("capture") \o Mutex
    \o Does("restart countdown") \o Free("state") \o Free("baselines") \o Free("config")

DetectLocks == Read("config") \o Read("baselines") \o TouchState \o Free("baselines") \o Free("config")

GraceLocks ==
  LET Monitored == Read("config") \o Brief("baselines") \o TouchState \o Write("baselines")
                     \o Free("baselines") \o Free("config")
      Counted   == Read("config") \o Brief("baselines") \o TouchState \o Free("config")
      Quiet     == Read("config") \o Read("baselines") \o TouchState \o Free("baselines")
                     \o Free("config")
  IN {Brief("config"), Monitored, Counted, Quiet}

DriftLocks ==   (* PCI and display *)
  {Brief("config"),
   Read("config") \o Read("baselines") \o TouchState \o Free("baselines") \o Write("baselines")
     \o Free("baselines") \o Free("config")}

ReloadLocks ==
  TouchState \o Write("config") \o Does("reload") \o Free("config") \o CaptureLocks

KillLocks ==
  TouchState \o Read("config") \o TouchState \o Free("config")
    \o Read("config") \o Does("kill") \o Brief("config") \o Free("config") \o Brief("config")

Poll ==
  <<{TouchState}, {<<>>, CaptureLocks}, {TouchState, ReloadLocks}, {Brief("config")},
    {<<>>, DetectLocks}, {<<>>} \cup GraceLocks, {<<>>} \cup DriftLocks,
    {<<>>, TouchState}, {<<>>, KillLocks}, {TouchState}>>

---------------------------------------------------------------------------
Next_step(t) == Head(program[t])

Advance(t) == program' = [program EXCEPT ![t] = Tail(@)]

At(t, op) == program[t] # <<>> /\ Next_step(t).op = op

WriterWaits(l) == \E t \in Thread : At(t, "lock") /\ Next_step(t).lock = l

Readable_NoneWaits(l) == ~WriterWaits(l)   (* a bug: a writer that is in does not count *)

Readable(l) == owner[l] = None /\ ~WriterWaits(l)

Take(t) ==
  LET l == Next_step(t).lock
  IN
  \/ /\ At(t, "read")
     /\ Readable(l)
     /\ reads' = [reads EXCEPT ![l][t] = @ + 1]
     /\ UNCHANGED owner
  \/ /\ At(t, "queue")
     /\ UNCHANGED locks
  \/ /\ At(t, "lock")
     /\ owner[l] = None
     /\ \A u \in Thread : reads[l][u] = 0
     /\ owner' = [owner EXCEPT ![l] = t]
     /\ UNCHANGED reads
  \/ /\ At(t, "free")
     /\ IF owner[l] = t
        THEN owner' = [owner EXCEPT ![l] = None] /\ UNCHANGED reads
        ELSE reads' = [reads EXCEPT ![l][t] = @ - 1] /\ UNCHANGED owner

LockStep(t) ==
  /\ program[t] # <<>>
  /\ Take(t)
  /\ Advance(t)
  /\ UNCHANGED <<stage, halfway, request, require_auth, asking>>

---------------------------------------------------------------------------
(* The poll loop, and what it does under its locks.                        *)
NextPart ==
  /\ program["loop"] = <<>>
  /\ stage' = IF stage = Len(Poll) THEN 1 ELSE stage + 1
  /\ \E p \in Poll[stage'] : program' = [program EXCEPT !["loop"] = p]
  /\ UNCHANGED <<locks, halfway, request, require_auth, asking>>

LoopWork ==
  /\ \/ At("loop", "capture") /\ halfway' = TRUE /\ UNCHANGED require_auth
     \/ At("loop", "restart countdown") /\ halfway' = FALSE /\ UNCHANGED require_auth
     \/ At("loop", "reload") /\ require_auth' \in BOOLEAN /\ UNCHANGED halfway
  /\ Advance("loop")
  /\ UNCHANGED <<stage, locks, request, asking>>

(* The kill sequence returns when it failed, or ran dry.                   *)
KillReturns ==
  /\ At("loop", "kill")
  /\ Advance("loop")
  /\ UNCHANGED <<stage, locks, halfway, request, require_auth, asking>>

---------------------------------------------------------------------------
(* A handler, and the authority it asks.                                   *)
Serve(h) ==
  /\ request[h] = None
  /\ \E r \in DOMAIN Programs :
       /\ request' = [request EXCEPT ![h] = r]
       /\ program' = [program EXCEPT ![h] = Programs[r]]
  /\ UNCHANGED <<stage, locks, halfway, require_auth, asking>>

Report(h) ==
  /\ At(h, "report")
  /\ Advance(h)
  /\ UNCHANGED <<stage, locks, halfway, request, require_auth, asking>>

Answer(h) ==
  /\ request[h] # None
  /\ program[h] = <<>>
  /\ request' = [request EXCEPT ![h] = None]
  /\ subject' = [subject EXCEPT ![h] = None]
  /\ verdict' = [verdict EXCEPT ![h] = "none"]
  /\ waited' = [waited EXCEPT ![h] = 0]
  /\ UNCHANGED <<program, stage, locks, halfway, require_auth, call>>

(* Who is at the other end: FreeBSD's LOCAL_PEERCRED carries no pid.       *)
PeerCreds(h) == [uid |-> Caller[h], pid |-> h \in HasPid]

(* authorize: what is decided without a question, and the question.       *)
Demand(h) ==
  /\ At(h, "require_auth")
  /\ Advance(h)
  /\ verdict' = [verdict EXCEPT ![h] =
       IF ~require_auth \/ PeerCreds(h).uid = Root THEN "allowed"
       ELSE IF PeerCreds(h).pid THEN "none" ELSE "refused"]
  /\ UNCHANGED <<stage, locks, halfway, request, require_auth, call, subject, waited>>

Ask(h) ==
  /\ At(h, "ask")
  /\ call[h] = None /\ verdict[h] = "none"
  /\ call' = [call EXCEPT ![h] = "GetSessionByPID"]
  /\ UNCHANGED <<program, stage, locks, halfway, request, require_auth, subject, verdict,
                 waited>>

Decided(h) ==
  /\ At(h, "ask") /\ verdict[h] # "none"
  /\ Advance(h)
  /\ UNCHANGED <<stage, locks, halfway, request, require_auth, asking>>

(* A refusal is answered at once, and the command is never reached.        *)
Obey(h) ==
  /\ At(h, "obey")
  /\ program' = [program EXCEPT ![h] = IF verdict[h] = "allowed" THEN Tail(@) ELSE <<>>]
  /\ UNCHANGED <<stage, locks, halfway, request, require_auth, asking>>

(* One call to the bus: it takes its time, and any error is a refusal.     *)
Calls(h, name, next, found) ==
  /\ call[h] = name
  /\ call' = [call EXCEPT ![h] = next]
  /\ subject' = [subject EXCEPT ![h] = found]
  /\ UNCHANGED verdict

Settles(h, v) ==
  /\ call' = [call EXCEPT ![h] = None]
  /\ verdict' = [verdict EXCEPT ![h] = v]
  /\ UNCHANGED subject

Owned_Unchecked(h) == TRUE   (* a bug: the session of a reused pid is used *)

Owned(h) == SessionOwner[subject[h]] = PeerCreds(h).uid

(* The pid may have been given to another since SO_PEERCRED was read, so   *)
(* its session is anybody's; the display session is the caller's.          *)
SubjectSession(h) ==
  \/ \E s \in Session : Calls(h, "GetSessionByPID", "User", s)
  \/ Calls(h, "GetSessionByPID", "GetUser", None)
  \/ call[h] = "User" /\ Owned(h) /\ Calls(h, "User", "Id", subject[h])
  \/ call[h] = "User" /\ ~Owned(h) /\ Settles(h, "refused")
  \/ Calls(h, "Id", "CheckAuthorization", subject[h])
  \/ Calls(h, "GetUser", "Display", None)
  \/ \E s \in Session :
       SessionOwner[s] = Caller[h] /\ Calls(h, "Display", "CheckAuthorization", s)

BusAnswers(h) ==
  /\ call[h] # None
  /\ \/ SubjectSession(h)
     \/ call[h] = "CheckAuthorization" /\ \E v \in {"allowed", "refused"} : Settles(h, v)
     \/ Settles(h, "refused")
  /\ \E d \in Lasts : waited' = [waited EXCEPT ![h] = @ + d]
  /\ UNCHANGED <<program, stage, locks, halfway, request, require_auth>>

BusTimesOut(h) ==
  /\ call[h] # None
  /\ Settles(h, "refused")
  /\ waited' = [waited EXCEPT ![h] = @ + METHOD_TIMEOUT]
  /\ UNCHANGED <<program, stage, locks, halfway, request, require_auth>>

---------------------------------------------------------------------------
Init ==
  /\ program = [t \in Thread |-> <<>>]
  /\ stage = Len(Poll)
  /\ reads = [l \in Lock |-> [t \in Thread |-> 0]]
  /\ owner = [l \in Lock |-> None]
  /\ halfway = FALSE
  /\ request = [h \in Handler |-> None]
  /\ require_auth \in BOOLEAN
  /\ call = [h \in Handler |-> None]
  /\ subject = [h \in Handler |-> None]
  /\ verdict = [h \in Handler |-> "none"]
  /\ waited = [h \in Handler |-> 0]

LoopRuns == LockStep("loop") \/ NextPart \/ LoopWork

HandlerRuns(h) ==
  \/ LockStep(h) \/ Report(h) \/ Answer(h)
  \/ Demand(h) \/ Ask(h) \/ Decided(h) \/ Obey(h)

Next ==
  \/ LoopRuns \/ KillReturns
  \/ \E h \in Handler :
       HandlerRuns(h) \/ Serve(h) \/ BusAnswers(h) \/ BusTimesOut(h)

Spec == Init /\ [][Next]_vars

(* Every thread gets on when it can, and is not overtaken at a lock for    *)
(* ever: the loop sleeps between polls and a handler ends.  Nothing is     *)
(* asked of the bus, of the person at the prompt, or of a kill sequence.   *)
FairSpec ==
  /\ Spec
  /\ SF_vars(LoopRuns)
  /\ \A h \in Handler : SF_vars(HandlerRuns(h))

============================================================================
