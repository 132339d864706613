------------------------------ MODULE Desktop ------------------------------
(***************************************************************************)
(* The threads of plugkill-gui: the status poller, the command sender and  *)
(* the GTK loop, the tray they share under a lock and the channels between *)
(* them.  The person clicks on what is shown; the daemon is what it says   *)
(* on its socket.                                                          *)
(***************************************************************************)
EXTENDS Integers, Sequences

CONSTANTS
  None,
  DryRuns,                          (* whether the daemon is a dry run      *)
  Presets, FIVE_MINUTES, MAX_DISARM,
  MaxClock, MaxNews, MaxChanges, MaxClicks, MaxQueued    (* bounds *)

Kinds   == {"arm", "disarm", "learn", "enforce", "reload", "pair", "unpair"}
Windows == {"activate", "open dashboard", "open settings"}

(* least is not in the request: the deadline the person was extending.     *)
Command == [kind : Kinds, secs : Nat, least : Nat]

Plain(kind) == [kind |-> kind, secs |-> 0, least |-> 0]

ASSUME DesktopAssumption ==
  /\ DryRuns \subseteq BOOLEAN
  /\ Presets \subseteq 1..MAX_DISARM
  /\ FIVE_MINUTES \in Presets
  /\ {MAX_DISARM, MaxClock, MaxNews, MaxChanges, MaxClicks, MaxQueued} \subseteq Nat

VARIABLES
  clock,      (* in the smallest preset                                     *)
  daemon,
  late,       (* commands the sender gave up on and the daemon did not      *)
  tray,       (* [status, notice, stale]: PlugkillTray, with NOTICE_TTL     *)
  board,      (* the dashboard: [visible, drawn, status, toggle, total,     *)
              (* notice, devices]; drawn once it has had an update          *)
  settings,   (* the settings window: [visible, devices, violations]        *)
  events, commands, notices, updates,       (* the channels                 *)
  poller,     (* [at, tick, status, dashboard, settings]                    *)
  sender,     (* [at, command, notice]                                      *)
  pressed, served, changes                  (* history, and a bound         *)

channels == <<events, commands, notices, updates>>
vars == <<clock, daemon, late, tray, board, settings, channels, poller, sender, pressed, served,
          changes>>

---------------------------------------------------------------------------
(* A status reply, and the one state that is shown for it.                 *)
Left == IF daemon.until > clock THEN daemon.until - clock ELSE 0

Fetched ==
  IF daemon.answers
  THEN [armed |-> daemon.armed, left |-> Left, until |-> daemon.until, mode |-> daemon.mode,
        grace |-> daemon.grace, polled |-> daemon.polled, dry_run |-> daemon.dry_run]
  ELSE None

FromStatus(s) ==
  IF s = None THEN "down"
  ELSE IF ~s.armed THEN "disarmed"
  ELSE IF s.polled = "old" THEN "stalled"
  ELSE IF s.mode = "enforce" /\ ~s.dry_run /\ s.grace THEN "pending"
  ELSE IF s.dry_run THEN "dry run"
  ELSE IF s.mode = "learn" THEN "learning"
  ELSE "armed"

Down(s) == FromStatus(s) \in {"down", "stalled"}

---------------------------------------------------------------------------
(* The daemon, and other clients of it.                                    *)
Other ==
  /\ changes < MaxChanges
  /\ changes' = changes + 1
  /\ \/ daemon' = [daemon EXCEPT !.mode = IF @ = "learn" THEN "enforce" ELSE "learn", !.grace = FALSE]
     \/ daemon' = [daemon EXCEPT !.answers = ~@]
     \/ daemon.looping /\ daemon' = [daemon EXCEPT !.looping = FALSE]
     \/ daemon.armed /\ daemon' = [daemon EXCEPT !.grace = ~@]
     \/ \E p \in Presets : daemon' = [daemon EXCEPT !.armed = FALSE, !.until = clock + p, !.grace = FALSE]
     \/ daemon.news < MaxNews /\ daemon' = [daemon EXCEPT !.news = @ + 1]
  /\ UNCHANGED <<clock, late, tray, board, settings, channels, poller, sender, pressed, served>>

DaemonPolls ==
  /\ daemon.looping
  /\ IF daemon.armed THEN daemon' = [daemon EXCEPT !.polled = "recent"]
     ELSE daemon.until <= clock /\ daemon' = [daemon EXCEPT !.armed = TRUE]
  /\ UNCHANGED <<clock, late, tray, board, settings, channels, poller, sender, pressed, served,
                 changes>>

Running(d, c) ==
  CASE c.kind = "arm"     -> [d EXCEPT !.armed = TRUE]
    [] c.kind = "disarm"  -> [d EXCEPT !.armed = FALSE, !.until = clock + c.secs, !.grace = FALSE]
    [] c.kind = "learn"   -> [d EXCEPT !.mode = "learn", !.grace = FALSE]
    [] c.kind = "enforce" -> [d EXCEPT !.mode = "enforce"]
    [] OTHER              -> d

RunsLate ==
  /\ \E c \in late :
       /\ late' = late \ {c}
       /\ daemon' \in {daemon, Running(daemon, c)}
  /\ UNCHANGED <<clock, tray, board, settings, channels, poller, sender, pressed, served, changes>>

(* Half a minute: what stands between two steps of a thread that is not    *)
(* waiting for anyone is far shorter.                                      *)
Rests == poller.at # "clear" /\ sender.at \notin {"say", "tell"}

NoticeAges ==
  /\ Rests
  /\ tray.notice # None
  /\ tray' = [tray EXCEPT !.stale = TRUE]
  /\ UNCHANGED <<clock, daemon, late, board, settings, channels, poller, sender, pressed, served,
                 changes>>

Tick ==
  /\ Rests
  /\ clock < MaxClock
  /\ tray.notice # None => tray.stale
  /\ daemon.looping /\ daemon.armed => daemon.polled = "recent"
  /\ clock' = clock + 1
  /\ daemon' = [daemon EXCEPT !.polled = IF daemon.looping /\ daemon.armed THEN @ ELSE "old"]
  /\ UNCHANGED <<late, tray, board, settings, channels, poller, sender, pressed, served, changes>>

---------------------------------------------------------------------------
(* commands.rs and the command-sender thread.                              *)
Gated(c) == c.kind \in {"disarm", "learn", "reload", "pair"}

Notice(text) == [tray EXCEPT !.notice = text, !.stale = FALSE]

TakeCommand ==
  /\ sender.at = "idle"
  /\ commands # <<>>
  /\ commands' = Tail(commands)
  /\ \/ /\ Gated(Head(commands))
        /\ tray' = Notice("waiting")
        /\ sender' = [at |-> "say", command |-> Head(commands), notice |-> "waiting"]
     \/ /\ ~Gated(Head(commands))
        /\ sender' = [at |-> "send", command |-> Head(commands), notice |-> None]
        /\ UNCHANGED tray
  /\ UNCHANGED <<clock, daemon, late, board, settings, events, notices, updates, poller, pressed,
                 served, changes>>

(* The socket answers, refuses, is not there, or is not waited for: a      *)
(* prompt is waited for longer than the rest, and each has its limit.  A   *)
(* revocation is refused when there is no such allowance.                  *)
Refusable(c) == Gated(c) \/ c.kind = "unpair"

Answers(c) ==
  IF ~daemon.answers THEN {"failed"}
  ELSE {"ok", "timeout"} \cup {answer \in {"refused"} : Refusable(c)}

SendCommand ==
  /\ sender.at = "send"
  /\ \E answer \in Answers(sender.command) :
       /\ daemon' = IF answer = "ok" THEN Running(daemon, sender.command) ELSE daemon
       /\ late' = IF answer = "timeout" THEN late \cup {sender.command} ELSE late
       /\ LET notice == IF answer = "ok" THEN None ELSE answer IN
            /\ tray' = Notice(notice)
            /\ sender' = [sender EXCEPT !.at = "tell", !.notice = notice]
  /\ UNCHANGED <<clock, board, settings, channels, poller, pressed, served, changes>>

SayNotice ==
  /\ sender.at \in {"say", "tell"}
  /\ notices' = Append(notices, sender.notice)
  /\ \/ /\ sender.at = "say"
        /\ sender' = [sender EXCEPT !.at = "send"]
        /\ UNCHANGED served
     \/ /\ sender.at = "tell"
        /\ sender' = [at |-> "idle", command |-> None, notice |-> None]
        /\ served' = served + 1
  /\ UNCHANGED <<clock, daemon, late, tray, board, settings, events, commands, updates, poller,
                 pressed, changes>>

---------------------------------------------------------------------------
(* poll.rs: the status-poller thread.                                      *)
Even == poller.tick % 2 = 0

NextTick == [poller EXCEPT !.tick = (@ + 1) % 4, !.at = "notice"]

OnTick == IF Even THEN [poller EXCEPT !.at = "fetch"] ELSE NextTick

Forgets_Silently(stale) == FALSE   (* a bug: the dashboard's copy stays *)

Forgets(stale) == stale

PollNotice ==
  /\ poller.at = "notice"
  /\ LET stale == tray.notice # None /\ tray.stale IN
       /\ tray' = IF stale THEN Notice(None) ELSE tray
       /\ poller' = IF Forgets(stale) THEN [poller EXCEPT !.at = "clear"] ELSE OnTick
  /\ UNCHANGED <<clock, daemon, late, board, settings, channels, sender, pressed, served, changes>>

PollClear ==
  /\ poller.at = "clear"
  /\ notices' = Append(notices, None)
  /\ poller' = OnTick
  /\ UNCHANGED <<clock, daemon, late, tray, board, settings, events, commands, updates, sender,
                 pressed, served, changes>>

Update(status, devices, violations) ==
  [status |-> status, devices |-> devices, violations |-> violations]

PollStatus ==
  /\ poller.at = "fetch"
  /\ Len(updates) < MaxQueued
  /\ updates' = Append(updates, Update(Fetched, None, None))
  /\ poller' = [poller EXCEPT !.at = "apply", !.status = Fetched]
  /\ UNCHANGED <<clock, daemon, late, tray, board, settings, events, commands, notices, sender,
                 pressed, served, changes>>

Applied_WhenAnswered(s) == IF s = None THEN tray.status ELSE s   (* a bug *)

Applied(s) == s

PollApply ==
  /\ poller.at = "apply"
  /\ tray' = [tray EXCEPT !.status = Applied(poller.status)]
  /\ poller' = [poller EXCEPT !.at = "walk"]
  /\ UNCHANGED <<clock, daemon, late, board, settings, channels, sender, pressed, served, changes>>

(* fetches.                                                                *)
Opened ==
  \/ board.visible /\ ~poller.dashboard
  \/ settings.visible /\ ~poller.settings

Walks_OnOpening == Opened   (* a bug *)

Walks == (board.visible \/ settings.visible) /\ (poller.tick = 0 \/ Opened)

Listing == IF daemon.answers THEN daemon.news ELSE None

PollWalk ==
  /\ poller.at = "walk"
  /\ \/ /\ Walks
        /\ Len(updates) < MaxQueued
        /\ updates' = Append(updates,
             Update(poller.status, Listing, IF settings.visible THEN Listing ELSE None))
     \/ /\ ~Walks
        /\ UNCHANGED updates
  /\ poller' = [NextTick EXCEPT !.dashboard = board.visible, !.settings = settings.visible,
                                !.status = None]
  /\ UNCHANGED <<clock, daemon, late, tray, board, settings, events, commands, notices, sender,
                 pressed, served, changes>>

---------------------------------------------------------------------------
(* The GTK loop: the futures of main.rs.                                   *)
HandleNotice ==
  /\ notices # <<>>
  /\ notices' = Tail(notices)
  /\ board' = [board EXCEPT !.notice = Head(notices)]
  /\ UNCHANGED <<clock, daemon, late, tray, settings, events, commands, updates, poller, sender,
                 pressed, served, changes>>

(* countdown_total, and the ring it is captured for.                       *)
CountdownTotal(left) ==
  LET covering == {p \in Presets : p >= left}
  IN IF covering = {} THEN left ELSE CHOOSE p \in covering : \A q \in covering : p <= q

RingTotal_Once(total, left) == IF total = 0 THEN CountdownTotal(left) ELSE total   (* a bug *)

RingTotal(total, left) == IF left > total THEN CountdownTotal(left) ELSE total

Keep(new, old) == IF new = None THEN old ELSE new

(* Setting a toggle runs its handler; syncing is what keeps it quiet.      *)
Toggled_NotSyncing(mode) == IF mode # board.toggle THEN <<mode>> ELSE <<>>   (* a bug *)

Toggled(mode) == <<>>

HandleUpdate ==
  /\ updates # <<>>
  /\ updates' = Tail(updates)
  /\ LET u == Head(updates)
         s == u.status
         mode == IF Down(s) THEN board.toggle ELSE s.mode
     IN
     /\ board' = [board EXCEPT !.drawn = TRUE, !.status = s, !.toggle = mode, !.devices = Keep(u.devices, @),
          !.total = IF FromStatus(s) = "disarmed" THEN RingTotal(@, s.left) ELSE 0]
     /\ commands' = commands \o [i \in DOMAIN Toggled(mode) |-> Plain(Toggled(mode)[i])]
     /\ settings' = IF settings.visible
          THEN [settings EXCEPT !.devices = Keep(u.devices, @), !.violations = Keep(u.violations, @)]
          ELSE settings
  /\ UNCHANGED <<clock, daemon, late, tray, events, notices, poller, sender, pressed, served, changes>>

HandleEvent ==
  /\ events # <<>>
  /\ events' = Tail(events)
  /\ LET e == Head(events) IN
     \/ /\ e.kind = "activate"
        /\ board' = [board EXCEPT !.visible = ~@]
        /\ UNCHANGED <<settings, commands>>
     \/ /\ e.kind = "open dashboard"
        /\ board' = [board EXCEPT !.visible = TRUE]
        /\ UNCHANGED <<settings, commands>>
     \/ /\ e.kind = "open settings"
        /\ settings' = [settings EXCEPT !.visible = TRUE]
        /\ UNCHANGED <<board, commands>>
     \/ /\ e.kind \in Kinds
        /\ commands' = Append(commands, e)
        /\ UNCHANGED <<board, settings>>
  /\ UNCHANGED <<clock, daemon, late, tray, notices, updates, poller, sender, pressed, served,
                 changes>>

---------------------------------------------------------------------------
(* The person.  What can be clicked is what is shown.                      *)
Disarm(secs) == [kind |-> "disarm", secs |-> secs, least |-> 0]

Sum_Preset(add, p) == p   (* a bug: the daemon replaces a deadline *)

Sum(add, p) == IF p + add > MAX_DISARM THEN MAX_DISARM ELSE p + add

Extensions(s) ==
  {[kind |-> "disarm", secs |-> Sum(s.left, p), least |-> s.until] : p \in Presets}

Maintenance == {Plain("learn"), Plain("enforce"), Plain("reload")}

MenuOffers(s) ==
  (IF Down(s) THEN {} ELSE Maintenance) \cup
  (CASE Down(s)                    -> {}
     [] FromStatus(s) = "disarmed" -> {Plain("arm")} \cup Extensions(s)
     [] OTHER                      -> {Disarm(p) : p \in Presets})

(* Until the first update the page of the presets shows, and both toggles. *)
BoardOffers(s, drawn) ==
  {Plain("reload")} \cup
  (CASE ~drawn                     -> {Disarm(p) : p \in Presets}
     [] drawn /\ Down(s)           -> {}
     [] FromStatus(s) = "disarmed" -> {Plain("arm")}
     [] FromStatus(s) = "pending"  -> {Disarm(FIVE_MINUTES)}
     [] OTHER                      -> {Disarm(p) : p \in Presets})

Click ==
  /\ pressed < MaxClicks
  /\ pressed' = pressed + 1

ClickMenu ==
  /\ Click
  /\ \E c \in MenuOffers(tray.status) : events' = Append(events, c)
  /\ UNCHANGED <<clock, daemon, late, tray, board, settings, commands, notices, updates, poller,
                 sender, served, changes>>

ClickBoard ==
  /\ Click
  /\ board.visible
  /\ \/ /\ \E c \in BoardOffers(board.status, board.drawn) : commands' = Append(commands, c)
        /\ UNCHANGED board
     \/ /\ ~board.drawn \/ ~Down(board.status)
        /\ \E mode \in {"learn", "enforce"} \ {board.toggle} :
             /\ board' = [board EXCEPT !.toggle = mode]
             /\ commands' = Append(commands, Plain(mode))
  /\ UNCHANGED <<clock, daemon, late, tray, settings, events, notices, updates, poller, sender,
                 served, changes>>

ClickAllowances ==
  /\ Click
  /\ settings.visible
  /\ \E kind \in {"pair", "unpair"} : commands' = Append(commands, Plain(kind))
  /\ UNCHANGED <<clock, daemon, late, tray, board, settings, events, notices, updates, poller,
                 sender, served, changes>>

(* Opening and closing the windows; opening goes through the channel.      *)
MoveWindow ==
  /\ changes < MaxChanges
  /\ changes' = changes + 1
  /\ \/ /\ \E kind \in Windows : events' = Append(events, Plain(kind))
        /\ UNCHANGED <<board, settings>>
     \/ /\ board.visible
        /\ \/ board' = [board EXCEPT !.visible = FALSE] /\ UNCHANGED settings
           \/ settings' = [settings EXCEPT !.visible = TRUE] /\ UNCHANGED board
        /\ UNCHANGED events
     \/ /\ settings.visible
        /\ settings' = [settings EXCEPT !.visible = FALSE]
        /\ UNCHANGED <<board, events>>
  /\ UNCHANGED <<clock, daemon, late, tray, commands, notices, updates, poller, sender, pressed,
                 served>>

---------------------------------------------------------------------------
Init ==
  /\ clock = 0
  /\ \E dry_run \in DryRuns :
       daemon = [answers |-> TRUE, looping |-> TRUE, armed |-> TRUE, until |-> 0, mode |-> "enforce",
                 grace |-> FALSE, polled |-> "recent", news |-> 0, dry_run |-> dry_run]
  /\ late = {}
  /\ tray = [status |-> None, notice |-> None, stale |-> FALSE]
  /\ board = [visible |-> FALSE, drawn |-> FALSE, status |-> None, toggle |-> None, total |-> 0,
              notice |-> None, devices |-> None]
  /\ settings = [visible |-> FALSE, devices |-> None, violations |-> None]
  /\ events = <<>> /\ commands = <<>> /\ notices = <<>> /\ updates = <<>>
  /\ poller = [at |-> "notice", tick |-> 0, status |-> None, dashboard |-> FALSE, settings |-> FALSE]
  /\ sender = [at |-> "idle", command |-> None, notice |-> None]
  /\ pressed = 0 /\ served = 0 /\ changes = 0

Poller == PollNotice \/ PollClear \/ PollStatus \/ PollApply \/ PollWalk
Sender == TakeCommand \/ SendCommand \/ SayNotice

Next ==
  \/ Poller \/ Sender
  \/ HandleNotice \/ HandleUpdate \/ HandleEvent
  \/ ClickMenu \/ ClickBoard \/ ClickAllowances \/ MoveWindow
  \/ Other \/ DaemonPolls \/ RunsLate \/ NoticeAges \/ Tick

Spec == Init /\ [][Next]_vars

(* The threads run, the futures of the GTK loop are served in turn, the    *)
(* daemon's loop runs unless it is stuck, and half a minute passes.        *)
FairSpec ==
  /\ Spec
  /\ WF_vars(Poller) /\ WF_vars(Sender)
  /\ WF_vars(HandleNotice) /\ WF_vars(HandleUpdate) /\ WF_vars(HandleEvent)
  /\ WF_vars(DaemonPolls) /\ WF_vars(NoticeAges)

============================================================================
