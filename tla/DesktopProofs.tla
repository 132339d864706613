--------------------------- MODULE DesktopProofs ---------------------------
(***************************************************************************)
(* The tray and the dashboard, proved for any presets, any number of       *)
(* clicks and of other clients' changes, and queues of any length.         *)
(***************************************************************************)
EXTENDS DesktopProperties, FiniteSetTheorems, SequenceTheorems, TLAPS

(* Types.                                                                  *)
Modes   == {"learn", "enforce"}
Toggles == {"learn", "enforce", None}
Age     == {"recent", "old"}
Texts   == {None, "waiting", "failed", "refused", "timeout"}
Event   == [kind : Kinds \cup Windows, secs : Nat, least : Nat]
News    == Nat \cup {None}
Daemon  == [answers : BOOLEAN, looping : BOOLEAN, armed : BOOLEAN, until : Nat, mode : Modes,
            grace : BOOLEAN, polled : Age, news : Nat, dry_run : BOOLEAN]
Status  == [armed : BOOLEAN, left : Nat, until : Nat, mode : Modes, grace : BOOLEAN, polled : Age,
            dry_run : BOOLEAN]
Reply   == Status \cup {None}
Message == [status : Reply, devices : News, violations : News]

TypeOK ==
  /\ clock \in Nat
  /\ daemon \in Daemon
  /\ late \subseteq Command
  /\ tray \in [status : Reply, notice : Texts, stale : BOOLEAN]
  /\ board \in [visible : BOOLEAN, drawn : BOOLEAN, status : Reply, toggle : Toggles,
                total : Nat, notice : Texts, devices : News]
  /\ settings \in [visible : BOOLEAN, devices : News, violations : News]
  /\ events \in Seq(Event) /\ commands \in Seq(Command)
  /\ notices \in Seq(Texts) /\ updates \in Seq(Message)
  /\ poller \in [at : {"notice", "clear", "fetch", "apply", "walk"}, tick : 0..3, status : Reply,
                 dashboard : BOOLEAN, settings : BOOLEAN]
  /\ sender \in [at : {"idle", "send", "say", "tell"}, command : Command \cup {None}, notice : Texts]
  /\ sender.at # "idle" => sender.command \in Command
  /\ pressed \in Nat /\ served \in Nat /\ changes \in Nat

---------------------------------------------------------------------------
(* Induction, as far as a set will do: what is not empty has a least.      *)
LEMMA LeastOf ==
  ASSUME NEW S \in SUBSET Nat, S # {}
  PROVE  \E m \in S : \A k \in S : m <= k
<1> DEFINE R == OpToRel(<, Nat)
<1>1. IsWellFoundedOn(R, Nat)
  BY NatLessThanWellFounded
<1>2. PICK m \in S : \A k \in S : <<k, m>> \notin R
  <2> HIDE DEF R
  <2> QED BY <1>1, WFMin
<1>3. \A k \in S : ~(k < m)
  BY <1>2 DEF OpToRel
<1> QED BY <1>3

LEMMA PresetsType == Presets \subseteq Nat /\ MAX_DISARM \in Nat /\ \A p \in Presets : p <= MAX_DISARM
<1>1. MAX_DISARM \in Nat
  BY Zenon, DesktopAssumption
<1> QED BY <1>1, DesktopAssumption

(* The ring is measured for a preset, or for what is left.                 *)
LEMMA RingType ==
  ASSUME NEW total \in Nat, NEW left \in Nat
  PROVE  RingTotal(total, left) \in Nat
<1> DEFINE covering == {p \in Presets : p >= left}
<1>1. covering \subseteq Nat
  BY PresetsType
<1>2. covering # {} => \E p \in covering : \A q \in covering : p <= q
  BY <1>1, LeastOf
<1>3. CountdownTotal(left) \in Nat
  BY <1>1, <1>2 DEF CountdownTotal
<1> QED BY <1>3 DEF RingTotal

(* What is offered is a command the daemon takes.                          *)
LEMMA OffersType ==
  ASSUME NEW s \in Reply, NEW drawn \in BOOLEAN
  PROVE  MenuOffers(s) \subseteq Command /\ BoardOffers(s, drawn) \subseteq Command
<1>1. \A kind \in Kinds : Plain(kind) \in Command
  BY DEF Plain, Command
<1>2. \A p \in Presets : Disarm(p) \in Command
  BY PresetsType DEF Disarm, Command, Kinds
<1>3. FromStatus(s) = "disarmed" => Extensions(s) \subseteq Command
  <2>1. FromStatus(s) = "disarmed" => s \in Status
    BY DEF FromStatus, Reply
  <2> QED BY <2>1, PresetsType DEF Extensions, Sum, Status, Command, Kinds
<1>4. FIVE_MINUTES \in Presets
  BY DesktopAssumption
<1>5. MenuOffers(s) \subseteq Command
  <2>1. Maintenance \subseteq Command /\ Plain("arm") \in Command
    BY <1>1 DEF Maintenance, Kinds
  <2> QED BY <1>2, <1>3, <2>1 DEF MenuOffers
<1>6. BoardOffers(s, drawn) \subseteq Command
  <2>1. Plain("reload") \in Command /\ Plain("arm") \in Command
    BY <1>1 DEF Kinds
  <2> QED BY <1>2, <1>4, <2>1 DEF BoardOffers
<1> QED BY <1>5, <1>6

LEMMA FetchedType == TypeOK => Fetched \in Reply
BY DEF TypeOK, Fetched, Daemon, Reply, Status, Left

LEMMA RunningType ==
  ASSUME TypeOK, NEW c \in Command
  PROVE  Running(daemon, c) \in Daemon
<1> daemon \in Daemon /\ clock \in Nat /\ c.secs \in Nat
  BY DEF TypeOK, Command
<1> DEFINE rearmed  == [daemon EXCEPT !.armed = TRUE]
           disarmed == [daemon EXCEPT !.armed = FALSE, !.until = clock + c.secs, !.grace = FALSE]
           learning == [daemon EXCEPT !.mode = "learn", !.grace = FALSE]
           guarding == [daemon EXCEPT !.mode = "enforce"]
<1>1. rearmed \in Daemon
  BY DEF Daemon
<1>4. disarmed \in Daemon
  <2>1. \A t \in Nat : [daemon EXCEPT !.armed = FALSE, !.until = t, !.grace = FALSE] \in Daemon
    BY DEF Daemon
  <2>2. clock + c.secs \in Nat
    OBVIOUS
  <2> QED BY <2>1, <2>2, Zenon
<1>2. learning \in Daemon /\ guarding \in Daemon
  BY DEF Daemon, Modes
<1>3. Running(daemon, c) \in {rearmed, disarmed, learning, guarding, daemon}
  BY Zenon DEF Running
<1> QED BY <1>1, <1>2, <1>3, <1>4

(* A queue takes at one end and gives at the other.                        *)
LEMMA QueueType ==
  ASSUME NEW S, NEW q \in Seq(S), NEW e \in S
  PROVE  /\ Append(q, e) \in Seq(S)
         /\ q # <<>> => Head(q) \in S /\ Tail(q) \in Seq(S)
BY AppendProperties, HeadTailProperties

(* The toggles send nothing while they follow the daemon.                  *)
LEMMA SyncingIsSilent ==
  ASSUME NEW mode, NEW q \in Seq(Command)
  PROVE  q \o [i \in DOMAIN Toggled(mode) |-> Plain(Toggled(mode)[i])] = q
<1>1. [i \in DOMAIN Toggled(mode) |-> Plain(Toggled(mode)[i])] = <<>>
  BY DEF Toggled
<1> QED BY <1>1, ConcatEmptySeq

---------------------------------------------------------------------------
(* Every step keeps the types.                                             *)
LEMMA DaemonTypes ==
  ASSUME TypeOK, Other \/ DaemonPolls \/ RunsLate \/ NoticeAges \/ Tick
  PROVE  TypeOK'
<1>1. CASE Other
  <2>1. daemon' \in Daemon /\ changes' \in Nat
    <3>1. \A p \in Presets : clock + p \in Nat
      BY PresetsType DEF TypeOK
    <3>2. daemon \in Daemon /\ changes \in Nat
      BY DEF TypeOK
    <3>3. \/ daemon' = [daemon EXCEPT !.mode = IF @ = "learn" THEN "enforce" ELSE "learn", !.grace = FALSE]
          \/ daemon' = [daemon EXCEPT !.answers = ~@]
          \/ daemon' = [daemon EXCEPT !.looping = FALSE]
          \/ daemon' = [daemon EXCEPT !.grace = ~@]
          \/ \E t \in Nat : daemon' = [daemon EXCEPT !.armed = FALSE, !.until = t, !.grace = FALSE]
          \/ daemon' = [daemon EXCEPT !.news = @ + 1]
      BY <1>1, <3>1 DEF Other
    <3>4. daemon' \in Daemon
      <4>1. [daemon EXCEPT !.mode = IF @ = "learn" THEN "enforce" ELSE "learn", !.grace = FALSE] \in Daemon
        BY <3>2 DEF Daemon, Modes
      <4>2. \A t \in Nat : [daemon EXCEPT !.armed = FALSE, !.until = t, !.grace = FALSE] \in Daemon
        BY <3>2 DEF Daemon
      <4>3. [daemon EXCEPT !.news = @ + 1] \in Daemon
        BY <3>2 DEF Daemon
      <4>4. /\ [daemon EXCEPT !.answers = ~@] \in Daemon
            /\ [daemon EXCEPT !.looping = FALSE] \in Daemon
            /\ [daemon EXCEPT !.grace = ~@] \in Daemon
        BY <3>2 DEF Daemon
      <4> QED BY <3>3, <4>1, <4>2, <4>3, <4>4
    <3>5. changes' = changes + 1
      BY <1>1, Zenon DEF Other
    <3> QED BY <3>2, <3>4, <3>5
  <2> QED BY <1>1, <2>1 DEF Other, TypeOK, channels
<1>2. CASE DaemonPolls
  <2>1. daemon' \in Daemon
    <3>1. daemon \in Daemon
      BY DEF TypeOK
    <3> QED BY <1>2, <3>1 DEF DaemonPolls, Daemon, Age
  <2> QED BY <1>2, <2>1 DEF DaemonPolls, TypeOK, channels
<1>3. CASE RunsLate
  <2>1. late' \subseteq Command /\ daemon' \in Daemon
    BY <1>3, RunningType DEF RunsLate, TypeOK
  <2> QED BY <1>3, <2>1 DEF RunsLate, TypeOK, channels
<1>4. CASE NoticeAges
  BY <1>4 DEF NoticeAges, TypeOK, channels
<1>5. CASE Tick
  <2>1. daemon' \in Daemon /\ clock' \in Nat
    <3>1. daemon \in Daemon /\ clock \in Nat
      BY DEF TypeOK
    <3> QED BY <1>5, <3>1 DEF Tick, Daemon, Age
  <2> QED BY <1>5, <2>1 DEF Tick, TypeOK, channels
<1> QED BY <1>1, <1>2, <1>3, <1>4, <1>5

LEMMA SenderTypes ==
  ASSUME TypeOK, Sender
  PROVE  TypeOK'
<1> DEFINE Hand == [at : {"idle", "send", "say", "tell"}, command : Command \cup {None}, notice : Texts]
<1>1. CASE TakeCommand
  <2>1. Head(commands) \in Command /\ commands' \in Seq(Command)
    BY <1>1, QueueType DEF TakeCommand, TypeOK
  <2>2. /\ sender' \in Hand /\ sender'.command \in Command
        /\ tray' \in [status : Reply, notice : Texts, stale : BOOLEAN]
    <3>1. tray \in [status : Reply, notice : Texts, stale : BOOLEAN] /\ {None, "waiting"} \subseteq Texts
      BY DEF TypeOK, Texts
    <3>2. tray' = tray \/ tray' = Notice("waiting")
      BY <1>1 DEF TakeCommand
    <3>3. \/ sender' = [at |-> "say", command |-> Head(commands), notice |-> "waiting"]
          \/ sender' = [at |-> "send", command |-> Head(commands), notice |-> None]
      BY <1>1 DEF TakeCommand
    <3>4. sender' \in Hand /\ sender'.command \in Command
      BY <2>1, <3>1, <3>3
    <3> QED BY <3>1, <3>2, <3>4 DEF Notice
  <2> QED BY <1>1, <2>1, <2>2 DEF TakeCommand, TypeOK
<1>2. CASE SendCommand
  <2>1. sender.command \in Command
    BY <1>2 DEF SendCommand, TypeOK
  <2>2. Running(daemon, sender.command) \in Daemon
    BY <2>1, RunningType
  <2>3. Answers(sender.command) \subseteq {"ok", "failed", "refused", "timeout"}
    BY DEF Answers
  <2>4. PICK answer \in {"ok", "failed", "refused", "timeout"} :
          /\ daemon' = IF answer = "ok" THEN Running(daemon, sender.command) ELSE daemon
          /\ late' = IF answer = "timeout" THEN late \cup {sender.command} ELSE late
          /\ tray' = Notice(IF answer = "ok" THEN None ELSE answer)
          /\ sender' = [sender EXCEPT !.at = "tell", !.notice = IF answer = "ok" THEN None ELSE answer]
    BY <1>2, <2>3 DEF SendCommand
  <2>5. daemon' \in Daemon /\ late' \subseteq Command
    BY <2>1, <2>2, <2>4 DEF TypeOK
  <2>6. (IF answer = "ok" THEN None ELSE answer) \in Texts
    BY DEF Texts
  <2>7. /\ tray' \in [status : Reply, notice : Texts, stale : BOOLEAN]
        /\ sender' \in Hand
        /\ sender'.command \in Command
    BY <2>1, <2>4, <2>6 DEF Notice, TypeOK
  <2> QED BY <1>2, <2>5, <2>7 DEF SendCommand, TypeOK, channels
<1>3. CASE SayNotice
  <2>1. notices' \in Seq(Texts)
    BY <1>3, QueueType DEF SayNotice, TypeOK
  <2>2. None \in Texts
    BY DEF Texts
  <2>3. sender' \in Hand /\ (sender'.at # "idle" => sender'.command \in Command)
    <3>1. sender \in Hand /\ (sender.at # "idle" => sender.command \in Command) /\ sender.at # "idle"
      BY <1>3 DEF SayNotice, TypeOK
    <3>2. \/ sender' = [sender EXCEPT !.at = "send"]
          \/ sender' = [at |-> "idle", command |-> None, notice |-> None]
      BY <1>3 DEF SayNotice
    <3> QED BY <2>2, <3>1, <3>2
  <2>4. served' \in Nat
    BY <1>3 DEF SayNotice, TypeOK
  <2> QED BY <1>3, <2>1, <2>3, <2>4 DEF SayNotice, TypeOK
<1> QED BY <1>1, <1>2, <1>3 DEF Sender

LEMMA PollerTypes ==
  ASSUME TypeOK, Poller
  PROVE  TypeOK'
<1> DEFINE Thread == [at : {"notice", "clear", "fetch", "apply", "walk"}, tick : 0..3, status : Reply,
                      dashboard : BOOLEAN, settings : BOOLEAN]
<1>1. None \in Texts /\ None \in Reply /\ None \in News
  BY DEF Texts, Reply, News
<1>2. poller \in Thread /\ NextTick \in Thread /\ OnTick \in Thread
  <2>1. poller \in Thread
    BY DEF TypeOK
  <2>2. (poller.tick + 1) % 4 \in 0..3
    BY <2>1
  <2>3. \A t \in 0..3 : [poller EXCEPT !.tick = t, !.at = "notice"] \in Thread
    BY <2>1
  <2> QED BY <2>1, <2>2, <2>3 DEF NextTick, OnTick
<1>3. Fetched \in Reply /\ Listing \in News
  BY FetchedType DEF Listing, News, TypeOK, Daemon
<1>4. \A s \in Reply, d, v \in News : Update(s, d, v) \in Message
  BY DEF Update, Message
<1>5. CASE PollNotice
  BY <1>1, <1>2, <1>5 DEF PollNotice, TypeOK, Notice, channels
<1>6. CASE PollClear
  <2>1. notices' \in Seq(Texts)
    BY <1>1, <1>6, QueueType DEF PollClear, TypeOK
  <2> QED BY <1>2, <1>6, <2>1 DEF PollClear, TypeOK
<1>7. CASE PollStatus
  <2>1. updates' \in Seq(Message)
    BY <1>1, <1>3, <1>4, <1>7, QueueType DEF PollStatus, TypeOK
  <2>2. poller' \in Thread
    BY <1>2, <1>3, <1>7 DEF PollStatus
  <2> QED BY <1>7, <2>1, <2>2 DEF PollStatus, TypeOK
<1>8. CASE PollApply
  BY <1>2, <1>8 DEF PollApply, TypeOK, Applied, channels
<1>9. CASE PollWalk
  <2>1. updates' \in Seq(Message)
    <3>1. updates \in Seq(Message) /\ poller.status \in Reply
      BY <1>2 DEF TypeOK
    <3>2. \A d, v \in News : Append(updates, Update(poller.status, d, v)) \in Seq(Message)
      BY <1>4, <3>1, QueueType
    <3>3. \/ UNCHANGED updates
          \/ \E d, v \in News : updates' = Append(updates, Update(poller.status, d, v))
      BY <1>1, <1>3, <1>9 DEF PollWalk
    <3> QED BY <3>1, <3>2, <3>3
  <2>2. poller' \in Thread
    BY <1>1, <1>2, <1>9 DEF PollWalk, TypeOK
  <2> QED BY <1>9, <2>1, <2>2 DEF PollWalk, TypeOK
<1> QED BY <1>5, <1>6, <1>7, <1>8, <1>9 DEF Poller

LEMMA WindowTypes ==
  ASSUME TypeOK, HandleNotice \/ HandleUpdate \/ HandleEvent
  PROVE  TypeOK'
<1>1. CASE HandleNotice
  <2>1. Head(notices) \in Texts /\ notices' \in Seq(Texts)
    BY <1>1, QueueType DEF HandleNotice, TypeOK
  <2> QED BY <1>1, <2>1 DEF HandleNotice, TypeOK
<1>2. CASE HandleUpdate
  <2> DEFINE u == Head(updates)
             s == u.status
             mode == IF Down(s) THEN board.toggle ELSE s.mode
  <2>1. u \in Message /\ updates' \in Seq(Message)
    BY <1>2, QueueType DEF HandleUpdate, TypeOK
  <2>2. s \in Reply /\ u.devices \in News /\ u.violations \in News
    BY <2>1 DEF Message
  <2>3. ~Down(s) \/ FromStatus(s) = "disarmed" => s \in Status
    BY <2>2 DEF Down, FromStatus, Reply
  <2>4. mode \in Toggles
    <3>1. board.toggle \in Toggles
      BY DEF TypeOK
    <3> QED BY <2>3, <3>1 DEF Status, Modes, Toggles
  <2>5. FromStatus(s) = "disarmed" => RingTotal(board.total, s.left) \in Nat
    BY <2>3, RingType DEF TypeOK, Status
  <2>6. \A old \in News : Keep(u.devices, old) \in News /\ Keep(u.violations, old) \in News
    BY <2>2 DEF Keep
  <2>7. /\ board' = [board EXCEPT !.drawn = TRUE, !.status = s, !.toggle = mode,
                      !.devices = Keep(u.devices, @),
                      !.total = IF FromStatus(s) = "disarmed" THEN RingTotal(@, s.left) ELSE 0]
        /\ settings' = IF settings.visible
              THEN [settings EXCEPT !.devices = Keep(u.devices, @), !.violations = Keep(u.violations, @)]
              ELSE settings
    BY <1>2 DEF HandleUpdate
  <2> HIDE DEF u, s, mode
  <2>8. board' \in [visible : BOOLEAN, drawn : BOOLEAN, status : Reply, toggle : Toggles,
                    total : Nat, notice : Texts, devices : News]
    BY <2>2, <2>4, <2>5, <2>6, <2>7 DEF TypeOK
  <2>9. settings' \in [visible : BOOLEAN, devices : News, violations : News]
    BY <2>6, <2>7 DEF TypeOK
  <2>10. commands' = commands
    BY <1>2, SyncingIsSilent DEF HandleUpdate, TypeOK
  <2> QED BY <1>2, <2>1, <2>8, <2>9, <2>10 DEF HandleUpdate, TypeOK
<1>3. CASE HandleEvent
  <2> DEFINE e == Head(events)
  <2>1. e \in Event /\ events' \in Seq(Event)
    <3>1. events \in Seq(Event) /\ events # <<>> /\ events' = Tail(events)
      BY <1>3 DEF HandleEvent, TypeOK
    <3> QED BY <3>1, QueueType
  <2>2. e.kind \in Kinds => Append(commands, e) \in Seq(Command)
    <3>1. e.kind \in Kinds => e \in Command
      BY <2>1 DEF Event, Command
    <3> QED BY <3>1, QueueType DEF TypeOK
  <2> HIDE DEF e
  <2>3. board' \in {board, [board EXCEPT !.visible = ~@], [board EXCEPT !.visible = TRUE]}
    BY <1>3 DEF HandleEvent
  <2>4. board' \in [visible : BOOLEAN, drawn : BOOLEAN, status : Reply, toggle : Toggles,
                    total : Nat, notice : Texts, devices : News]
    BY <2>3 DEF TypeOK
  <2>5. settings' \in {settings, [settings EXCEPT !.visible = TRUE]}
    BY <1>3 DEF HandleEvent
  <2>6. settings' \in [visible : BOOLEAN, devices : News, violations : News]
    BY <2>5 DEF TypeOK
  <2>7. commands' \in Seq(Command)
    BY <1>3, <2>2 DEF HandleEvent, TypeOK, e
  <2>8. UNCHANGED <<clock, daemon, late, tray, notices, updates, poller, sender, pressed, served,
                    changes>>
    BY <1>3 DEF HandleEvent
  <2> QED BY <2>1, <2>4, <2>6, <2>7, <2>8 DEF TypeOK
<1> QED BY <1>1, <1>2, <1>3

LEMMA PersonTypes ==
  ASSUME TypeOK, ClickMenu \/ ClickBoard \/ ClickAllowances \/ MoveWindow
  PROVE  TypeOK'
<1>1. Command \subseteq Event /\ \A kind \in Windows : Plain(kind) \in Event
  BY DEF Command, Event, Plain
<1>2. \A kind \in Kinds : Plain(kind) \in Command
  BY DEF Plain, Command
<1>3. CASE ClickMenu
  <2>1. events' \in Seq(Event)
    BY <1>1, <1>3, OffersType, QueueType DEF ClickMenu, TypeOK
  <2> QED BY <1>3, <2>1 DEF ClickMenu, Click, TypeOK
<1>4. CASE ClickBoard
  <2>1. commands' \in Seq(Command)
    <3>1. \A mode \in {"learn", "enforce"} : Plain(mode) \in Command
      BY <1>2 DEF Kinds
    <3>2. commands \in Seq(Command) /\ board.status \in Reply /\ board.drawn \in BOOLEAN
      BY DEF TypeOK
    <3>3. \E c \in Command : commands' = Append(commands, c)
      BY <1>4, <3>1, <3>2, OffersType DEF ClickBoard
    <3> QED BY <3>2, <3>3, QueueType
  <2>2. board' \in [visible : BOOLEAN, drawn : BOOLEAN, status : Reply, toggle : Toggles,
                    total : Nat, notice : Texts, devices : News]
    BY <1>4 DEF ClickBoard, TypeOK, Toggles
  <2> QED BY <1>4, <2>1, <2>2 DEF ClickBoard, Click, TypeOK
<1>5. CASE ClickAllowances
  <2>1. commands' \in Seq(Command)
    <3>1. Plain("pair") \in Command /\ Plain("unpair") \in Command
      BY <1>2 DEF Kinds
    <3> QED BY <1>5, <3>1, QueueType DEF ClickAllowances, TypeOK
  <2> QED BY <1>5, <2>1 DEF ClickAllowances, Click, TypeOK
<1>6. CASE MoveWindow
  <2>1. events' \in Seq(Event)
    <3>1. events \in Seq(Event)
      BY DEF TypeOK
    <3>2. UNCHANGED events \/ \E e \in Event : events' = Append(events, e)
      BY <1>1, <1>6 DEF MoveWindow
    <3> QED BY <3>1, <3>2, QueueType
  <2>2. /\ board' \in [visible : BOOLEAN, drawn : BOOLEAN, status : Reply, toggle : Toggles,
                       total : Nat, notice : Texts, devices : News]
        /\ settings' \in [visible : BOOLEAN, devices : News, violations : News]
        /\ changes' \in Nat
    <3>1. /\ board' \in {board, [board EXCEPT !.visible = FALSE]}
          /\ settings' \in {settings, [settings EXCEPT !.visible = TRUE], [settings EXCEPT !.visible = FALSE]}
      BY <1>6 DEF MoveWindow
    <3>2. changes' = changes + 1
      BY <1>6, Zenon DEF MoveWindow
    <3>3. board' \in [visible : BOOLEAN, drawn : BOOLEAN, status : Reply, toggle : Toggles,
                      total : Nat, notice : Texts, devices : News]
      BY <3>1 DEF TypeOK
    <3>4. settings' \in [visible : BOOLEAN, devices : News, violations : News]
      BY <3>1 DEF TypeOK
    <3> QED BY <3>2, <3>3, <3>4 DEF TypeOK
  <2> QED BY <1>6, <2>1, <2>2 DEF MoveWindow, TypeOK
<1> QED BY <1>3, <1>4, <1>5, <1>6

LEMMA InitTypes == Init => TypeOK
<1>1. None \in Reply /\ None \in Texts /\ None \in News
  BY DEF Reply, Texts, News
<1>2. \A S : <<>> \in Seq(S)
  OBVIOUS
<1>3. Init => daemon \in Daemon
  BY DesktopAssumption DEF Init, Daemon, Modes, Age
<1>4. Init => board \in [visible : BOOLEAN, drawn : BOOLEAN, status : Reply, toggle : Toggles,
                         total : Nat, notice : Texts, devices : News]
  BY <1>1 DEF Init, Toggles
<1>5. Init => /\ tray \in [status : Reply, notice : Texts, stale : BOOLEAN]
              /\ settings \in [visible : BOOLEAN, devices : News, violations : News]
              /\ sender \in [at : {"idle", "send", "say", "tell"}, command : Command \cup {None}, notice : Texts]
              /\ sender.at = "idle"
  BY <1>1 DEF Init
<1>6. Init => poller \in [at : {"notice", "clear", "fetch", "apply", "walk"}, tick : 0..3, status : Reply,
                          dashboard : BOOLEAN, settings : BOOLEAN]
  BY <1>1 DEF Init
<1>7. Init => /\ events \in Seq(Event) /\ commands \in Seq(Command)
              /\ notices \in Seq(Texts) /\ updates \in Seq(Message)
  BY <1>2 DEF Init
<1>8. Init => clock = 0 /\ late = {} /\ pressed = 0 /\ served = 0 /\ changes = 0
  BY DEF Init
<1> QED BY <1>3, <1>4, <1>5, <1>6, <1>7, <1>8 DEF TypeOK

(* Every variable of the desktop keeps its type: what is in the channels   *)
(* and in the threads' hands is what the code's types say.                 *)
THEOREM DesktopTypeCorrect == Spec => []TypeOK
<1>1. TypeOK /\ [Next]_vars => TypeOK'
  <2>1. TypeOK /\ UNCHANGED vars => TypeOK'
    BY DEF TypeOK, vars, channels
  <2> QED BY <2>1, DaemonTypes, SenderTypes, PollerTypes, WindowTypes, PersonTypes DEF Next
<1> QED BY <1>1, InitTypes, PTL DEF Spec

---------------------------------------------------------------------------
(* Clicks.                                                                 *)
LEMMA WaitingType ==
  ASSUME NEW q \in Seq(Event)
  PROVE  Waiting(q) \in Nat /\ IsFiniteSet({i \in DOMAIN q : q[i].kind \in Kinds})
<1>1. IsFiniteSet(1..Len(q)) /\ DOMAIN q = 1..Len(q)
  BY FS_Interval, LenProperties
<1> QED BY <1>1, FS_Subset, FS_CardinalityType DEF Waiting

(* An event that comes in waits, and is counted if it is a click.          *)
LEMMA WaitingIn ==
  ASSUME NEW q \in Seq(Event), NEW e \in Event
  PROVE  Waiting(Append(q, e)) = Waiting(q) + (IF e.kind \in Kinds THEN 1 ELSE 0)
<1> DEFINE S == {i \in DOMAIN q : q[i].kind \in Kinds}
           T == {i \in DOMAIN Append(q, e) : Append(q, e)[i].kind \in Kinds}
           n == Len(q) + 1
<1>1. /\ DOMAIN q = 1..Len(q) /\ DOMAIN Append(q, e) = 1..n /\ Len(q) \in Nat
      /\ Append(q, e)[n] = e /\ \A i \in 1..Len(q) : Append(q, e)[i] = q[i]
  BY AppendProperties, LenProperties
<1>2. T = IF e.kind \in Kinds THEN S \cup {n} ELSE S
  BY <1>1
<1>3. n \notin S
  BY <1>1
<1>4. IsFiniteSet(S) /\ Cardinality(S) \in Nat
  BY WaitingType DEF Waiting
<1>5. Cardinality(S \cup {n}) = Cardinality(S) + 1
  BY <1>3, <1>4, FS_AddElement
<1> HIDE DEF S, T
<1>6. Cardinality(T) = Cardinality(S) + (IF e.kind \in Kinds THEN 1 ELSE 0)
  BY <1>2, <1>4, <1>5
<1> QED BY <1>6 DEF Waiting, S, T

(* The event that is taken out is the one that no longer waits.            *)
LEMMA WaitingOut ==
  ASSUME NEW q \in Seq(Event), q # <<>>
  PROVE  Waiting(q) = Waiting(Tail(q)) + (IF Head(q).kind \in Kinds THEN 1 ELSE 0)
<1> DEFINE S == {i \in DOMAIN q : q[i].kind \in Kinds}
           T == {i \in DOMAIN Tail(q) : Tail(q)[i].kind \in Kinds}
           f == [i \in T |-> i + 1]
<1>1. /\ DOMAIN q = 1..Len(q) /\ Len(q) \in Nat \ {0} /\ DOMAIN Tail(q) = 1..(Len(q) - 1)
      /\ Head(q) = q[1] /\ \A i \in 1..(Len(q) - 1) : Tail(q)[i] = q[i + 1]
  BY HeadTailProperties, LenProperties
<1>2. f \in Bijection(T, S \ {1})
  <2>1. f \in [T -> S \ {1}]
    BY <1>1
  <2>2. \A i, j \in T : f[i] = f[j] => i = j
    BY <1>1
  <2>3. \A j \in S \ {1} : \E i \in T : f[i] = j
    <3> TAKE j \in S \ {1}
    <3>1. j - 1 \in T /\ f[j - 1] = j
      BY <1>1
    <3> QED BY <3>1
  <2> HIDE DEF f, S, T
  <2> QED BY <2>1, <2>2, <2>3 DEF Bijection, Injection, Surjection, IsInjective
<1>3. IsFiniteSet(S) /\ IsFiniteSet(T) /\ Cardinality(S) \in Nat
  BY WaitingType, HeadTailProperties DEF Waiting
<1>4. Cardinality(S \ {1}) = Cardinality(T)
  BY <1>2, <1>3, FS_Bijection DEF ExistsBijection
<1>5. 1 \in S <=> Head(q).kind \in Kinds
  BY <1>1
<1>6. Cardinality(S \ {1}) = IF 1 \in S THEN Cardinality(S) - 1 ELSE Cardinality(S)
  BY <1>3, FS_RemoveElement
<1> HIDE DEF S, T, f
<1>7. Cardinality(S) = Cardinality(T) + (IF Head(q).kind \in Kinds THEN 1 ELSE 0)
  BY <1>3, <1>4, <1>5, <1>6
<1> QED BY <1>7 DEF Waiting, S, T

LEMMA ClickStep == TypeOK /\ EveryClickOnce /\ [Next]_vars => EveryClickOnce'
<1> SUFFICES ASSUME TypeOK, EveryClickOnce, [Next]_vars PROVE EveryClickOnce'
  OBVIOUS
<1> USE DEF EveryClickOnce
<1> /\ events \in Seq(Event) /\ commands \in Seq(Command) /\ pressed \in Nat /\ served \in Nat
    /\ Waiting(events) \in Nat /\ Len(commands) \in Nat
  BY WaitingType, LenProperties DEF TypeOK
<1>1. \A c \in Command : Len(Append(commands, c)) = Len(commands) + 1
  BY AppendProperties
<1>2. CASE TakeCommand
  <2>1. Len(commands') = Len(commands) - 1 /\ sender.at = "idle" /\ sender'.at # "idle"
    BY <1>2, HeadTailProperties DEF TakeCommand
  <2> QED BY <1>2, <2>1 DEF TakeCommand
<1>3. CASE SendCommand
  <2>1. sender.at = "send" /\ sender'.at = "tell"
    BY <1>3 DEF SendCommand, TypeOK
  <2> QED BY <1>3, <2>1 DEF SendCommand, channels
<1>4. CASE SayNotice
  <2>1. \/ sender.at = "say" /\ sender'.at = "send" /\ served' = served
        \/ sender.at = "tell" /\ sender'.at = "idle" /\ served' = served + 1
    BY <1>4 DEF SayNotice, TypeOK
  <2> QED BY <1>4, <2>1 DEF SayNotice
<1>5. CASE HandleEvent
  <2> DEFINE e == Head(events)
  <2>1. Waiting(events) = Waiting(events') + (IF e.kind \in Kinds THEN 1 ELSE 0)
    BY <1>5, WaitingOut DEF HandleEvent
  <2>2. events' \in Seq(Event) /\ e \in Event /\ Waiting(events') \in Nat
    BY <1>5, HeadTailProperties, WaitingType DEF HandleEvent
  <2>3. Len(commands') = Len(commands) + (IF e.kind \in Kinds THEN 1 ELSE 0)
    <3>1. e.kind \in Kinds => e \in Command
      BY <2>2 DEF Event, Command
    <3>2. IF e.kind \in Kinds THEN commands' = Append(commands, e) ELSE commands' = commands
      BY <1>5 DEF HandleEvent, Kinds
    <3> QED BY <1>1, <3>1, <3>2
  <2>4. UNCHANGED <<pressed, served, sender>>
    BY <1>5 DEF HandleEvent
  <2> QED BY <2>1, <2>2, <2>3, <2>4
<1>6. CASE HandleUpdate
  <2>1. commands' = commands
    BY <1>6, SyncingIsSilent DEF HandleUpdate
  <2> QED BY <1>6, <2>1 DEF HandleUpdate
<1>7. CASE ClickMenu
  <2>1. PICK c \in Command : events' = Append(events, c)
    BY <1>7, OffersType DEF ClickMenu, TypeOK
  <2>2. c \in Event /\ c.kind \in Kinds
    BY DEF Command, Event
  <2>3. Waiting(events') = Waiting(events) + 1
    BY <2>1, <2>2, WaitingIn
  <2> QED BY <1>7, <2>3 DEF ClickMenu, Click
<1>8. CASE ClickBoard \/ ClickAllowances
  <2>1. \A kind \in Kinds : Plain(kind) \in Command
    BY DEF Plain, Command
  <2>2. \E c \in Command : commands' = Append(commands, c)
    <3>1. {"learn", "enforce", "pair", "unpair"} \subseteq Kinds
      BY DEF Kinds
    <3>2. board.status \in Reply /\ board.drawn \in BOOLEAN
      BY DEF TypeOK
    <3> QED BY <1>8, <2>1, <3>1, <3>2, OffersType DEF ClickBoard, ClickAllowances
  <2>3. pressed' = pressed + 1 /\ UNCHANGED <<served, events, sender>>
    BY <1>8 DEF ClickBoard, ClickAllowances, Click
  <2> QED BY <1>1, <2>2, <2>3
<1>9. CASE MoveWindow
  <2>1. Waiting(events') = Waiting(events)
    <3>1. \/ UNCHANGED events
          \/ \E kind \in Windows : events' = Append(events, Plain(kind))
      BY <1>9 DEF MoveWindow
    <3>2. \A kind \in Windows : Plain(kind) \in Event /\ Plain(kind).kind \notin Kinds
      BY DEF Plain, Event, Windows, Kinds
    <3>3. \A kind \in Windows : Waiting(Append(events, Plain(kind))) = Waiting(events)
      BY <3>2, WaitingIn
    <3>4. ASSUME NEW kind \in Windows, events' = Append(events, Plain(kind)) PROVE Waiting(events') = Waiting(events)
      BY <3>3, <3>4, Zenon
    <3>5. ASSUME UNCHANGED events PROVE Waiting(events') = Waiting(events)
      BY <3>5, Zenon
    <3> QED BY <3>1, <3>4, <3>5, Zenon
  <2> QED BY <1>9, <2>1 DEF MoveWindow
<1>10. CASE Poller \/ HandleNotice \/ Other \/ DaemonPolls \/ RunsLate \/ NoticeAges \/ Tick \/ UNCHANGED vars
  <2>1. UNCHANGED <<pressed, served, events, commands, sender>>
    BY <1>10, Zenon DEF Poller, PollNotice, PollClear, PollStatus, PollApply, PollWalk, HandleNotice, Other,
       DaemonPolls, RunsLate, NoticeAges, Tick, vars, channels
  <2> QED BY <2>1
<1> QED BY <1>2, <1>3, <1>4, <1>5, <1>6, <1>7, <1>8, <1>9, <1>10 DEF Next, Sender

---------------------------------------------------------------------------
(* Deadlines.  A status tells of a disarm that has no longer to run than   *)
(* it says, whenever it is looked at, and never longer than the maximum.   *)
Dated(s, now) == s # None => s.until <= now + s.left /\ s.until <= now + MAX_DISARM

(* An extension that runs now, or later, is no shorter than what was seen. *)
Extends(c, now) == c.least <= now + c.secs /\ c.secs <= MAX_DISARM

DeadlineInv ==
  /\ daemon.until <= clock + MAX_DISARM
  /\ Dated(tray.status, clock) /\ Dated(board.status, clock) /\ Dated(poller.status, clock)
  /\ \A i \in DOMAIN updates : Dated(updates[i].status, clock)
  /\ \A i \in DOMAIN commands : Extends(commands[i], clock)
  /\ \A i \in DOMAIN events : events[i].kind \in Kinds => Extends(events[i], clock)
  /\ sender.at # "idle" => Extends(sender.command, clock)
  /\ \A c \in late : Extends(c, clock)

(* Neither gets worse with time.                                           *)
LEMMA DatedLater ==
  ASSUME NEW now \in Nat, NEW then \in Nat, then >= now
  PROVE  /\ \A s \in Reply : Dated(s, now) => Dated(s, then)
         /\ \A c \in Event : Extends(c, now) => Extends(c, then)
<1> MAX_DISARM \in Nat
  BY PresetsType
<1>1. ASSUME NEW s \in Reply, Dated(s, now) PROVE Dated(s, then)
  <2>1. CASE s = None
    BY <2>1 DEF Dated
  <2>2. CASE s \in Status
    BY <1>1, <2>2 DEF Dated, Status
  <2> QED BY <2>1, <2>2 DEF Reply
<1>2. ASSUME NEW c \in Event, Extends(c, now) PROVE Extends(c, then)
  BY <1>2 DEF Extends, Event
<1> QED BY <1>1, <1>2

(* What is fetched is dated, and what is offered for a dated status        *)
(* extends it: Sum caps at the maximum, which no deadline passes.          *)
LEMMA FetchedIsDated == TypeOK /\ daemon.until <= clock + MAX_DISARM => Dated(Fetched, clock)
BY PresetsType DEF TypeOK, Daemon, Fetched, Left, Dated

LEMMA PlainExtends == ASSUME NEW now \in Nat PROVE \A kind \in Kinds : Extends(Plain(kind), now)
BY PresetsType DEF Plain, Extends

LEMMA OffersExtend ==
  ASSUME NEW now \in Nat, NEW s \in Reply, NEW drawn \in BOOLEAN, Dated(s, now)
  PROVE  \A c \in MenuOffers(s) \cup BoardOffers(s, drawn) : Extends(c, now)
<1> MAX_DISARM \in Nat /\ Presets \subseteq Nat
  BY PresetsType
<1>1. \A p \in Presets : Extends(Disarm(p), now)
  BY PresetsType DEF Disarm, Extends
<1>2. FromStatus(s) = "disarmed" => \A c \in Extensions(s) : Extends(c, now)
  <2> SUFFICES ASSUME FromStatus(s) = "disarmed", NEW p \in Presets
               PROVE  Extends([kind |-> "disarm", secs |-> Sum(s.left, p), least |-> s.until], now)
    BY DEF Extensions
  <2>1. s \in Status /\ s # None
    BY DEF FromStatus, Reply
  <2>2. s.left \in Nat /\ s.until \in Nat /\ s.until <= now + s.left /\ s.until <= now + MAX_DISARM
    BY <2>1 DEF Dated, Status
  <2>3. Sum(s.left, p) \in Nat /\ Sum(s.left, p) <= MAX_DISARM /\ s.until <= now + Sum(s.left, p)
    BY <2>2, PresetsType DEF Sum
  <2> QED BY <2>3 DEF Extends
<1>3. FIVE_MINUTES \in Presets /\ {"arm", "learn", "enforce", "reload"} \subseteq Kinds
  BY DesktopAssumption DEF Kinds
<1>4. \A c \in MenuOffers(s) : Extends(c, now)
  BY <1>1, <1>2, <1>3, PlainExtends DEF MenuOffers, Maintenance
<1>5. \A c \in BoardOffers(s, drawn) : Extends(c, now)
  BY <1>1, <1>3, PlainExtends DEF BoardOffers
<1> QED BY <1>4, <1>5

(* A command that runs sets the deadline it extends to, or none.           *)
LEMMA RunningExtends ==
  ASSUME TypeOK, NEW c \in Command, Extends(c, clock), daemon.until <= clock + MAX_DISARM
  PROVE  /\ Running(daemon, c).until <= clock + MAX_DISARM
         /\ Running(daemon, c).until # daemon.until => Running(daemon, c).until >= c.least
<1> /\ clock \in Nat /\ MAX_DISARM \in Nat /\ daemon \in Daemon
    /\ c.secs \in Nat /\ c.least \in Nat /\ c.least <= clock + c.secs /\ c.secs <= MAX_DISARM
  BY PresetsType DEF TypeOK, Command, Extends
<1>1. Running(daemon, c).until \in {daemon.until, clock + c.secs}
  BY DEF Running, Daemon
<1> QED BY <1>1 DEF Daemon

(* What holds of all that is in a queue, and of what comes in, still does. *)
LEMMA Queued ==
  ASSUME NEW S, NEW q \in Seq(S), NEW e \in S
  PROVE  /\ \A i \in DOMAIN Append(q, e) : Append(q, e)[i] = e \/ (i \in DOMAIN q /\ Append(q, e)[i] = q[i])
         /\ q # <<>> => /\ 1 \in DOMAIN q /\ Head(q) = q[1]
                        /\ \A i \in DOMAIN Tail(q) : i + 1 \in DOMAIN q /\ Tail(q)[i] = q[i + 1]
BY AppendProperties, HeadTailProperties, LenProperties

LEMMA DeadlineSender == TypeOK /\ DeadlineInv /\ Sender => DeadlineInv'
<1> SUFFICES ASSUME TypeOK, DeadlineInv, Sender PROVE DeadlineInv'
  OBVIOUS
<1>a. tray \in [status : Reply, notice : Texts, stale : BOOLEAN]
  BY DEF TypeOK
<1>b. \A text : Notice(text).status = tray.status
  BY <1>a DEF Notice
<1>c. commands \in Seq(Command)
  BY DEF TypeOK
<1>1. CASE TakeCommand
  <2>1. commands # <<>> /\ commands' = Tail(commands)
    BY <1>1 DEF TakeCommand
  <2>2. 1 \in DOMAIN commands /\ Head(commands) = commands[1]
    BY <1>c, <2>1, Queued
  <2>3. \A i \in DOMAIN Tail(commands) : i + 1 \in DOMAIN commands /\ Tail(commands)[i] = commands[i + 1]
    BY <1>c, <2>1, Queued
  <2>4. Extends(Head(commands), clock) /\ \A i \in DOMAIN commands' : Extends(commands'[i], clock)
    BY <2>1, <2>2, <2>3 DEF DeadlineInv
  <2>5. sender'.command = Head(commands)
    BY <1>1 DEF TakeCommand
  <2>6. tray'.status = tray.status
    BY <1>1, <1>b DEF TakeCommand
  <2> QED BY <1>1, <2>4, <2>5, <2>6 DEF TakeCommand, DeadlineInv
<1>2. CASE SendCommand
  <2>1. sender.at = "send" /\ sender.command \in Command /\ Extends(sender.command, clock)
    BY <1>2 DEF SendCommand, TypeOK, DeadlineInv
  <2>2. daemon' = daemon \/ daemon' = Running(daemon, sender.command)
    BY <1>2 DEF SendCommand
  <2>3. daemon'.until <= clock + MAX_DISARM
    BY <2>1, <2>2, RunningExtends DEF DeadlineInv
  <2>4. late' = late \/ late' = late \cup {sender.command}
    BY <1>2 DEF SendCommand
  <2>5. \A c \in late' : Extends(c, clock)
    BY <2>1, <2>4 DEF DeadlineInv
  <2>6. tray'.status = tray.status /\ sender'.command = sender.command
    <3>1. sender \in [at : {"idle", "send", "say", "tell"}, command : Command \cup {None}, notice : Texts]
      BY DEF TypeOK
    <3>2. \E text : tray' = Notice(text) /\ sender' = [sender EXCEPT !.at = "tell", !.notice = text]
      BY <1>2 DEF SendCommand
    <3> QED BY <1>b, <3>1, <3>2
  <2> QED BY <1>2, <2>1, <2>3, <2>5, <2>6 DEF SendCommand, DeadlineInv, channels
<1>3. CASE SayNotice
  <2>1. sender'.at # "idle" => sender.at # "idle" /\ sender'.command = sender.command
    BY <1>3 DEF SayNotice, TypeOK
  <2> QED BY <1>3, <2>1 DEF SayNotice, DeadlineInv
<1> QED BY <1>1, <1>2, <1>3 DEF Sender

LEMMA DeadlinePoller == TypeOK /\ DeadlineInv /\ Poller => DeadlineInv'
<1> SUFFICES ASSUME TypeOK, DeadlineInv, Poller PROVE DeadlineInv'
  OBVIOUS
<1>a. /\ tray \in [status : Reply, notice : Texts, stale : BOOLEAN]
      /\ poller \in [at : {"notice", "clear", "fetch", "apply", "walk"}, tick : 0..3, status : Reply,
                     dashboard : BOOLEAN, settings : BOOLEAN]
      /\ updates \in Seq(Message)
  BY DEF TypeOK
<1>b. Notice(None).status = tray.status
  BY <1>a DEF Notice
<1>c. OnTick.status = poller.status /\ NextTick.status = poller.status
  BY <1>a DEF OnTick, NextTick
<1>d. Dated(None, clock)
  BY DEF Dated
<1>1. CASE PollNotice
  <2>1. tray'.status = tray.status /\ poller'.status = poller.status
    BY <1>1, <1>a, <1>b, <1>c DEF PollNotice
  <2> QED BY <1>1, <2>1 DEF PollNotice, DeadlineInv, channels
<1>2. CASE PollClear
  <2>1. poller'.status = poller.status
    BY <1>2, <1>c DEF PollClear
  <2> QED BY <1>2, <2>1 DEF PollClear, DeadlineInv
<1>e. ASSUME NEW m \in Message, Dated(m.status, clock), updates' = Append(updates, m)
      PROVE  \A i \in DOMAIN updates' : Dated(updates'[i].status, clock)
  <2>1. \A i \in DOMAIN Append(updates, m) :
          Append(updates, m)[i] = m \/ (i \in DOMAIN updates /\ Append(updates, m)[i] = updates[i])
    BY <1>a, Queued
  <2> QED BY <2>1, <1>e DEF DeadlineInv
<1>3. CASE PollStatus
  <2>1. Fetched \in Reply /\ Dated(Fetched, clock)
    BY FetchedType, FetchedIsDated DEF DeadlineInv
  <2>2. Update(Fetched, None, None) \in Message /\ Update(Fetched, None, None).status = Fetched
    BY <2>1 DEF Update, Message, News
  <2>3. updates' = Append(updates, Update(Fetched, None, None)) /\ poller'.status = Fetched
    BY <1>3, <1>a DEF PollStatus
  <2>4. \A i \in DOMAIN updates' : Dated(updates'[i].status, clock)
    BY <1>e, <2>1, <2>2, <2>3
  <2> QED BY <1>3, <2>1, <2>3, <2>4 DEF PollStatus, DeadlineInv
<1>4. CASE PollApply
  <2>1. tray'.status = poller.status /\ poller'.status = poller.status
    BY <1>4, <1>a DEF PollApply, Applied
  <2> QED BY <1>4, <2>1 DEF PollApply, DeadlineInv, channels
<1>5. CASE PollWalk
  <2>1. poller'.status = None
    BY <1>5, <1>a DEF PollWalk, NextTick
  <2>2. \A i \in DOMAIN updates' : Dated(updates'[i].status, clock)
    <3>1. Listing \in News
      BY DEF Listing, News, TypeOK, Daemon
    <3>2. \/ updates' = updates
          \/ \E v \in News : updates' = Append(updates, Update(poller.status, Listing, v))
      BY <1>5, <3>1 DEF PollWalk, News
    <3>3. \A v \in News : /\ Update(poller.status, Listing, v) \in Message
                          /\ Update(poller.status, Listing, v).status = poller.status
      BY <1>a, <3>1 DEF Update, Message
    <3>4. Dated(poller.status, clock) /\ \A i \in DOMAIN updates : Dated(updates[i].status, clock)
      BY DEF DeadlineInv
    <3> QED BY <1>e, <3>2, <3>3, <3>4
  <2> QED BY <1>5, <1>d, <2>1, <2>2 DEF PollWalk, DeadlineInv
<1> QED BY <1>1, <1>2, <1>3, <1>4, <1>5 DEF Poller

LEMMA DeadlineWindows ==
  TypeOK /\ DeadlineInv /\ (HandleNotice \/ HandleUpdate \/ HandleEvent) => DeadlineInv'
<1> SUFFICES ASSUME TypeOK, DeadlineInv, HandleNotice \/ HandleUpdate \/ HandleEvent PROVE DeadlineInv'
  OBVIOUS
<1>a. /\ board \in [visible : BOOLEAN, drawn : BOOLEAN, status : Reply, toggle : Toggles,
                    total : Nat, notice : Texts, devices : News]
      /\ events \in Seq(Event) /\ commands \in Seq(Command) /\ updates \in Seq(Message)
  BY DEF TypeOK
<1>1. CASE HandleNotice
  <2>1. board'.status = board.status
    BY <1>1, <1>a DEF HandleNotice
  <2> QED BY <1>1, <2>1 DEF HandleNotice, DeadlineInv
<1>2. CASE HandleUpdate
  <2>1. updates # <<>> /\ updates' = Tail(updates) /\ commands' = commands
    BY <1>2, <1>a, SyncingIsSilent DEF HandleUpdate
  <2>2. 1 \in DOMAIN updates /\ Head(updates) = updates[1]
    BY <1>a, <2>1, Queued
  <2>3. \A i \in DOMAIN Tail(updates) : i + 1 \in DOMAIN updates /\ Tail(updates)[i] = updates[i + 1]
    BY <1>a, <2>1, Queued
  <2>4. Dated(Head(updates).status, clock) /\ \A i \in DOMAIN updates' : Dated(updates'[i].status, clock)
    BY <2>1, <2>2, <2>3 DEF DeadlineInv
  <2>5. board'.status = Head(updates).status
    BY <1>2, <1>a DEF HandleUpdate
  <2> QED BY <1>2, <2>1, <2>4, <2>5 DEF HandleUpdate, DeadlineInv
<1>3. CASE HandleEvent
  <2>1. events # <<>> /\ events' = Tail(events)
    BY <1>3 DEF HandleEvent
  <2>2. 1 \in DOMAIN events /\ Head(events) = events[1] /\ Head(events) \in Event
    BY <1>a, <2>1, Queued, HeadTailProperties
  <2>3. \A i \in DOMAIN Tail(events) : i + 1 \in DOMAIN events /\ Tail(events)[i] = events[i + 1]
    BY <1>a, <2>1, Queued
  <2>4. \A i \in DOMAIN events' : events'[i].kind \in Kinds => Extends(events'[i], clock)
    BY <2>1, <2>3 DEF DeadlineInv
  <2>5. \A i \in DOMAIN commands' : Extends(commands'[i], clock)
    <3>1. \/ commands' = commands
          \/ Head(events).kind \in Kinds /\ commands' = Append(commands, Head(events))
      BY <1>3 DEF HandleEvent
    <3>2. ASSUME Head(events).kind \in Kinds, commands' = Append(commands, Head(events))
          PROVE  \A i \in DOMAIN commands' : Extends(commands'[i], clock)
      <4>1. Head(events) \in Command /\ Extends(Head(events), clock)
        BY <2>2, <3>2 DEF Event, Command, DeadlineInv
      <4>2. \A i \in DOMAIN Append(commands, Head(events)) :
              \/ Append(commands, Head(events))[i] = Head(events)
              \/ i \in DOMAIN commands /\ Append(commands, Head(events))[i] = commands[i]
        BY <1>a, <4>1, Queued
      <4> QED BY <3>2, <4>1, <4>2 DEF DeadlineInv
    <3> QED BY <3>1, <3>2 DEF DeadlineInv
  <2>6. board'.status = board.status
    BY <1>3, <1>a DEF HandleEvent
  <2> QED BY <1>3, <2>4, <2>5, <2>6 DEF HandleEvent, DeadlineInv
<1> QED BY <1>1, <1>2, <1>3

LEMMA DeadlinePerson ==
  TypeOK /\ DeadlineInv /\ (ClickMenu \/ ClickBoard \/ ClickAllowances \/ MoveWindow) => DeadlineInv'
<1> SUFFICES ASSUME TypeOK, DeadlineInv, ClickMenu \/ ClickBoard \/ ClickAllowances \/ MoveWindow
             PROVE  DeadlineInv'
  OBVIOUS
<1>a. /\ board \in [visible : BOOLEAN, drawn : BOOLEAN, status : Reply, toggle : Toggles,
                    total : Nat, notice : Texts, devices : News]
      /\ tray \in [status : Reply, notice : Texts, stale : BOOLEAN]
      /\ events \in Seq(Event) /\ commands \in Seq(Command) /\ clock \in Nat
      /\ tray.status \in Reply /\ board.status \in Reply /\ board.drawn \in BOOLEAN
  BY DEF TypeOK
<1>b. ASSUME NEW c \in Command, Extends(c, clock), commands' = Append(commands, c)
      PROVE  \A i \in DOMAIN commands' : Extends(commands'[i], clock)
  <2>1. \A i \in DOMAIN Append(commands, c) :
          Append(commands, c)[i] = c \/ (i \in DOMAIN commands /\ Append(commands, c)[i] = commands[i])
    BY <1>a, Queued
  <2> QED BY <2>1, <1>b DEF DeadlineInv
<1>c. ASSUME NEW e \in Event, e.kind \in Kinds => Extends(e, clock), events' = Append(events, e)
      PROVE  \A i \in DOMAIN events' : events'[i].kind \in Kinds => Extends(events'[i], clock)
  <2>1. \A i \in DOMAIN Append(events, e) :
          Append(events, e)[i] = e \/ (i \in DOMAIN events /\ Append(events, e)[i] = events[i])
    BY <1>a, Queued
  <2> QED BY <2>1, <1>c DEF DeadlineInv
<1>d. \A kind \in Kinds : Plain(kind) \in Command /\ Extends(Plain(kind), clock)
  BY <1>a, PlainExtends DEF Plain, Command
<1>1. CASE ClickMenu
  <2>1. PICK c \in MenuOffers(tray.status) : events' = Append(events, c)
    BY <1>1 DEF ClickMenu
  <2>2. c \in Command /\ Extends(c, clock)
    BY <1>a, OffersType, OffersExtend DEF DeadlineInv
  <2>3. c \in Event
    BY <2>2 DEF Command, Event
  <2>4. \A i \in DOMAIN events' : events'[i].kind \in Kinds => Extends(events'[i], clock)
    BY <1>c, <2>1, <2>2, <2>3
  <2> QED BY <1>1, <2>4 DEF ClickMenu, DeadlineInv
<1>2. CASE ClickBoard
  <2>1. \E c \in Command : Extends(c, clock) /\ commands' = Append(commands, c)
    <3>1. \A c \in BoardOffers(board.status, board.drawn) : c \in Command /\ Extends(c, clock)
      BY <1>a, OffersType, OffersExtend DEF DeadlineInv
    <3>2. {"learn", "enforce"} \subseteq Kinds
      BY DEF Kinds
    <3>3. \/ \E c \in BoardOffers(board.status, board.drawn) : commands' = Append(commands, c)
          \/ \E mode \in {"learn", "enforce"} : commands' = Append(commands, Plain(mode))
      BY <1>2 DEF ClickBoard
    <3> QED BY <1>d, <3>1, <3>2, <3>3
  <2>2. board'.status = board.status
    BY <1>2, <1>a DEF ClickBoard
  <2>3. \A i \in DOMAIN commands' : Extends(commands'[i], clock)
    BY <1>b, <2>1
  <2> QED BY <1>2, <2>2, <2>3 DEF ClickBoard, DeadlineInv
<1>3. CASE ClickAllowances
  <2>1. \E kind \in Kinds : commands' = Append(commands, Plain(kind))
    BY <1>3 DEF ClickAllowances, Kinds
  <2>2. \A i \in DOMAIN commands' : Extends(commands'[i], clock)
    BY <1>b, <1>d, <2>1
  <2> QED BY <1>3, <2>2 DEF ClickAllowances, DeadlineInv
<1>4. CASE MoveWindow
  <2>1. \A kind \in Windows : Plain(kind) \in Event /\ Plain(kind).kind \notin Kinds
    BY DEF Plain, Event, Windows, Kinds
  <2>2. \A i \in DOMAIN events' : events'[i].kind \in Kinds => Extends(events'[i], clock)
    <3>1. \/ events' = events
          \/ \E kind \in Windows : events' = Append(events, Plain(kind))
      BY <1>4 DEF MoveWindow
    <3>2. ASSUME NEW kind \in Windows, events' = Append(events, Plain(kind))
          PROVE  \A i \in DOMAIN events' : events'[i].kind \in Kinds => Extends(events'[i], clock)
      BY <1>c, <2>1, <3>2
    <3>3. ASSUME events' = events
          PROVE  \A i \in DOMAIN events' : events'[i].kind \in Kinds => Extends(events'[i], clock)
      BY <3>3 DEF DeadlineInv
    <3> QED BY <3>1, <3>2, <3>3
  <2>3. board'.status = board.status
    BY <1>4, <1>a DEF MoveWindow
  <2> QED BY <1>4, <2>2, <2>3 DEF MoveWindow, DeadlineInv
<1> QED BY <1>1, <1>2, <1>3, <1>4

LEMMA DeadlineDaemon ==
  TypeOK /\ DeadlineInv /\ (Other \/ DaemonPolls \/ RunsLate \/ NoticeAges \/ Tick) => DeadlineInv'
<1> SUFFICES ASSUME TypeOK, DeadlineInv, Other \/ DaemonPolls \/ RunsLate \/ NoticeAges \/ Tick
             PROVE  DeadlineInv'
  OBVIOUS
<1>a. /\ daemon \in Daemon /\ clock \in Nat /\ MAX_DISARM \in Nat
      /\ tray \in [status : Reply, notice : Texts, stale : BOOLEAN]
  BY PresetsType DEF TypeOK
<1>1. CASE Other
  <2>1. daemon'.until = daemon.until \/ \E p \in Presets : daemon'.until = clock + p
    BY <1>1, <1>a DEF Other, Daemon
  <2>2. daemon'.until <= clock + MAX_DISARM
    BY <1>a, <2>1, PresetsType DEF DeadlineInv
  <2> QED BY <1>1, <2>2 DEF Other, DeadlineInv, channels
<1>2. CASE DaemonPolls
  <2>1. daemon'.until = daemon.until
    BY <1>2, <1>a DEF DaemonPolls, Daemon
  <2> QED BY <1>2, <2>1 DEF DaemonPolls, DeadlineInv, channels
<1>3. CASE RunsLate
  <2>1. PICK c \in late : late' = late \ {c} /\ daemon' \in {daemon, Running(daemon, c)}
    BY <1>3 DEF RunsLate
  <2>2. c \in Command /\ Extends(c, clock)
    BY DEF TypeOK, DeadlineInv
  <2>3. daemon'.until <= clock + MAX_DISARM
    BY <2>1, <2>2, RunningExtends DEF DeadlineInv
  <2> QED BY <1>3, <2>1, <2>3 DEF RunsLate, DeadlineInv, channels
<1>4. CASE NoticeAges
  <2>1. tray'.status = tray.status
    BY <1>4, <1>a DEF NoticeAges
  <2> QED BY <1>4, <2>1 DEF NoticeAges, DeadlineInv, channels
<1>5. CASE Tick
  <2>1. clock' = clock + 1 /\ clock' \in Nat /\ clock' >= clock
    BY <1>5, <1>a DEF Tick
  <2>2. daemon'.until = daemon.until /\ daemon.until \in Nat
    BY <1>5, <1>a DEF Tick, Daemon
  <2>3. UNCHANGED <<tray, board, poller, updates, commands, events, sender, late>>
    BY <1>5 DEF Tick, channels
  <2>4. \A s \in Reply : Dated(s, clock) => Dated(s, clock')
    BY <1>a, <2>1, DatedLater
  <2>5. \A c \in Event : Extends(c, clock) => Extends(c, clock')
    BY <1>a, <2>1, DatedLater
  <2>6. Dated(tray.status, clock') /\ Dated(board.status, clock') /\ Dated(poller.status, clock')
    <3>1. tray.status \in Reply /\ board.status \in Reply /\ poller.status \in Reply
      BY DEF TypeOK
    <3> QED BY <2>4, <3>1 DEF DeadlineInv
  <2>7. \A i \in DOMAIN updates : Dated(updates[i].status, clock')
    <3>1. \A i \in DOMAIN updates : updates[i] \in Message
      BY ElementOfSeq, LenProperties DEF TypeOK
    <3>2. \A i \in DOMAIN updates : updates[i].status \in Reply
      BY <3>1 DEF Message
    <3> QED BY <2>4, <3>2 DEF DeadlineInv
  <2>8. Command \subseteq Event
    BY DEF Command, Event
  <2>9. \A i \in DOMAIN commands : Extends(commands[i], clock')
    <3>1. \A i \in DOMAIN commands : commands[i] \in Command
      BY ElementOfSeq, LenProperties DEF TypeOK
    <3> QED BY <2>5, <2>8, <3>1 DEF DeadlineInv
  <2>10. \A i \in DOMAIN events : events[i].kind \in Kinds => Extends(events[i], clock')
    <3>1. \A i \in DOMAIN events : events[i] \in Event
      BY ElementOfSeq, LenProperties DEF TypeOK
    <3> QED BY <2>5, <3>1 DEF DeadlineInv
  <2>11. sender.at # "idle" => Extends(sender.command, clock')
    BY <2>5, <2>8 DEF TypeOK, DeadlineInv
  <2>12. \A c \in late : Extends(c, clock')
    BY <2>5, <2>8 DEF TypeOK, DeadlineInv
  <2>13. daemon'.until <= clock' + MAX_DISARM
    BY <1>a, <2>1, <2>2 DEF DeadlineInv
  <2> HIDE DEF Dated, Extends
  <2> QED BY <2>3, <2>6, <2>7, <2>9, <2>10, <2>11, <2>12, <2>13 DEF DeadlineInv
<1> QED BY <1>1, <1>2, <1>3, <1>4, <1>5

LEMMA DeadlineStep == TypeOK /\ DeadlineInv /\ [Next]_vars => DeadlineInv'
<1>1. DeadlineInv /\ UNCHANGED vars => DeadlineInv'
  BY DEF DeadlineInv, vars, channels
<1> QED BY <1>1, DeadlineSender, DeadlinePoller, DeadlineWindows, DeadlinePerson, DeadlineDaemon DEF Next

LEMMA DeadlineInit == Init => DeadlineInv
<1>1. Dated(None, 0) /\ MAX_DISARM \in Nat
  BY PresetsType DEF Dated
<1>2. Init => daemon.until = 0 /\ clock = 0 /\ tray.status = None /\ board.status = None
              /\ poller.status = None /\ sender.at = "idle" /\ late = {}
              /\ DOMAIN updates = {} /\ DOMAIN commands = {} /\ DOMAIN events = {}
  BY DEF Init
<1> QED BY <1>1, <1>2 DEF DeadlineInv

(* Only what the sender hands over, or what it once did, moves a deadline. *)
LEMMA DeadlineMoves ==
  ASSUME TypeOK, DeadlineInv, [Next]_vars, daemon'.until # daemon.until
  PROVE  \A c \in Ran \ {None} : daemon'.until >= c.least
<1>a. daemon \in Daemon
  BY DEF TypeOK
<1>1. CASE SendCommand
  <2>1. sender.at = "send" /\ sender.command \in Command /\ Extends(sender.command, clock)
    BY <1>1 DEF SendCommand, TypeOK, DeadlineInv
  <2>2. daemon' = daemon \/ daemon' = Running(daemon, sender.command)
    BY <1>1 DEF SendCommand
  <2>3. daemon'.until >= sender.command.least
    BY <2>1, <2>2, RunningExtends DEF DeadlineInv
  <2>4. sender' # sender
    <3>1. sender'.at = "tell"
      BY <1>1 DEF SendCommand, TypeOK
    <3> QED BY <2>1, <3>1
  <2> QED BY <2>3, <2>4 DEF Ran
<1>2. CASE RunsLate
  <2>1. PICK c \in late : late' = late \ {c} /\ daemon' \in {daemon, Running(daemon, c)}
    BY <1>2 DEF RunsLate
  <2>2. c \in Command /\ Extends(c, clock)
    BY DEF TypeOK, DeadlineInv
  <2>3. daemon'.until >= c.least
    BY <2>1, <2>2, RunningExtends DEF DeadlineInv
  <2>4. sender' = sender /\ late \ late' = {c}
    BY <1>2, <2>1 DEF RunsLate
  <2> QED BY <2>3, <2>4 DEF Ran
<1>3. CASE Other
  BY <1>3 DEF Other, Ran
<1>4. CASE DaemonPolls \/ Tick
  <2>1. daemon'.until = daemon.until
    BY <1>a, <1>4 DEF DaemonPolls, Tick, Daemon
  <2> QED BY <2>1
<1>5. CASE Poller \/ TakeCommand \/ SayNotice \/ HandleNotice \/ HandleUpdate \/ HandleEvent \/ ClickMenu
           \/ ClickBoard \/ ClickAllowances \/ MoveWindow \/ NoticeAges \/ UNCHANGED vars
  <2>1. daemon' = daemon
    BY <1>5, Zenon DEF Poller, PollNotice, PollClear, PollStatus, PollApply, PollWalk, TakeCommand, SayNotice,
       HandleNotice, HandleUpdate, HandleEvent, ClickMenu, ClickBoard, ClickAllowances, MoveWindow, NoticeAges, vars
  <2> QED BY <2>1
<1> QED BY <1>1, <1>2, <1>3, <1>4, <1>5 DEF Next, Sender

(* Every click is carried out once and nothing else is, and an extension   *)
(* that ran late, from a screen that was old, behind a prompt or after the *)
(* sender had stopped waiting, never ends before what the person saw.      *)
THEOREM ClicksCorrect == Spec => ClicksAreKept
<1>1. Init => EveryClickOnce
  <2>1. Waiting(<<>>) = 0
    BY FS_EmptySet DEF Waiting
  <2> QED BY <2>1 DEF Init, EveryClickOnce
<1>2. Spec => []EveryClickOnce
  BY <1>1, ClickStep, DesktopTypeCorrect, PTL DEF Spec
<1>3. Spec => []DeadlineInv
  BY DeadlineInit, DeadlineStep, DesktopTypeCorrect, PTL DEF Spec
<1>4. TypeOK /\ DeadlineInv /\ [Next]_vars =>
        [daemon'.until # daemon.until => \A c \in Ran \ {None} : daemon'.until >= c.least]_vars
  BY DeadlineMoves
<1>5. Spec => ExtendNeverShortens
  BY <1>3, <1>4, DesktopTypeCorrect, PTL DEF Spec, ExtendNeverShortens
<1> QED BY <1>2, <1>5, PTL DEF ClicksAreKept

===========================================================================
