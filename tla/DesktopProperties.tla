------------------------- MODULE DesktopProperties -------------------------
(***************************************************************************)
(* What the tray and the dashboard have to keep true.                      *)
(***************************************************************************)
EXTENDS Desktop, FiniteSets

(* The clicks among the events that wait: the others move windows.         *)
Waiting(queue) == Cardinality({i \in DOMAIN queue : queue[i].kind \in Kinds})

(* A click is one command, and nothing but a click is one: a mode switch   *)
(* that follows the daemon's mode does not command it back.                *)
EveryClickOnce ==
  pressed = served + Len(commands) + Waiting(events) + (IF sender.at = "idle" THEN 0 ELSE 1)

(* An extension never ends before the disarm the person saw when clicking, *)
(* however long it waited in the queue or behind a prompt.                 *)
Ran == IF sender' # sender THEN {sender.command} ELSE late \ late'

ExtendNeverShortens ==
  [][daemon'.until # daemon.until => \A c \in Ran \ {None} : daemon'.until >= c.least]_vars

(* So every click is carried out once, nothing else is, and an extension   *)
(* extends.                                                                *)
ClicksAreKept == []EveryClickOnce /\ ExtendNeverShortens

(* What a command left on the dashboard goes away on its own, as it does   *)
(* in the tray, whichever of the two threads writes it last.               *)
NoticeGoesAway == board.notice # None ~> board.notice = None

(* The screens show the daemon as it is, or that it is gone, and the ring  *)
(* is not asked to draw more than it was measured for.                     *)
Shown ==
  /\ tray.status = Fetched /\ board.status = Fetched
  /\ ~Down(board.status) => board.toggle = daemon.mode
  /\ FromStatus(board.status) = "disarmed" => board.status.left <= board.total

(* An open window lists the devices, and the settings window the           *)
(* violations, of now.                                                     *)
Listed ==
  daemon.answers =>
    /\ board.visible => board.devices = daemon.news
    /\ settings.visible => settings.devices = daemon.news /\ settings.violations = daemon.news

(* Once the daemon and the person are done, every view is up to date and   *)
(* stays so.                                                               *)
ViewsCatchUp == <>[](Shown /\ Listed)

============================================================================
