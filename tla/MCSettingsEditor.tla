-------------------------- MODULE MCSettingsEditor --------------------------
(***************************************************************************)
(* A hub with a port behind it and a port beside it, two models, one of    *)
(* which a hand may have spelled in capitals, and two files.               *)
(***************************************************************************)
EXTENDS SettingsProperties, TLC

CONSTANTS hub, key, KEY, root, inner, beside, main, other, lan, bad

Norms  == hub :> hub @@ key :> key @@ KEY :> key
Order  == beside :> 1 @@ root :> 2 @@ inner :> 3
Hangs  == root :> {root, inner} @@ inner :> {inner} @@ beside :> {beside}

Config0 == [devices |-> <<>>, sleep_ms |-> 1, interfaces |-> {}, commands |-> "none"]
Kept    == [Config0 EXCEPT !.devices = <<[id |-> key, count |-> 1]>>, !.commands = "root's"]
Dead    == [Config0 EXCEPT !.devices = <<[id |-> KEY, count |-> 1]>>, !.sleep_ms = 0,
                           !.commands = "root's"]

DisksToRun == {main :> Kept @@ other :> Dead, main :> Kept @@ other :> None,
               main :> Dead @@ other :> None}

(* A file that lists a device twice, which the loader adds up.             *)
Twice   == [Kept EXCEPT !.devices = @ \o @]

DisksListedTwice == {main :> Twice @@ other :> None}

(* Two stories that do not mix: devices that come and go under a window on *)
(* the main file, and files that change under a window whose lists stay.   *)
Scene ==
  /\ plugs > 0 => /\ rooted = 0 /\ unreadable = {} /\ daemon.path = main
                  /\ disk[other] = None /\ disk[main].sleep_ms = 1
                  /\ editor.config.sleep_ms = 1 /\ editor.config.interfaces = {}
  /\ rooted > 0 => plugs = 0

============================================================================
