------------------------- MODULE SettingsProperties -------------------------
(***************************************************************************)
(* What the settings window has to keep true.                              *)
(***************************************************************************)
EXTENDS SettingsEditor

(* What a person added stays in the window until it is removed: neither a  *)
(* status nor a daemon that moved to another file takes it away.           *)
EditsSurvive == \A id \in wanted : Total(editor.config, id) > 0

(* A paste leaves root's kill commands as they were: the window cannot     *)
(* edit them and does not offer an empty section as root's.                *)
CommandsKept ==
  [][Paste => \A path \in Path : disk[path] # None /\ disk'[path] # None =>
                disk'[path].commands = disk[path].commands]_vars

(* And what was pasted is what the daemon runs once it loads it: nothing   *)
(* in it is refused and nothing is clamped behind the person's back.       *)
PasteRunsAsShown ==
  [][Paste => Parse(disk'[Target]) = disk'[Target]]_vars

(* So a paste keeps what was there and what the window showed.             *)
PasteKeeps == CommandsKept /\ PasteRunsAsShown

(* A row of either panel, however long ago it was drawn, never raises an   *)
(* entry past the devices that were there: no click admits a device nobody *)
(* has plugged in.  (Of a file that lists an identity once.)               *)
Larger(a, b) == IF a > b THEN a ELSE b

CoverNeverExceeds ==
  LET drawn == offers.adds \cup {[id |-> id, present |-> rows.present[id]] :
                                   id \in IF rows.shown = None THEN {} ELSE rows.shown}
  IN \A r \in drawn :
       Total(ListCoverOne(editor.config, r.id, r.present), r.id)
         <= Larger(Total(editor.config, r.id), r.present)

(* The devices panel says "in the whitelist" of exactly the devices the    *)
(* daemon would admit if it ran what is in the editor.                     *)
CoverageIsTrue ==
  \A id \in UsbId :
    (\E p \in Port : plugged[p] = id /\ Action(plugged, {}, editor.config, p) = "add")
      <=> Gains(plugged, editor.config, id)

(* A row that offers a device adds it: a click is never without effect.    *)
ClickCovers ==
  \A p \in Offered(plugged, allowed, editor.config) :
    Total(ListCoverOne(editor.config, plugged[p], Instances(plugged)[plugged[p]]), plugged[p])
      = Total(editor.config, plugged[p]) + 1

(* So a click covers the device it was for, and no other.                  *)
CoverIsRight == CoverNeverExceeds /\ CoverageIsTrue /\ ClickCovers

---------------------------------------------------------------------------
(* devices.rs:384: "Add this and everything behind it" adds each device    *)
(* behind a port, so that none of them is left to be a violation.          *)
ExpansionCovers ==
  \A p \in Expandable(plugged) :
    LET c == Expanded(editor.config, Expansion(plugged, allowed, editor.config, p))
    IN  Behind[p] \cap Offered(plugged, allowed, c) = {}

============================================================================
