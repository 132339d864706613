----------------------------- MODULE MCDesktop -----------------------------
(***************************************************************************)
(* A tray and its dashboard, with a person, another client and a daemon    *)
(* that may be a dry run, go away or get stuck.                            *)
(***************************************************************************)
EXTENDS DesktopProperties

CONSTANT MaxSteps

(* Bounds: how often something happens; time passes where a deadline runs; *)
(* the settings window has a quiet daemon.                                 *)
Few ==
  /\ \/ pressed' + changes' <= MaxSteps
     \/ /\ pressed' + changes' = MaxSteps + 1
        /\ pressed' = 1 /\ board'.visible /\ ~settings'.visible
        /\ daemon'.until = 0 /\ daemon'.answers /\ daemon'.looping
  /\ daemon.dry_run => pressed' + changes' < MaxSteps
  /\ clock' # clock => ~daemon.armed \/ ~daemon.looping
  /\ settings'.visible /\ ~settings.visible => daemon.armed /\ pressed = 0
  /\ settings.visible => daemon'.until = 0 /\ daemon.looping /\ ~daemon.grace

(* The futures of the GTK loop come before the next step of a thread; what *)
(* they do there commutes with the steps they come before.                 *)
Prompt ==
  /\ notices # <<>> => notices' # notices
  /\ events # <<>> => events' # events
  /\ updates # <<>> => updates' # updates \/ pressed' # pressed \/ changes' # changes

FewAndPrompt == Few /\ Prompt

============================================================================
