--------------------------- MODULE MCKillSequence ---------------------------
(***************************************************************************)
(* A listed file, and a folder with a file and a subfolder that holds an   *)
(* empty file and links back to the folder and to a directory outside.     *)
(* Another folder has a link to itself and one to a file outside, so that  *)
(* no link to a directory leads out of it: it stands for the tree where    *)
(* the steps after the folders are varied.                                 *)
(***************************************************************************)
EXTENDS KillProperties

CONSTANTS secret, folder, plain, empty, alias, sub, back, away, outer, kept, other, hollow, ring

Nodes == {secret, folder, plain, empty, alias, sub, back, away, outer, kept, other, hollow,
          ring}

Kinds ==
  [n \in Nodes |->
     CASE n \in {secret, plain, kept, other} -> "file"
       [] n = empty                          -> "empty"
       [] n \in {folder, sub, outer, hollow} -> "dir"
       [] n \in {alias, back, away, ring}    -> "link"]

Holds ==
  [n \in Nodes |->
     CASE n = folder -> {plain, sub}
       [] n = sub    -> {empty, back, away}
       [] n = outer  -> {kept}
       [] n = hollow -> {ring, alias}
       [] OTHER      -> {}]

Names ==
  [n \in Nodes |->
     CASE n = alias -> other
       [] n = back -> folder
       [] n = away -> outer
       [] n = ring -> hollow
       [] OTHER    -> None]

Full ==
  [files |-> <<secret>>, folders |-> <<hollow>>, commands |-> 1, dry_run |-> FALSE,
   do_sync |-> TRUE, wipe_swap |-> TRUE, melt_self |-> TRUE, own_dir |-> TRUE,
   own_log |-> TRUE]

Variants ==
  {Full, [Full EXCEPT !.dry_run = TRUE, !.folders = <<hollow, folder>>],
   [Full EXCEPT !.do_sync = FALSE, !.own_dir = FALSE, !.own_log = FALSE],
   [Full EXCEPT !.folders = <<sub, folder>>, !.commands = 0, !.wipe_swap = FALSE,
                !.melt_self = FALSE]}

============================================================================
