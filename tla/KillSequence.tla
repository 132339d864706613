---------------------------- MODULE KillSequence ----------------------------
(***************************************************************************)
(* execute_kill_sequence of kill.rs, from the masking of the signals to    *)
(* the power-off, over a file tree whose operations may fail one by one    *)
(* and whose disk lags behind what the process has written.                *)
(***************************************************************************)
EXTENDS Naturals, Sequences, FiniteSets

CONSTANTS
  None,
  Node,           (* files, directories and symlinks                        *)
  Kind,           (* node -> "file", "empty", "dir" or "link"               *)
  Entries,        (* directory -> what it holds                             *)
  Target,         (* link -> what it names                                  *)
  Confs,          (* the [destruction] and [commands] tables to run         *)
  Faulty,         (* bound: the nodes an operation may fail on              *)
  SHRED_PASSES,
  MAX_LINKS       (* bound: the links the kernel follows in one path        *)

Conf ==
  [files   : Seq(Node),  folders   : Seq(Node),  commands : Nat,
   dry_run : BOOLEAN,    do_sync   : BOOLEAN,    wipe_swap : BOOLEAN,
   melt_self : BOOLEAN,
   own_dir   : BOOLEAN,   (* the config's directory is named plugkill       *)
   own_log   : BOOLEAN]   (* the log file is the default one, in a directory of the program's *)

ASSUME KillAssumption ==
  /\ Kind \in [Node -> {"file", "empty", "dir", "link"}]
  /\ Entries \in [Node -> SUBSET Node]
  /\ \A n \in Node : Kind[n] # "dir" => Entries[n] = {}
  /\ Target \in [Node -> Node \cup {None}]
  /\ Confs \subseteq Conf
  /\ Faulty \subseteq Node
  /\ SHRED_PASSES \in Nat \ {0}
  /\ MAX_LINKS \in Nat
  /\ None \notin Node

VARIABLES
  conf,       (* the configuration the sequence runs with                   *)
  pc,         (* the step it is at                                          *)
  next,       (* the next file, folder or command of that step              *)
  stack,      (* the directories shred_directory is inside, innermost first *)
  current,    (* the file being overwritten, or None                        *)
  pass,       (* the passes it has had                                      *)
  written,    (* a pass has been written and not yet flushed                *)
  cache,      (* node -> what the process has made of it                    *)
  disk,       (* node -> what the disk is sure to hold of it                *)
  swap,       (* "intact", or "random" once overwritten                     *)
  melted,     (* what melt_self has removed, and is not made again           *)
  masked,     (* SIGINT and SIGTERM are ignored                             *)
  child,      (* a kill command is running                                  *)
  power,      (* "on" or "off"                                              *)
  failed      (* history: the nodes an operation failed on, and "swap"      *)

walk  == <<next, stack, current, pass, written>>
world == <<cache, disk, swap, melted>>
vars  == <<conf, pc, walk, world, masked, child, power, failed>>

---------------------------------------------------------------------------
(* A path goes through the directories it was built from, innermost first, *)
(* and the kernel gives up on one with too many links in it.  All of them  *)
(* are absolute and without "..": validate has refused any other.          *)
Exists(n) == cache[n] # "gone"

LinksIn(path) == {i \in DOMAIN path : Kind[path[i].at] = "link"}

Resolves(path) ==
  /\ \A i \in DOMAIN path : Exists(path[i].at)
  /\ Cardinality(LinksIn(path)) <= MAX_LINKS

Present(n, path) == Resolves(path) /\ Exists(n)

(* What is_dir and read_dir see: both follow a link.                       *)
Followed(n) == IF Kind[n] = "link" THEN Target[n] ELSE n

IsDir(n, path) ==
  /\ Resolves(<<[at |-> n, todo |-> {}]>> \o path)
  /\ Followed(n) # None
  /\ Kind[Followed(n)] = "dir"
  /\ Exists(Followed(n))

---------------------------------------------------------------------------
(* shred_file, called by both lists: a file is opened here and overwritten *)
(* in the steps below; anything else is finished with at once.             *)
Fails(n) == n \in Faulty /\ failed' = failed \cup {n}

Remove(n) ==
  \/ /\ cache' = [cache EXCEPT ![n] = "gone"]
     /\ UNCHANGED failed
  \/ /\ Fails(n)
     /\ UNCHANGED cache

Open(n) == current' = n /\ pass' = 0

(* a bug: a link is opened like the file it names                          *)
ShredFile_Follows(n, path) ==
  \/ /\ ~conf.dry_run
     /\ Present(n, path)
     /\ Followed(n) # None
     /\ Kind[Followed(n)] = "file"
     /\ Open(Followed(n))
     /\ UNCHANGED <<cache, failed>>
  \/ /\ conf.dry_run \/ ~Present(n, path)
     /\ UNCHANGED <<current, pass, cache, failed>>

ShredFile(n, path) ==
  \/ /\ conf.dry_run
     /\ UNCHANGED <<current, pass, cache, failed>>
  \/ /\ ~conf.dry_run
     /\ ~Present(n, path) \/ Kind[n] = "dir"
     /\ failed' = failed \cup {n}
     /\ UNCHANGED <<current, pass, cache>>
  \/ /\ ~conf.dry_run
     /\ Present(n, path)
     /\ Kind[n] \in {"link", "empty"}
     /\ Remove(n)
     /\ UNCHANGED <<current, pass>>
  \/ /\ ~conf.dry_run
     /\ Present(n, path)
     /\ Kind[n] = "file"
     /\ \/ Open(n) /\ UNCHANGED failed
        \/ Fails(n) /\ UNCHANGED <<current, pass>>
     /\ UNCHANGED cache

Abandon ==
  /\ Fails(current)
  /\ current' = None
  /\ written' = FALSE

PassesLeft_OneMore == pass <= SHRED_PASSES   (* a bug *)

PassesLeft == pass < SHRED_PASSES

(* One pass over the whole file, which may break off anywhere.             *)
Overwrite ==
  /\ current # None
  /\ ~written
  /\ PassesLeft
  /\ \/ /\ cache' = [cache EXCEPT ![current] = "random"]
        /\ written' = TRUE
        /\ UNCHANGED <<current, failed>>
     \/ Abandon /\ UNCHANGED cache
  /\ UNCHANGED <<conf, pc, next, stack, pass, disk, swap, melted, masked, child, power>>

(* a bug: the passes are written and none is flushed                       *)
Fsync_Skipped ==
  /\ current # None
  /\ written
  /\ written' = FALSE
  /\ pass' = pass + 1
  /\ UNCHANGED <<conf, pc, next, stack, current, cache, disk, swap, melted, masked, child,
                 power, failed>>

Fsync ==
  /\ current # None
  /\ written
  /\ \/ /\ disk' = [disk EXCEPT ![current] = "random"]
        /\ written' = FALSE
        /\ pass' = pass + 1
        /\ UNCHANGED <<current, failed>>
     \/ Abandon /\ UNCHANGED <<disk, pass>>
  /\ UNCHANGED <<conf, pc, next, stack, cache, swap, melted, masked, child, power>>

Unlink ==
  /\ current # None
  /\ ~written
  /\ ~PassesLeft
  /\ Remove(current)
  /\ current' = None
  /\ UNCHANGED <<conf, pc, next, stack, pass, written, disk, swap, melted, masked, child,
                 power>>

---------------------------------------------------------------------------
(* shred_directory.  A path that is no directory is no error.              *)
Descend(n, path) ==
  \/ /\ stack' = <<[at |-> n, todo |-> {e \in Entries[Followed(n)] : Exists(e)}]>> \o path
     /\ UNCHANGED failed
  \/ /\ Fails(n)
     /\ stack' = path

(* a bug: a dry run lists the directory first                              *)
EnterDirectory_DryRun(n, path) ==
  IF IsDir(n, path) THEN Descend(n, path) ELSE stack' = path /\ UNCHANGED failed

EnterDirectory(n, path) ==
  IF ~conf.dry_run /\ IsDir(n, path) THEN Descend(n, path)
  ELSE stack' = path /\ UNCHANGED failed

Visiting(e) == [stack EXCEPT ![1].todo = @ \ {e}]

(* readdir reports its error once and has no further entries.              *)
EndListing ==
  /\ stack # <<>>
  /\ current = None
  /\ stack[1].todo # {}
  /\ Fails(stack[1].at)
  /\ stack' = [stack EXCEPT ![1].todo = {}]
  /\ UNCHANGED <<conf, pc, next, current, pass, written, world, masked, child, power>>

WalkEntry ==
  /\ stack # <<>>
  /\ current = None
  /\ \E e \in stack[1].todo :
       \/ /\ IsDir(e, stack)
          /\ EnterDirectory(e, Visiting(e))
          /\ UNCHANGED <<current, pass, cache>>
       \/ /\ ~IsDir(e, stack)
          /\ ShredFile(e, stack)
          /\ stack' = Visiting(e)
  /\ UNCHANGED <<conf, pc, next, written, disk, swap, melted, masked, child, power>>

(* rmdir: of a directory itself, never of a link to one, and when empty.   *)
LeaveDirectory ==
  /\ stack # <<>>
  /\ current = None
  /\ stack[1].todo = {}
  /\ LET d == stack[1].at
     IN  IF Kind[d] = "dir" /\ Present(d, Tail(stack)) /\ \A e \in Entries[d] : ~Exists(e)
         THEN Remove(d)
         ELSE failed' = failed \cup {d} /\ UNCHANGED cache
  /\ stack' = Tail(stack)
  /\ UNCHANGED <<conf, pc, next, current, pass, written, disk, swap, melted, masked, child,
                 power>>

---------------------------------------------------------------------------
Idle(step) == pc = step /\ stack = <<>> /\ current = None /\ ~child

Goto(step) == pc' = step /\ next' = 1

Begin ==
  /\ pc = "idle"
  /\ power = "on"
  /\ masked' = (masked \/ ~conf.dry_run)
  /\ Goto("log")
  /\ UNCHANGED <<conf, stack, current, pass, written, world, child, power, failed>>

(* log_kill_event, in a dry run too: the log and its directory are made,   *)
(* or only the directory, or neither.                                      *)
LogKillEvent ==
  /\ Idle("log")
  /\ melted' \in {melted, IF conf.own_log THEN melted \ {"log"} ELSE melted}
  /\ Goto("files")
  /\ UNCHANGED <<conf, stack, current, pass, written, cache, disk, swap, masked, child, power,
                 failed>>

NextFile ==
  /\ Idle("files")
  /\ \/ /\ next <= Len(conf.files)
        /\ ShredFile(conf.files[next], <<>>)
        /\ next' = next + 1
        /\ UNCHANGED pc
     \/ /\ next > Len(conf.files)
        /\ Goto("folders")
        /\ UNCHANGED <<current, pass, cache, failed>>
  /\ UNCHANGED <<conf, stack, written, disk, swap, melted, masked, child, power>>

(* a bug: the first folder with an error ends the list                     *)
NextFolder_StopsOnError ==
  /\ Idle("folders")
  /\ \/ /\ next <= Len(conf.folders)
        /\ failed = {}
        /\ EnterDirectory(conf.folders[next], <<>>)
        /\ next' = next + 1
        /\ UNCHANGED pc
     \/ /\ next > Len(conf.folders) \/ failed # {}
        /\ Goto("commands")
        /\ UNCHANGED <<stack, failed>>
  /\ UNCHANGED <<conf, current, pass, written, world, masked, child, power>>

NextFolder ==
  /\ Idle("folders")
  /\ \/ /\ next <= Len(conf.folders)
        /\ EnterDirectory(conf.folders[next], <<>>)
        /\ next' = next + 1
        /\ UNCHANGED pc
     \/ /\ next > Len(conf.folders)
        /\ Goto("commands")
        /\ UNCHANGED <<stack, failed>>
  /\ UNCHANGED <<conf, current, pass, written, world, masked, child, power>>

(* A command is spawned and waited for, or could not be.                   *)
NextCommand ==
  /\ Idle("commands")
  /\ \/ /\ next <= conf.commands
        /\ child' \in {FALSE, ~conf.dry_run}
        /\ next' = next + 1
        /\ UNCHANGED pc
     \/ /\ next > conf.commands
        /\ Goto("sync")
        /\ UNCHANGED child
  /\ UNCHANGED <<conf, stack, current, pass, written, world, masked, power, failed>>

(* a bug: the wait for a command has no end of its own                     *)
CommandTimesOut_Never ==
  /\ child
  /\ FALSE
  /\ UNCHANGED vars

(* It is killed at COMMAND_TIMEOUT.                                        *)
CommandTimesOut ==
  /\ child
  /\ child' = FALSE
  /\ UNCHANGED <<conf, pc, walk, world, masked, power, failed>>

Flush_ContentsOnly == [n \in Node |-> IF Exists(n) THEN cache[n] ELSE disk[n]]   (* a bug *)

Flush == cache

Sync ==
  /\ Idle("sync")
  /\ disk' = IF conf.do_sync /\ ~conf.dry_run THEN Flush ELSE disk
  /\ Goto(IF conf.wipe_swap THEN "swapoff" ELSE "melt")
  /\ UNCHANGED <<conf, stack, current, pass, written, cache, swap, melted, masked, child,
                 power, failed>>

(* wipe_swap: without swapoff the device is left alone; the exit codes of  *)
(* the commands are looked at by nobody.                                   *)
SwapOff ==
  /\ Idle("swapoff")
  /\ \/ Goto("dd") /\ ~conf.dry_run /\ UNCHANGED failed
     \/ Goto("melt") /\ failed' = IF conf.dry_run THEN failed ELSE failed \cup {"swap"}
  /\ UNCHANGED <<conf, stack, current, pass, written, world, masked, child, power>>

OverwriteSwap ==
  /\ Idle("dd")
  /\ \/ swap' = "random" /\ UNCHANGED failed
     \/ failed' = failed \cup {"swap"} /\ UNCHANGED swap
  /\ Goto("melt")
  /\ UNCHANGED <<conf, stack, current, pass, written, cache, disk, melted, masked, child,
                 power>>

(* The config's directory goes only when it is named plugkill.             *)
Meltable == {"binary", "log"} \cup IF conf.own_dir THEN {"config"} ELSE {}

MeltSelf ==
  /\ Idle("melt")
  /\ \E gone \in SUBSET (IF conf.melt_self /\ ~conf.dry_run THEN Meltable ELSE {}) :
       melted' = melted \cup gone
  /\ Goto(IF conf.dry_run THEN "idle" ELSE "shutdown")
  /\ UNCHANGED <<conf, stack, current, pass, written, cache, disk, swap, masked, child,
                 power, failed>>

(* reboot(2), and the command when it returns.  The command may exit 0     *)
(* before the machine is off, which returns to the poll loop.              *)
Shutdown ==
  /\ Idle("shutdown")
  /\ \/ power' = "off" /\ Goto("off")
     \/ Goto("exited") /\ UNCHANGED power
     \/ Goto("idle") /\ UNCHANGED power
  /\ UNCHANGED <<conf, stack, current, pass, written, world, masked, child, failed>>

---------------------------------------------------------------------------
Init ==
  /\ conf \in Confs
  /\ pc = "idle"
  /\ next = 1
  /\ stack = <<>>
  /\ current = None
  /\ pass = 0
  /\ written = FALSE
  /\ cache = [n \in Node |-> "intact"]
  /\ disk = cache
  /\ swap = "intact"
  /\ melted = {}
  /\ masked = FALSE
  /\ child = FALSE
  /\ power = "on"
  /\ failed = {}

Sequence ==
  \/ LogKillEvent
  \/ NextFile \/ Overwrite \/ Fsync \/ Unlink
  \/ NextFolder \/ WalkEntry \/ EndListing \/ LeaveDirectory
  \/ NextCommand \/ CommandTimesOut
  \/ Sync \/ SwapOff \/ OverwriteSwap \/ MeltSelf \/ Shutdown

Next == Begin \/ Sequence

Spec == Init /\ [][Next]_vars

(* The process runs on: nothing it waits for is unbounded but dd and the   *)
(* swap commands, which end with the device.                               *)
FairSpec == Spec /\ WF_vars(Sequence)

============================================================================
