--------------------------- MODULE KillProperties ---------------------------
(***************************************************************************)
(* What the kill sequence has to keep true.                                *)
(***************************************************************************)
EXTENDS KillSequence

Step == {"idle", "log", "files", "folders", "commands", "sync", "swapoff", "dd", "melt", "shutdown",
         "off", "exited"}

(* Types; only a regular file is ever overwritten, and never more often    *)
(* than SHRED_PASSES.                                                      *)
TypeOK ==
  /\ conf \in Confs
  /\ pc \in Step
  /\ next \in Nat \ {0}
  /\ stack \in Seq([at : Node, todo : SUBSET Node])
  /\ current \in Node \cup {None}
  /\ pass \in 0..SHRED_PASSES
  /\ written \in BOOLEAN
  /\ cache \in [Node -> {"intact", "random", "gone"}]
  /\ disk \in [Node -> {"intact", "random", "gone"}]
  /\ swap \in {"intact", "random"}
  /\ melted \subseteq {"binary", "config", "log"}
  /\ masked \in BOOLEAN
  /\ child \in BOOLEAN
  /\ power \in {"on", "off"}
  /\ failed \subseteq Node \cup {"swap"}
  /\ current # None => Kind[current] = "file"

(* The name of a file never goes before its contents are overwritten on    *)
(* the disk: shred_file removes it after the last fsync, so that a power   *)
(* cut in the middle of the sequence leaves nothing to recover that the    *)
(* sequence had already dealt with.                                        *)
NoRemovalBeforeOverwrite ==
  \A n \in Node : Kind[n] = "file" /\ cache[n] = "gone" => disk[n] # "intact"

---------------------------------------------------------------------------
(* What is reached from a node along f is in every set that holds the node *)
(* and that f does not lead out of.                                        *)
Reached(f) ==
  [n \in Node |->
     {m \in Node : \A S \in SUBSET Node : n \in S /\ (\A d \in S : f[d] \subseteq S) => m \in S}]

(* What is below a node, links to directories not followed, or followed.   *)
BelowOf == Reached(Entries)

Listing == [n \in Node |-> IF Followed(n) = None THEN {} ELSE Entries[Followed(n)]]

LinkedOf == Reached(Listing)

Below(S)  == UNION {BelowOf[n] : n \in S}
Linked(S) == UNION {LinkedOf[n] : n \in S}

Folders == {conf.folders[i] : i \in DOMAIN conf.folders}
Listed  == {conf.files[i] : i \in DOMAIN conf.files}

(* What the configuration names for destruction.                           *)
Named == Listed \cup Below(Folders)

(* The same with linked directories followed, as shred_directory does.     *)
Exposed == Listed \cup Linked(Folders)

(* No failure spares what comes after it: when the sequence is over, every *)
(* file it was given is gone, or failed itself, or lies in a directory     *)
(* that did.                                                               *)
Directories(S) == {d \in S : Kind[d] = "dir"}

NothingSpared ==
  pc \in {"shutdown", "off", "exited"} =>
    /\ \A n \in Listed : ~Exists(n) \/ n \in failed
    /\ \A d \in Directories(Folders) : ~Exists(d) \/ d \in failed
    /\ \A d \in Directories(Below(Folders)) : \A n \in Entries[d] :
         ~Exists(n) \/ \E m \in Below(Folders) : m \in failed /\ n \in Below({m})

(* Nothing is touched but what is listed, and what the named folders lead  *)
(* to by entries and by links to directories: shred_directory goes through *)
(* such a link, whose directory nobody need have named.  The file a link   *)
(* names is left alone.                                                    *)
OutsideUntouched == \A n \in Node \ Exposed : cache[n] = "intact" /\ disk[n] = "intact"

(* Where no link to a directory leads out of the named folders, nothing    *)
(* outside what the configuration names is touched.                        *)
NoLinkLeadsOut == \A d \in Below(Folders) : Listing[d] \subseteq Below(Folders)

OnlyNamedTouched ==
  NoLinkLeadsOut => \A n \in Node \ Named : cache[n] = "intact" /\ disk[n] = "intact"

(* So the sequence destroys what it was given, and beyond it only what a   *)
(* link to a directory leads to.                                           *)
DestroysExactly == NothingSpared /\ OutsideUntouched /\ OnlyNamedTouched

(* Under do_sync the disk holds what the process did to the tree before    *)
(* the power goes.                                                         *)
FlushedAtPowerOff == power = "off" /\ conf.do_sync => disk = cache

(* A dry run changes nothing but its log and masks no signal.              *)
DryRunTouchesNothing ==
  [][conf.dry_run => UNCHANGED <<world, masked, child, power>>]_vars

(* Whatever fails or hangs on the way, the sequence comes to an end: the   *)
(* machine is off, the process has given up, or the power-off command has  *)
(* been accepted.                                                          *)
SequenceEnds == pc = "log" ~> pc \in {"off", "exited", "idle"}

---------------------------------------------------------------------------
(* kill.rs says that a symlink is removed, never followed, as the target   *)
(* is not what the config named for destruction.  A link to a directory is *)
(* followed.                                                               *)
SymlinkNeverFollowed == \A n \in Node \ Named : cache[n] = "intact"

============================================================================
