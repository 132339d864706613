----------------------------- MODULE KillProofs -----------------------------
(***************************************************************************)
(* The kill sequence keeps its types, never removes the name of a file     *)
(* whose contents the disk may still hold, and destroys what it was given  *)
(* and nothing else, for every tree and every configuration.               *)
(***************************************************************************)
EXTENDS KillProperties, SequenceTheorems, FiniteSetTheorems, TLAPS

Frame == [at : Node, todo : SUBSET Node]

(* A file that has had a pass flushed is overwritten on the disk, and a    *)
(* file goes only after one.                                               *)
Overwritten == current # None /\ pass > 0 => disk[current] # "intact"

(* A pass that is not flushed is one of the file that is open.             *)
Pending == written => current # None /\ PassesLeft

KInv == TypeOK /\ Overwritten /\ Pending /\ NoRemovalBeforeOverwrite

LEMMA NoneIsNoNode == None \notin Node /\ SHRED_PASSES \in Nat \ {0} /\ Faulty \subseteq Node
BY KillAssumption

LEMMA ConfTypes ==
  ASSUME TypeOK
  PROVE  /\ conf.files \in Seq(Node)
         /\ conf.folders \in Seq(Node)
         /\ conf.commands \in Nat
         /\ conf.dry_run \in BOOLEAN
BY KillAssumption DEF TypeOK, Conf

(* The initial state.                                                      *)
LEMMA InitHolds == Init => KInv
<1> SUFFICES ASSUME Init PROVE KInv
  OBVIOUS
<1>1. stack \in Seq([at : Node, todo : SUBSET Node])
  BY DEF Init
<1>2. cache \in [Node -> {"intact", "random", "gone"}] /\ disk = cache
  BY DEF Init
<1>3. pass \in 0..SHRED_PASSES /\ next \in Nat \ {0}
  BY NoneIsNoNode DEF Init
<1> QED BY <1>1, <1>2, <1>3 DEF Init, KInv, TypeOK, Overwritten, Pending, PassesLeft, NoRemovalBeforeOverwrite, Step

(* What the helpers do to the variables they set.                          *)
LEMMA FailsTypes ==
  ASSUME TypeOK, NEW n, Fails(n)
  PROVE  failed' \subseteq Node \cup {"swap"}
BY NoneIsNoNode DEF TypeOK, Fails

LEMMA RemoveTypes ==
  ASSUME TypeOK, NEW n \in Node, Remove(n)
  PROVE  /\ cache' \in [Node -> {"intact", "random", "gone"}]
         /\ failed' \subseteq Node \cup {"swap"}
         /\ \A m \in Node \ {n} : cache'[m] = cache[m]
BY FailsTypes DEF TypeOK, Remove

LEMMA ShredFileHolds ==
  ASSUME KInv, NEW n \in Node, NEW path, ShredFile(n, path), UNCHANGED disk, current = None
  PROVE  /\ cache' \in [Node -> {"intact", "random", "gone"}]
         /\ failed' \subseteq Node \cup {"swap"}
         /\ current' \in Node \cup {None}
         /\ pass' \in 0..SHRED_PASSES
         /\ (current' # None => Kind[current'] = "file" /\ pass' = 0)
         /\ \A m \in Node : Kind[m] = "file" => cache'[m] = cache[m]
<1>1. CASE conf.dry_run /\ UNCHANGED <<current, pass, cache, failed>>
  BY <1>1 DEF KInv, TypeOK
<1>2. CASE failed' = failed \cup {n} /\ UNCHANGED <<current, pass, cache>>
  BY <1>2 DEF KInv, TypeOK
<1>3. CASE Kind[n] \in {"link", "empty"} /\ Remove(n) /\ UNCHANGED <<current, pass>>
  BY <1>3, RemoveTypes DEF KInv, TypeOK
<1>4. CASE Kind[n] = "file" /\ Open(n) /\ UNCHANGED <<failed, cache>>
  BY <1>4, NoneIsNoNode DEF KInv, TypeOK, Open
<1>5. CASE Fails(n) /\ UNCHANGED <<current, pass, cache>>
  BY <1>5, FailsTypes DEF KInv, TypeOK
<1> QED BY <1>1, <1>2, <1>3, <1>4, <1>5 DEF ShredFile

LEMMA DescendTypes ==
  ASSUME TypeOK, NEW n \in Node, NEW path \in Seq(Frame), EnterDirectory(n, path)
  PROVE  stack' \in Seq(Frame) /\ failed' \subseteq Node \cup {"swap"}
<1> DEFINE frame == [at |-> n, todo |-> {e \in Entries[Followed(n)] : Exists(e)}]
<1>1. CASE IsDir(n, path) /\ stack' = <<frame>> \o path /\ UNCHANGED failed
  <2>1. Followed(n) \in Node
    BY <1>1, KillAssumption DEF IsDir, Followed
  <2>2. frame \in Frame
    BY <2>1, KillAssumption DEF Frame
  <2>3. <<frame>> \in Seq(Frame)
    BY <2>2
  <2> QED BY <1>1, <2>3, ConcatProperties DEF TypeOK
<1>2. CASE Fails(n) /\ stack' = path
  BY <1>2, FailsTypes
<1>3. CASE stack' = path /\ UNCHANGED failed
  BY <1>3 DEF TypeOK
<1> QED BY <1>1, <1>2, <1>3 DEF EnterDirectory, Descend

---------------------------------------------------------------------------
LEMMA BeginHolds == KInv /\ Begin => KInv'
BY DEF KInv, TypeOK, Overwritten, Pending, PassesLeft, NoRemovalBeforeOverwrite, Begin, Goto, Step, world

LEMMA NextFileHolds == KInv /\ NextFile => KInv'
<1> SUFFICES ASSUME KInv, NextFile PROVE KInv'
  OBVIOUS
<1> USE DEF Idle
<1>1. CASE next <= Len(conf.files) /\ ShredFile(conf.files[next], <<>>) /\ next' = next + 1 /\ UNCHANGED pc
  <2>1. next \in Nat \ {0} /\ conf.files \in Seq(Node)
    BY ConfTypes DEF KInv, TypeOK
  <2>2. conf.files[next] \in Node
    BY <1>1, <2>1, ElementOfSeq
  <2> QED
    BY <1>1, <2>1, <2>2, ShredFileHolds
    DEF KInv, TypeOK, Overwritten, Pending, PassesLeft, NoRemovalBeforeOverwrite, NextFile
<1>2. CASE Goto("folders") /\ UNCHANGED <<current, pass, cache, failed>>
  BY <1>2 DEF KInv, TypeOK, Overwritten, Pending, PassesLeft, NoRemovalBeforeOverwrite, NextFile, Goto, Step
<1> QED BY <1>1, <1>2 DEF NextFile

LEMMA OverwriteHolds == KInv /\ Overwrite => KInv'
<1> SUFFICES ASSUME KInv, Overwrite PROVE KInv'
  OBVIOUS
<1>1. CASE cache' = [cache EXCEPT ![current] = "random"] /\ written' = TRUE /\ UNCHANGED <<current, failed>>
  BY <1>1, NoneIsNoNode
  DEF KInv, TypeOK, Overwritten, Pending, PassesLeft, NoRemovalBeforeOverwrite, Overwrite
<1>2. CASE Abandon /\ UNCHANGED cache
  BY <1>2, FailsTypes
  DEF KInv, TypeOK, Overwritten, Pending, PassesLeft, NoRemovalBeforeOverwrite, Overwrite, Abandon
<1> QED BY <1>1, <1>2 DEF Overwrite

LEMMA FsyncHolds == KInv /\ Fsync => KInv'
<1> SUFFICES ASSUME KInv, Fsync PROVE KInv'
  OBVIOUS
<1>1. CASE disk' = [disk EXCEPT ![current] = "random"] /\ written' = FALSE /\ pass' = pass + 1
           /\ UNCHANGED <<current, failed>>
  <2>1. current \in Node /\ pass' \in 0..SHRED_PASSES
    BY <1>1, NoneIsNoNode DEF KInv, TypeOK, Pending, PassesLeft, Fsync
  <2>2. disk' \in [Node -> {"intact", "random", "gone"}] /\ disk'[current] = "random"
    BY <1>1, <2>1 DEF KInv, TypeOK
  <2>3. TypeOK'
    BY <1>1, <2>1, <2>2 DEF KInv, TypeOK, Fsync
  <2>4. Overwritten' /\ Pending'
    BY <1>1, <2>2 DEF Overwritten, Pending
  <2>5. \A n \in Node : disk'[n] = disk[n] \/ disk'[n] = "random"
    BY <1>1, <2>1 DEF KInv, TypeOK
  <2>6. NoRemovalBeforeOverwrite'
    BY <2>5 DEF KInv, NoRemovalBeforeOverwrite, Fsync
  <2> QED BY <2>3, <2>4, <2>6 DEF KInv
<1>2. CASE Abandon /\ UNCHANGED <<disk, pass>>
  BY <1>2, FailsTypes DEF KInv, TypeOK, Overwritten, Pending, PassesLeft, NoRemovalBeforeOverwrite, Fsync, Abandon
<1> QED BY <1>1, <1>2 DEF Fsync

LEMMA UnlinkHolds == KInv /\ Unlink => KInv'
<1> SUFFICES ASSUME KInv, Unlink PROVE KInv'
  OBVIOUS
<1>1. current \in Node /\ disk[current] # "intact"
  BY NoneIsNoNode DEF KInv, TypeOK, Overwritten, PassesLeft, Unlink
<1> QED
  BY <1>1, RemoveTypes, NoneIsNoNode
  DEF KInv, TypeOK, Overwritten, Pending, PassesLeft, NoRemovalBeforeOverwrite, Unlink

LEMMA NextFolderHolds == KInv /\ NextFolder => KInv'
<1> SUFFICES ASSUME KInv, NextFolder PROVE KInv'
  OBVIOUS
<1> USE DEF Idle, world
<1>1. CASE next <= Len(conf.folders) /\ EnterDirectory(conf.folders[next], <<>>)
           /\ next' = next + 1 /\ UNCHANGED pc
  <2>1. next \in Nat \ {0} /\ conf.folders \in Seq(Node) /\ <<>> \in Seq(Frame)
    BY ConfTypes DEF KInv, TypeOK
  <2>2. conf.folders[next] \in Node
    BY <1>1, <2>1, ElementOfSeq
  <2>3. stack' \in Seq(Frame) /\ failed' \subseteq Node \cup {"swap"}
    BY <1>1, <2>1, <2>2, DescendTypes DEF KInv
  <2> QED
    BY <1>1, <2>1, <2>3
    DEF KInv, TypeOK, Overwritten, Pending, PassesLeft, NoRemovalBeforeOverwrite, NextFolder, Frame
<1>2. CASE Goto("commands") /\ UNCHANGED <<stack, failed>>
  BY <1>2
  DEF KInv, TypeOK, Overwritten, Pending, PassesLeft, NoRemovalBeforeOverwrite, NextFolder, Goto, Step
<1> QED BY <1>1, <1>2 DEF NextFolder

LEMMA VisitingTypes ==
  ASSUME TypeOK, stack # <<>>, NEW e \in stack[1].todo
  PROVE  e \in Node /\ Visiting(e) \in Seq(Frame)
<1>1. stack \in Seq(Frame)
  BY DEF TypeOK, Frame
<1>2. 1 \in DOMAIN stack /\ stack[1] \in Frame
  BY <1>1, ElementOfSeq, EmptySeq
<1>3. [stack[1] EXCEPT !.todo = @ \ {e}] \in Frame
  BY <1>2 DEF Frame
<1> QED BY <1>1, <1>2, <1>3 DEF Visiting, Frame

LEMMA WalkEntryHolds == KInv /\ WalkEntry => KInv'
<1> SUFFICES ASSUME KInv, stack # <<>>, current = None, NEW e \in stack[1].todo,
                    UNCHANGED <<conf, pc, next, written, disk, swap, melted, masked, child, power>>,
                    \/ EnterDirectory(e, Visiting(e)) /\ UNCHANGED <<current, pass, cache>>
                    \/ ShredFile(e, stack) /\ stack' = Visiting(e)
             PROVE  KInv'
  BY DEF WalkEntry
<1>1. e \in Node /\ Visiting(e) \in Seq(Frame)
  BY VisitingTypes DEF KInv
<1>2. CASE EnterDirectory(e, Visiting(e)) /\ UNCHANGED <<current, pass, cache>>
  <2>1. stack' \in Seq(Frame) /\ failed' \subseteq Node \cup {"swap"}
    BY <1>1, <1>2, DescendTypes DEF KInv
  <2> QED
    BY <1>2, <2>1
    DEF KInv, TypeOK, Overwritten, Pending, PassesLeft, NoRemovalBeforeOverwrite, Frame
<1>3. CASE ShredFile(e, stack) /\ stack' = Visiting(e)
  BY <1>1, <1>3, ShredFileHolds
  DEF KInv, TypeOK, Overwritten, Pending, PassesLeft, NoRemovalBeforeOverwrite, Frame
<1> QED BY <1>2, <1>3

LEMMA LeaveDirectoryHolds == KInv /\ LeaveDirectory => KInv'
<1> SUFFICES ASSUME KInv, LeaveDirectory PROVE KInv'
  OBVIOUS
<1>1. stack \in Seq(Frame) /\ stack # <<>>
  BY DEF KInv, TypeOK, Frame, LeaveDirectory
<1>2. stack' \in Seq(Frame)
  BY <1>1, HeadTailProperties DEF LeaveDirectory
<1>3. stack[1].at \in Node
  <2>1. 1 \in DOMAIN stack /\ stack[1] \in Frame
    BY <1>1, ElementOfSeq, EmptySeq
  <2> QED BY <2>1 DEF Frame
<1>4. CASE Kind[stack[1].at] = "dir" /\ Remove(stack[1].at)
  BY <1>2, <1>3, <1>4, RemoveTypes
  DEF KInv, TypeOK, Overwritten, Pending, PassesLeft, NoRemovalBeforeOverwrite, Frame, LeaveDirectory
<1>5. CASE failed' = failed \cup {stack[1].at} /\ UNCHANGED cache
  BY <1>2, <1>3, <1>5
  DEF KInv, TypeOK, Overwritten, Pending, PassesLeft, NoRemovalBeforeOverwrite, Frame, LeaveDirectory
<1> QED BY <1>4, <1>5 DEF LeaveDirectory

(* What the end of a listing leaves of the walk: the frames, of which the  *)
(* innermost has nothing more to do.                                       *)
LEMMA EndListingShape ==
  ASSUME TypeOK, EndListing
  PROVE  /\ stack' \in Seq(Frame) /\ stack' # <<>> /\ Len(stack') = Len(stack)
         /\ Len(stack) \in Nat \ {0}
         /\ \A i \in 1..Len(stack) : /\ stack'[i].at = stack[i].at
                                     /\ stack'[i].todo \subseteq stack[i].todo
         /\ failed \subseteq failed' /\ failed' \subseteq Node \cup {"swap"}
         /\ UNCHANGED <<conf, pc, next, current, pass, written, cache, disk>>
<1>1. stack \in Seq(Frame) /\ Len(stack) \in Nat /\ DOMAIN stack = 1..Len(stack) /\ stack # <<>>
  BY LenProperties DEF TypeOK, Frame, EndListing
<1>2. 1 \in 1..Len(stack) /\ stack[1] \in Frame
  BY <1>1, ElementOfSeq, EmptySeq
<1> DEFINE row == [stack[1] EXCEPT !.todo = {}]
<1>3. row.at = stack[1].at /\ row.todo = {} /\ row \in Frame
  BY <1>2 DEF Frame
<1>4. stack' = [stack EXCEPT ![1] = row]
  BY DEF EndListing
<1> HIDE DEF row
<1>5. stack' \in Seq(Frame) /\ Len(stack') = Len(stack)
  BY <1>1, <1>2, <1>3, <1>4, ExceptSeq
<1>6. stack'[1] = row /\ \A i \in 1..Len(stack) : i # 1 => stack'[i] = stack[i]
  BY <1>1, <1>2, <1>4
<1>7. failed \subseteq failed' /\ failed' \subseteq Node \cup {"swap"}
  BY FailsTypes DEF EndListing, Fails
<1>8. UNCHANGED <<conf, pc, next, current, pass, written, cache, disk>>
  BY DEF EndListing, world
<1> QED BY <1>1, <1>2, <1>3, <1>5, <1>6, <1>7, <1>8, EmptySeq

LEMMA EndListingHolds == KInv /\ EndListing => KInv'
BY EndListingShape
DEF KInv, TypeOK, Overwritten, Pending, PassesLeft, NoRemovalBeforeOverwrite, EndListing, Frame, world

(* The steps that touch neither a file nor a directory.                    *)
LEMMA RestHolds ==
  ASSUME KInv, \/ LogKillEvent \/ NextCommand \/ CommandTimesOut \/ SwapOff \/ OverwriteSwap
               \/ MeltSelf \/ Shutdown
  PROVE  KInv'
<1> USE DEF KInv, TypeOK, Overwritten, Pending, PassesLeft, NoRemovalBeforeOverwrite, Goto, Idle, Step, world
<1>1. CASE NextCommand
  <2>1. child' = FALSE \/ child' = ~conf.dry_run \/ child' = child
    BY <1>1 DEF NextCommand
  <2>2. child' \in BOOLEAN
    BY <2>1
  <2>3. next' = next + 1 \/ next' = 1
    BY <1>1, ZenonT(30) DEF NextCommand
  <2>4. next' \in Nat \ {0}
    BY <2>3
  <2>5. pc' \in {"commands", "sync"}
    BY <1>1, ZenonT(30) DEF NextCommand
  <2>6. UNCHANGED <<conf, stack, current, pass, written, world, masked, power, failed>>
    BY <1>1 DEF NextCommand
  <2> QED BY <2>2, <2>4, <2>5, <2>6
<1>2. CASE CommandTimesOut
  BY <1>2 DEF CommandTimesOut, walk
<1>3. CASE SwapOff
  BY <1>3 DEF SwapOff
<1>4. CASE OverwriteSwap
  BY <1>4 DEF OverwriteSwap
<1>5. CASE MeltSelf
  BY <1>5 DEF MeltSelf, Meltable
<1>6. CASE Shutdown
  BY <1>6 DEF Shutdown
<1>7. CASE LogKillEvent
  BY <1>7 DEF LogKillEvent
<1> QED BY <1>1, <1>2, <1>3, <1>4, <1>5, <1>6, <1>7

(* A flush takes over what the process has made of the tree: between two   *)
(* files, where no pass is under way.                                      *)
LEMMA SyncHolds == KInv /\ Sync => KInv'
BY DEF KInv, TypeOK, Overwritten, Pending, PassesLeft, NoRemovalBeforeOverwrite, Sync, Flush,
       Goto, Idle, Step

LEMMA StutterHolds == KInv /\ UNCHANGED vars => KInv'
BY DEF KInv, TypeOK, Overwritten, Pending, PassesLeft, NoRemovalBeforeOverwrite, vars, walk, world

THEOREM KInvCorrect == Spec => []KInv
<1>1. Init => KInv
  BY InitHolds
<1>2. KInv /\ [Next]_vars => KInv'
  BY BeginHolds, NextFileHolds, OverwriteHolds, FsyncHolds, UnlinkHolds, NextFolderHolds,
     WalkEntryHolds, EndListingHolds, LeaveDirectoryHolds, RestHolds, SyncHolds, StutterHolds
  DEF Next, Sequence
<1> QED BY <1>1, <1>2, PTL DEF Spec

---------------------------------------------------------------------------
(* Types, and that only a regular file is overwritten, at most             *)
(* SHRED_PASSES times: kill.rs, shred_file.                                *)
THEOREM KillTypeCorrect == Spec => []TypeOK
<1>1. KInv => TypeOK
  BY DEF KInv
<1> QED BY KInvCorrect, <1>1, PTL

(* No file loses its name while the disk may still hold what it had, in    *)
(* any tree, whatever fails: kill.rs, shred_file.                          *)
THEOREM OverwriteFirst == Spec => []NoRemovalBeforeOverwrite
<1>1. KInv => NoRemovalBeforeOverwrite
  BY DEF KInv
<1> QED BY KInvCorrect, <1>1, PTL

---------------------------------------------------------------------------
(* A dry run opens no file, enters no directory and spawns nothing.        *)
Idles ==
  conf.dry_run => /\ current = None /\ stack = <<>> /\ ~child /\ ~written /\ melted = {}
                  /\ pc \notin {"dd", "shutdown", "off"}

Harmless == conf.dry_run => UNCHANGED <<world, masked, child, power>>

LEMMA DryStep == TypeOK /\ Idles /\ [Next]_vars => Idles' /\ Harmless
<1> SUFFICES ASSUME TypeOK, Idles, [Next]_vars PROVE Idles' /\ Harmless
  OBVIOUS
<1>0. masked \in BOOLEAN /\ child \in BOOLEAN
  BY DEF TypeOK
<1>1. CASE ~conf.dry_run
  <2>1. ~conf'.dry_run
    BY <1>1 DEF Next, Sequence, Begin, NextFile, Overwrite, Fsync, Unlink, NextFolder, WalkEntry,
       LeaveDirectory, NextCommand, CommandTimesOut, Sync, SwapOff, OverwriteSwap, MeltSelf,
       Shutdown, LogKillEvent, EndListing, vars
  <2> QED BY <1>1, <2>1 DEF Idles, Harmless
<1>2. CASE conf.dry_run
  <2> USE <1>2 DEF Idles, Harmless, Goto, Idle, world, walk
  <2>1. CASE Begin
    <3>1. masked' = masked
      BY <1>0, <2>1 DEF Begin
    <3> QED BY <2>1, <3>1 DEF Begin
  <2>2. CASE NextFile
    BY <2>2 DEF NextFile, ShredFile
  <2>3. CASE Overwrite \/ Fsync \/ Unlink \/ WalkEntry \/ EndListing \/ LeaveDirectory \/ CommandTimesOut
    BY <2>3 DEF Overwrite, Fsync, Unlink, WalkEntry, EndListing, LeaveDirectory, CommandTimesOut
  <2>4. CASE NextFolder
    BY <2>4 DEF NextFolder, EnterDirectory
  <2>5. CASE NextCommand
    <3>1. child' = FALSE \/ child' = ~conf.dry_run \/ child' = child
      BY <2>5 DEF NextCommand
    <3>2. ~child'
      BY <3>1
    <3>3. pc' \in {"commands", "sync"}
      BY <2>5, ZenonT(30) DEF NextCommand
    <3>4. UNCHANGED <<conf, stack, current, pass, written, world, masked, power, failed>>
      BY <2>5 DEF NextCommand
    <3>5. child' = child
      BY <1>0, <2>5, <3>1
    <3> QED BY <3>2, <3>3, <3>4, <3>5
  <2>6. CASE Sync
    BY <2>6 DEF Sync
  <2>7. CASE SwapOff
    BY <2>7 DEF SwapOff
  <2>8. CASE OverwriteSwap \/ Shutdown
    BY <2>8 DEF OverwriteSwap, Shutdown
  <2>9. CASE MeltSelf
    BY <2>9 DEF MeltSelf
  <2>10. CASE UNCHANGED vars
    BY <2>10 DEF vars
  <2>11. CASE LogKillEvent
    BY <2>11 DEF LogKillEvent
  <2> QED
    BY <2>1, <2>2, <2>3, <2>4, <2>5, <2>6, <2>7, <2>8, <2>9, <2>10, <2>11 DEF Next, Sequence
<1> QED BY <1>1, <1>2

(* A dry run changes nothing but its log, and masks no signal, whatever the *)
(* configuration names: kill.rs, the dry_run tests of every step.          *)
THEOREM DryRunCorrect == Spec => DryRunTouchesNothing
<1>1. Init => Idles
  BY DEF Init, Idles
<1>2. TypeOK /\ Idles /\ [Next]_vars => Idles'
  BY DryStep
<1>3. TypeOK /\ Idles /\ [Next]_vars => [Harmless]_vars
  BY DryStep
<1>4. [Harmless]_vars => [conf.dry_run => UNCHANGED <<world, masked, child, power>>]_vars
  BY DEF Harmless
<1> QED BY <1>1, <1>2, <1>3, <1>4, KillTypeCorrect, PTL DEF Spec, DryRunTouchesNothing

---------------------------------------------------------------------------
(* After the sync nothing is written to the tree any more.                 *)
Flushed ==
  /\ power = "off" => pc = "off"
  /\ pc \in {"swapoff", "dd", "melt", "shutdown", "off", "exited"} =>
       /\ current = None /\ stack = <<>> /\ ~child
       /\ conf.do_sync /\ ~conf.dry_run => disk = cache

FlushInv == Idles /\ Flushed

LEMMA FlushStep == TypeOK /\ FlushInv /\ [Next]_vars => FlushInv'
<1> SUFFICES ASSUME TypeOK, FlushInv, [Next]_vars PROVE Flushed'
  BY DryStep DEF FlushInv
<1> USE DEF FlushInv, Flushed, Goto, Idle, world, walk
<1>1. CASE Begin \/ LogKillEvent \/ NextFile \/ NextFolder
  BY <1>1 DEF Begin, LogKillEvent, NextFile, NextFolder
<1>2. CASE Overwrite \/ Fsync \/ Unlink \/ WalkEntry \/ EndListing \/ LeaveDirectory \/ CommandTimesOut
  BY <1>2 DEF Overwrite, Fsync, Unlink, WalkEntry, EndListing, LeaveDirectory, CommandTimesOut
<1>3. CASE NextCommand
  <2>1. pc' \in {"commands", "sync"} /\ pc = "commands"
    BY <1>3, ZenonT(30) DEF NextCommand
  <2>2. UNCHANGED <<power, conf, disk, cache>>
    BY <1>3 DEF NextCommand
  <2> QED BY <2>1, <2>2
<1>4. CASE Sync
  BY <1>4 DEF Sync, Flush
<1>5. CASE SwapOff \/ OverwriteSwap
  BY <1>5 DEF SwapOff, OverwriteSwap
<1>6. CASE MeltSelf
  BY <1>6 DEF MeltSelf
<1>7. CASE Shutdown
  BY <1>7 DEF Shutdown
<1>8. CASE UNCHANGED vars
  BY <1>8 DEF vars
<1> QED BY <1>1, <1>2, <1>3, <1>4, <1>5, <1>6, <1>7, <1>8 DEF Next, Sequence

(* With do_sync the disk holds all that was done to the tree when the      *)
(* power goes: kill.rs, the sync before the swap wipe and the melt.        *)
THEOREM FlushCorrect == Spec => []FlushedAtPowerOff
<1>1. Init => FlushInv
  BY DEF Init, FlushInv, Idles, Flushed
<1>2. TypeOK /\ FlushInv /\ [Next]_vars => FlushInv'
  BY FlushStep
<1>3. FlushInv => FlushedAtPowerOff
  BY DEF FlushInv, Flushed, Idles, FlushedAtPowerOff
<1> QED BY <1>1, <1>2, <1>3, KillTypeCorrect, PTL DEF Spec
---------------------------------------------------------------------------
(* What a node reaches: itself, what f leads to from there, and no more    *)
(* than any set that f does not lead out of.                               *)
LEMMA ReachedFacts ==
  ASSUME NEW f \in [Node -> SUBSET Node], NEW n \in Node
  PROVE  /\ n \in Reached(f)[n]
         /\ Reached(f)[n] \subseteq Node
         /\ \A d \in Reached(f)[n] : f[d] \subseteq Reached(f)[n]
         /\ \A S \in SUBSET Node :
              n \in S /\ (\A d \in S : f[d] \subseteq S) => Reached(f)[n] \subseteq S
BY DEF Reached

LEMMA TreeTypes ==
  /\ Entries \in [Node -> SUBSET Node]
  /\ Listing \in [Node -> SUBSET Node]
BY KillAssumption DEF Listing, Followed

(* Everything a configuration names is a node.                             *)
LEMMA NamedAreNodes ==
  ASSUME TypeOK
  PROVE  /\ Folders \subseteq Node /\ Listed \subseteq Node
         /\ \A i \in 1..Len(conf.files) : conf.files[i] \in Listed
         /\ \A i \in 1..Len(conf.folders) : conf.folders[i] \in Folders
<1>1. conf.files \in Seq(Node) /\ conf.folders \in Seq(Node)
  BY ConfTypes
<1> QED BY <1>1, LenProperties, ElementOfSeq DEF Folders, Listed

LEMMA LinkedFacts ==
  ASSUME TypeOK
  PROVE  /\ Folders \subseteq Linked(Folders) /\ Linked(Folders) \subseteq Node
         /\ \A d \in Linked(Folders) :
              Followed(d) # None => Entries[Followed(d)] \subseteq Linked(Folders)
<1>1. Folders \subseteq Node
  BY NamedAreNodes
<1>2. \A n \in Folders : /\ n \in LinkedOf[n] /\ LinkedOf[n] \subseteq Node
                         /\ \A d \in LinkedOf[n] : Listing[d] \subseteq LinkedOf[n]
  BY <1>1, TreeTypes, ReachedFacts DEF LinkedOf
<1>3. \A d \in Node : Followed(d) # None => Listing[d] = Entries[Followed(d)]
  BY DEF Listing
<1> QED BY <1>1, <1>2, <1>3 DEF Linked

LEMMA BelowFacts ==
  ASSUME TypeOK
  PROVE  /\ Folders \subseteq Below(Folders) /\ Below(Folders) \subseteq Node
         /\ \A d \in Below(Folders) : Entries[d] \subseteq Below(Folders)
         /\ \A S \in SUBSET Node :
              Folders \subseteq S /\ (\A d \in S : Entries[d] \subseteq S) => Below(Folders) \subseteq S
<1>1. Folders \subseteq Node
  BY NamedAreNodes
<1>2. \A n \in Folders : /\ n \in BelowOf[n] /\ BelowOf[n] \subseteq Node
                         /\ \A d \in BelowOf[n] : Entries[d] \subseteq BelowOf[n]
                         /\ \A S \in SUBSET Node :
                              n \in S /\ (\A d \in S : Entries[d] \subseteq S) => BelowOf[n] \subseteq S
  BY <1>1, TreeTypes, ReachedFacts DEF BelowOf
<1> QED BY <1>1, <1>2 DEF Below

---------------------------------------------------------------------------
(* A directory goes after all it held, and the file that is open is there. *)
Emptied == \A d \in Node : ~Exists(d) => \A e \in Entries[d] : ~Exists(e)

OpenIsThere == current # None => Exists(current)

Dealt(n) == ~Exists(n) \/ n \in failed

TreeInv == KInv /\ Emptied /\ OpenIsThere

(* What is gone stays gone, and what has failed has failed.                *)
Lasting == conf' = conf /\ \A n \in Node : Dealt(n) => cache'[n] = "gone" \/ n \in failed'

(* What a removal leaves of it: the one thing that may not go before what  *)
(* it holds is a directory.                                                *)
LEMMA RemoveTree ==
  ASSUME TreeInv, NEW n \in Node, Remove(n), \A e \in Entries[n] : ~Exists(e)
  PROVE  /\ Emptied'
         /\ \A m \in Node : Dealt(m) => cache'[m] = "gone" \/ m \in failed'
<1>1. Entries \in [Node -> SUBSET Node] /\ cache \in [Node -> {"intact", "random", "gone"}]
  BY TreeTypes DEF TreeInv, KInv, TypeOK
<1>2. CASE cache' = [cache EXCEPT ![n] = "gone"] /\ UNCHANGED failed
  <2>1. cache'[n] = "gone" /\ \A m \in Node : m # n => cache'[m] = cache[m]
    BY <1>1, <1>2
  <2> QED BY <1>1, <1>2, <2>1 DEF TreeInv, Emptied, Exists, Dealt
<1>3. CASE Fails(n) /\ UNCHANGED cache
  BY <1>3 DEF TreeInv, Emptied, Exists, Dealt, Fails
<1> QED BY <1>2, <1>3 DEF Remove

LEMMA ShredFileTree ==
  ASSUME TreeInv, NEW n \in Node, NEW path, ShredFile(n, path), current = None
  PROVE  /\ Emptied' /\ OpenIsThere'
         /\ \A m \in Node : Dealt(m) => cache'[m] = "gone" \/ m \in failed'
<1>1. CASE UNCHANGED <<current, pass, cache>> /\ failed \subseteq failed'
  BY <1>1 DEF TreeInv, Emptied, OpenIsThere, Exists, Dealt
<1>2. CASE Kind[n] \in {"link", "empty"} /\ Remove(n) /\ UNCHANGED <<current, pass>>
  <2>1. Entries[n] = {}
    BY <1>2, KillAssumption
  <2> QED BY <1>2, <2>1, RemoveTree, NoneIsNoNode DEF OpenIsThere
<1>3. CASE Present(n, path) /\ Open(n) /\ UNCHANGED <<failed, cache>>
  BY <1>3 DEF TreeInv, Emptied, OpenIsThere, Exists, Dealt, Open, Present
<1> QED BY <1>1, <1>2, <1>3 DEF ShredFile, Fails

LEMMA EnterKeepsFailures ==
  ASSUME NEW n, NEW path, EnterDirectory(n, path)
  PROVE  failed \subseteq failed'
BY DEF EnterDirectory, Descend, Fails

LEMMA TreeStep == TreeInv /\ [Next]_vars => Emptied' /\ OpenIsThere' /\ Lasting
<1> SUFFICES ASSUME TreeInv, [Next]_vars PROVE Emptied' /\ OpenIsThere' /\ Lasting
  OBVIOUS
<1> USE DEF Lasting
<1>0. conf' = conf
  BY DEF Next, Sequence, Begin, NextFile, Overwrite, Fsync, Unlink, NextFolder, WalkEntry,
     LeaveDirectory, NextCommand, CommandTimesOut, Sync, SwapOff, OverwriteSwap, MeltSelf,
     Shutdown, LogKillEvent, EndListing, vars
<1>1. CASE UNCHANGED <<current, cache>> /\ failed \subseteq failed'
  BY <1>0, <1>1 DEF TreeInv, Emptied, OpenIsThere, Exists, Dealt
<1>2. CASE Begin \/ LogKillEvent \/ EndListing \/ NextCommand \/ CommandTimesOut \/ Sync
           \/ SwapOff \/ OverwriteSwap \/ MeltSelf \/ Shutdown \/ UNCHANGED vars
  <2>1. UNCHANGED <<current, cache>>
    BY <1>2 DEF Begin, NextCommand, CommandTimesOut, Sync, SwapOff, OverwriteSwap, MeltSelf,
       Shutdown, LogKillEvent, EndListing, vars, walk, world
  <2>2. failed \subseteq failed'
    BY <1>2 DEF Begin, NextCommand, CommandTimesOut, Sync, SwapOff, OverwriteSwap, MeltSelf,
       Shutdown, LogKillEvent, EndListing, Fails, vars
  <2> QED BY <1>1, <2>1, <2>2
<1>3. CASE NextFile
  <2>1. CASE next <= Len(conf.files) /\ ShredFile(conf.files[next], <<>>)
    <3>1. conf.files[next] \in Node
      BY <2>1, ConfTypes, ElementOfSeq DEF TreeInv, KInv, TypeOK
    <3> QED BY <1>0, <1>3, <2>1, <3>1, ShredFileTree DEF NextFile, Idle
  <2> QED BY <1>1, <1>3, <2>1 DEF NextFile
<1>4. CASE Overwrite
  <2>1. CASE cache' = [cache EXCEPT ![current] = "random"] /\ UNCHANGED <<current, failed>>
    <3>1. current \in Node /\ cache[current] # "gone"
      BY <1>4, NoneIsNoNode DEF TreeInv, KInv, TypeOK, Overwrite, OpenIsThere, Exists
    <3>2. cache'[current] = "random" /\ \A m \in Node : m # current => cache'[m] = cache[m]
      BY <2>1, <3>1 DEF TreeInv, KInv, TypeOK
    <3>3. \A m \in Node : cache'[m] = "gone" <=> cache[m] = "gone"
      BY <3>1, <3>2
    <3> QED BY <1>0, <2>1, <3>1, <3>2, <3>3, TreeTypes
            DEF TreeInv, Emptied, OpenIsThere, Exists, Dealt
  <2>2. CASE Abandon /\ UNCHANGED cache
    BY <1>0, <2>2 DEF TreeInv, Emptied, OpenIsThere, Exists, Dealt, Abandon, Fails
  <2> QED BY <1>4, <2>1, <2>2 DEF Overwrite
<1>5. CASE Fsync
  <2>1. UNCHANGED cache /\ current' \in {current, None} /\ failed \subseteq failed'
    BY <1>5 DEF Fsync, Abandon, Fails
  <2> QED BY <1>0, <2>1 DEF TreeInv, Emptied, OpenIsThere, Exists, Dealt
<1>6. CASE Unlink
  <2>1. current \in Node /\ Kind[current] = "file" /\ Remove(current) /\ current' = None
    BY <1>6, NoneIsNoNode DEF TreeInv, KInv, TypeOK, Unlink
  <2>2. Entries[current] = {}
    BY <2>1, KillAssumption
  <2> QED BY <1>0, <2>1, <2>2, RemoveTree DEF OpenIsThere
<1>7. CASE NextFolder
  <2>1. failed \subseteq failed'
    BY <1>7, EnterKeepsFailures DEF NextFolder
  <2> QED BY <1>1, <1>7, <2>1 DEF NextFolder, world
<1>8. CASE WalkEntry
  <2>1. PICK e \in stack[1].todo :
          \/ EnterDirectory(e, Visiting(e)) /\ UNCHANGED <<current, pass, cache>>
          \/ ShredFile(e, stack)
    BY <1>8 DEF WalkEntry
  <2>2. e \in Node /\ current = None
    BY <1>8, VisitingTypes DEF TreeInv, KInv, WalkEntry
  <2>3. CASE EnterDirectory(e, Visiting(e)) /\ UNCHANGED <<current, pass, cache>>
    BY <1>1, <2>3, EnterKeepsFailures
  <2>4. CASE ShredFile(e, stack)
    BY <1>0, <2>2, <2>4, ShredFileTree
  <2> QED BY <2>1, <2>3, <2>4
<1>9. CASE LeaveDirectory
  <2>1. stack[1].at \in Node /\ UNCHANGED current /\ current = None
    <3>1. stack \in Seq(Frame) /\ stack # <<>>
      BY <1>9 DEF TreeInv, KInv, TypeOK, Frame, LeaveDirectory
    <3>2. 1 \in DOMAIN stack /\ stack[1] \in Frame
      BY <3>1, ElementOfSeq, EmptySeq
    <3> QED BY <1>9, <3>2 DEF Frame, LeaveDirectory
  <2>2. CASE Remove(stack[1].at) /\ \A e \in Entries[stack[1].at] : ~Exists(e)
    BY <1>0, <2>1, <2>2, RemoveTree DEF OpenIsThere
  <2>3. CASE failed' = failed \cup {stack[1].at} /\ UNCHANGED cache
    BY <1>1, <2>1, <2>3
  <2> QED BY <1>9, <2>2, <2>3 DEF LeaveDirectory
<1> QED BY <1>2, <1>3, <1>4, <1>5, <1>6, <1>7, <1>8, <1>9 DEF Next, Sequence
---------------------------------------------------------------------------
(* Whatever the walk has in hand is within what the configuration exposes. *)
InHand ==
  /\ \A i \in 1..Len(stack) :
       stack[i].at \in Linked(Folders) /\ stack[i].todo \subseteq Linked(Folders)
  /\ current # None => current \in Exposed

ExposeInv == InHand /\ OutsideUntouched

LEMMA LinkedStays ==
  ASSUME conf' = conf
  PROVE  Linked(Folders)' = Linked(Folders) /\ Exposed' = Exposed /\ Listed' = Listed
BY DEF Linked, Folders, Exposed, Listed

LEMMA ShredFileInHand ==
  ASSUME KInv, ExposeInv, NEW n \in Exposed, n \in Node, NEW path, ShredFile(n, path),
         current = None, UNCHANGED <<conf, disk>>
  PROVE  OutsideUntouched' /\ (current' # None => current' \in Exposed)
<1>1. Exposed' = Exposed
  BY LinkedStays
<1>2. CASE UNCHANGED <<current, cache>>
  BY <1>1, <1>2 DEF ExposeInv, OutsideUntouched
<1>3. CASE Remove(n) /\ UNCHANGED current
  BY <1>1, <1>3, RemoveTypes DEF ExposeInv, OutsideUntouched, KInv
<1>4. CASE Open(n) /\ UNCHANGED cache
  BY <1>1, <1>4 DEF ExposeInv, OutsideUntouched, Open
<1> QED BY <1>2, <1>3, <1>4 DEF ShredFile

(* The frames of a list of directories.                                    *)
Within(s) ==
  \A i \in 1..Len(s) : s[i].at \in Linked(Folders) /\ s[i].todo \subseteq Linked(Folders)

LEMMA EnterWithin ==
  ASSUME KInv, NEW n \in Linked(Folders), NEW path \in Seq(Frame), Within(path),
         EnterDirectory(n, path)
  PROVE  Within(stack')
<1> DEFINE frame == [at |-> n, todo |-> {e \in Entries[Followed(n)] : Exists(e)}]
<1>1. CASE IsDir(n, path) /\ stack' = <<frame>> \o path
  <2>1. Entries[Followed(n)] \subseteq Linked(Folders) /\ n \in Node
    BY <1>1, LinkedFacts DEF KInv, IsDir
  <2>2. frame.at \in Linked(Folders) /\ frame.todo \subseteq Linked(Folders) /\ frame \in Frame
    BY <2>1, LinkedFacts DEF Frame, KInv
  <2> HIDE DEF frame
  <2>3. <<frame>> \in Seq(Frame) /\ Len(<<frame>>) = 1 /\ <<frame>>[1] = frame
    BY <2>2
  <2>4. /\ Len(stack') = 1 + Len(path)
        /\ \A i \in 1..Len(stack') : stack'[i] = IF i <= 1 THEN <<frame>>[i] ELSE path[i - 1]
    BY <1>1, <2>3, ConcatProperties
  <2>5. Len(path) \in Nat
    BY LenProperties
  <2>6. ASSUME NEW i \in 1..Len(stack')
        PROVE  stack'[i].at \in Linked(Folders) /\ stack'[i].todo \subseteq Linked(Folders)
    <3>1. CASE i = 1
      BY <2>2, <2>3, <2>4, <3>1
    <3>2. CASE i # 1
      <4>1. i - 1 \in 1..Len(path) /\ stack'[i] = path[i - 1]
        BY <2>4, <2>5, <3>2
      <4> QED BY <4>1 DEF Within
    <3> QED BY <3>1, <3>2
  <2> QED BY <2>6 DEF Within
<1>2. CASE stack' = path
  BY <1>2
<1> QED BY <1>1, <1>2 DEF EnterDirectory, Descend

LEMMA VisitingShape ==
  ASSUME TypeOK, stack # <<>>, NEW e \in stack[1].todo
  PROVE  /\ Len(Visiting(e)) = Len(stack) /\ Len(stack) \in Nat \ {0} /\ 1 \in 1..Len(stack)
         /\ \A i \in 1..Len(stack) : /\ Visiting(e)[i].at = stack[i].at
                                     /\ Visiting(e)[i].todo \subseteq stack[i].todo
<1>1. stack \in Seq(Frame) /\ Len(stack) \in Nat /\ DOMAIN stack = 1..Len(stack)
  BY LenProperties DEF TypeOK, Frame
<1>2. 1 \in 1..Len(stack) /\ stack[1] \in Frame
  BY <1>1, ElementOfSeq, EmptySeq
<1> DEFINE row == [stack[1] EXCEPT !.todo = @ \ {e}]
<1>3. row.at = stack[1].at /\ row.todo = stack[1].todo \ {e} /\ row \in Frame
  BY <1>2 DEF Frame
<1>4. Visiting(e) = [stack EXCEPT ![1] = row]
  BY DEF Visiting
<1> HIDE DEF row
<1>5. Visiting(e) \in Seq(Frame) /\ Len(Visiting(e)) = Len(stack)
  BY <1>1, <1>2, <1>3, <1>4, ExceptSeq
<1>6. Visiting(e)[1] = row /\ \A i \in 1..Len(stack) : i # 1 => Visiting(e)[i] = stack[i]
  BY <1>1, <1>2, <1>4
<1> QED BY <1>1, <1>2, <1>3, <1>5, <1>6

LEMMA VisitingWithin ==
  ASSUME TypeOK, stack # <<>>, Within(stack), NEW e \in stack[1].todo
  PROVE  e \in Linked(Folders) /\ Within(Visiting(e))
BY VisitingShape DEF Within

LEMMA ExposeStep == KInv /\ ExposeInv /\ [Next]_vars => ExposeInv'
<1> SUFFICES ASSUME KInv, ExposeInv, [Next]_vars PROVE ExposeInv'
  OBVIOUS
<1>0. Within(stack) /\ InHand /\ OutsideUntouched
  BY DEF Within, ExposeInv, InHand
<1>1. ASSUME conf' = conf, Within(stack'), current' # None => current' \in Exposed,
             OutsideUntouched'
      PROVE  ExposeInv'
  <2>1. Linked(Folders)' = Linked(Folders) /\ Exposed' = Exposed
    BY <1>1, LinkedStays
  <2> QED BY <1>1, <2>1 DEF ExposeInv, InHand, Within
<1>2. ASSUME UNCHANGED <<conf, stack, cache, disk>>, current' \in {current, None}
      PROVE  ExposeInv'
  <2>1. Exposed' = Exposed
    BY <1>2, LinkedStays
  <2>2. OutsideUntouched'
    BY <1>0, <1>2, <2>1 DEF OutsideUntouched
  <2> QED BY <1>0, <1>1, <1>2, <2>2 DEF InHand
<1>3. CASE Begin \/ LogKillEvent \/ NextCommand \/ CommandTimesOut \/ SwapOff \/ OverwriteSwap
           \/ MeltSelf \/ Shutdown \/ UNCHANGED vars
  <2>1. UNCHANGED <<conf, stack, cache, disk, current>>
    BY <1>3 DEF Begin, NextCommand, CommandTimesOut, SwapOff, OverwriteSwap, MeltSelf, Shutdown,
       LogKillEvent, vars, walk, world
  <2> QED BY <1>2, <2>1
<1>4. CASE Sync
  <2>1. UNCHANGED <<conf, stack, cache, current>> /\ disk' \in {disk, cache}
    BY <1>4 DEF Sync, Flush
  <2>2. OutsideUntouched'
    BY <1>0, <2>1, LinkedStays DEF OutsideUntouched
  <2> QED BY <1>0, <1>1, <2>1, <2>2 DEF InHand
<1>5. CASE NextFile
  <2>1. CASE next <= Len(conf.files) /\ ShredFile(conf.files[next], <<>>)
    <3>1. conf.files[next] \in Node /\ conf.files[next] \in Exposed
      <4>1. next \in Nat \ {0} /\ conf.files \in Seq(Node)
        BY ConfTypes DEF KInv, TypeOK
      <4>2. next \in 1..Len(conf.files)
        BY <2>1, <4>1, LenProperties
      <4> QED BY <4>1, <4>2, NamedAreNodes, ElementOfSeq DEF KInv, Exposed
    <3>2. OutsideUntouched' /\ (current' # None => current' \in Exposed)
      BY <1>5, <2>1, <3>1, ShredFileInHand DEF NextFile, Idle
    <3> QED BY <1>0, <1>1, <1>5, <3>2 DEF NextFile
  <2>2. CASE UNCHANGED <<current, cache>>
    BY <1>2, <1>5, <2>2 DEF NextFile
  <2> QED BY <1>5, <2>1, <2>2 DEF NextFile
<1>6. CASE Overwrite
  <2>1. UNCHANGED <<conf, stack, disk>> /\ current \in Node /\ current \in Exposed
        /\ current' \in {current, None}
    BY <1>0, <1>6, NoneIsNoNode DEF KInv, TypeOK, Overwrite, InHand, Abandon
  <2>2. \A m \in Node : m # current => cache'[m] = cache[m]
    BY <1>6, <2>1 DEF KInv, TypeOK, Overwrite
  <2>3. OutsideUntouched'
    BY <1>0, <2>1, <2>2, LinkedStays DEF OutsideUntouched
  <2> QED BY <1>0, <1>1, <2>1, <2>3
<1>7. CASE Fsync
  <2>1. UNCHANGED <<conf, stack, cache>> /\ current \in Node /\ current \in Exposed
        /\ current' \in {current, None}
    BY <1>0, <1>7, NoneIsNoNode DEF KInv, TypeOK, Fsync, InHand, Abandon
  <2>2. \A m \in Node : m # current => disk'[m] = disk[m]
    BY <1>7, <2>1 DEF KInv, TypeOK, Fsync
  <2>3. OutsideUntouched'
    BY <1>0, <2>1, <2>2, LinkedStays DEF OutsideUntouched
  <2> QED BY <1>0, <1>1, <2>1, <2>3
<1>8. CASE Unlink
  <2>1. UNCHANGED <<conf, stack, disk>> /\ current \in Node /\ current \in Exposed
        /\ current' = None /\ Remove(current)
    BY <1>0, <1>8, NoneIsNoNode DEF KInv, TypeOK, Unlink, InHand
  <2>2. \A m \in Node : m # current => cache'[m] = cache[m]
    BY <2>1, RemoveTypes DEF KInv
  <2>3. OutsideUntouched'
    BY <1>0, <2>1, <2>2, LinkedStays DEF OutsideUntouched
  <2> QED BY <1>0, <1>1, <2>1, <2>3
<1>9. CASE NextFolder
  <2>1. UNCHANGED <<conf, cache, disk, current>> /\ OutsideUntouched'
    BY <1>0, <1>9, LinkedStays DEF NextFolder, world, OutsideUntouched
  <2>2. CASE next <= Len(conf.folders) /\ EnterDirectory(conf.folders[next], <<>>)
    <3>1. conf.folders[next] \in Linked(Folders)
      <4>1. next \in Nat \ {0} /\ conf.folders \in Seq(Node)
        BY ConfTypes DEF KInv, TypeOK
      <4>2. next \in 1..Len(conf.folders)
        BY <2>2, <4>1, LenProperties
      <4> QED BY <4>2, NamedAreNodes, LinkedFacts DEF KInv
    <3>2. <<>> \in Seq(Frame) /\ Within(<<>>)
      BY EmptySeq DEF Within
    <3>3. Within(stack')
      BY <2>2, <3>1, <3>2, EnterWithin
    <3> QED BY <1>0, <1>1, <2>1, <3>3 DEF InHand
  <2>3. CASE UNCHANGED stack
    BY <1>2, <2>1, <2>3
  <2> QED BY <1>9, <2>2, <2>3 DEF NextFolder
<1>10. CASE WalkEntry
  <2>1. PICK e \in stack[1].todo :
          \/ EnterDirectory(e, Visiting(e)) /\ UNCHANGED <<current, pass, cache>>
          \/ ShredFile(e, stack) /\ stack' = Visiting(e)
    BY <1>10 DEF WalkEntry
  <2>2. /\ e \in Node /\ Visiting(e) \in Seq(Frame) /\ Within(Visiting(e))
        /\ e \in Linked(Folders) /\ current = None /\ UNCHANGED <<conf, disk>>
    BY <1>0, <1>10, VisitingTypes, VisitingWithin DEF KInv, WalkEntry
  <2>3. CASE EnterDirectory(e, Visiting(e)) /\ UNCHANGED <<current, pass, cache>>
    <3>1. Within(stack')
      BY <2>2, <2>3, EnterWithin
    <3>2. OutsideUntouched'
      BY <1>0, <2>2, <2>3, LinkedStays DEF OutsideUntouched
    <3> QED BY <1>1, <2>2, <2>3, <3>1, <3>2
  <2>4. CASE ShredFile(e, stack) /\ stack' = Visiting(e)
    <3>1. e \in Exposed
      BY <2>2 DEF Exposed
    <3>2. OutsideUntouched' /\ (current' # None => current' \in Exposed)
      BY <2>2, <2>4, <3>1, ShredFileInHand
    <3> QED BY <1>1, <2>2, <2>4, <3>2
  <2> QED BY <2>1, <2>3, <2>4
<1>11. CASE LeaveDirectory
  <2>1. stack \in Seq(Frame) /\ stack # <<>> /\ Len(stack) \in Nat
    BY <1>11, LenProperties DEF KInv, TypeOK, Frame, LeaveDirectory
  <2>2. 1 \in 1..Len(stack) /\ stack[1].at \in Node
    <3>1. 1 \in 1..Len(stack)
      BY <2>1, EmptySeq
    <3>2. stack[1] \in Frame
      BY <2>1, <3>1, ElementOfSeq
    <3> QED BY <3>1, <3>2 DEF Frame
  <2>3. /\ Len(stack') = Len(stack) - 1
        /\ \A i \in 1..Len(stack') : stack'[i] = stack[i + 1]
    BY <1>11, <2>1, HeadTailProperties DEF LeaveDirectory
  <2>4. \A i \in 1..Len(stack') : i + 1 \in 1..Len(stack)
    BY <2>1, <2>3
  <2>5. Within(stack')
    BY <1>0, <2>3, <2>4 DEF Within
  <2>6. stack[1].at \in Exposed
    BY <1>0, <2>2 DEF Within, Exposed
  <2>7. \A m \in Node : m # stack[1].at => cache'[m] = cache[m]
    BY <1>11, <2>2, RemoveTypes DEF LeaveDirectory, KInv
  <2>8. UNCHANGED <<conf, disk, current>>
    BY <1>11 DEF LeaveDirectory
  <2>9. OutsideUntouched'
    BY <1>0, <2>6, <2>7, <2>8, LinkedStays DEF OutsideUntouched
  <2> QED BY <1>0, <1>1, <2>5, <2>8, <2>9 DEF InHand
<1>12. CASE EndListing
  <2>1. Within(stack')
    BY <1>0, <1>12, EndListingShape DEF Within, KInv
  <2>2. OutsideUntouched'
    BY <1>0, <1>12, EndListingShape, LinkedStays DEF OutsideUntouched, KInv
  <2> QED BY <1>0, <1>1, <1>12, <2>1, <2>2, EndListingShape DEF InHand, KInv
<1> QED BY <1>3, <1>4, <1>5, <1>6, <1>7, <1>8, <1>9, <1>10, <1>11, <1>12 DEF Next, Sequence
---------------------------------------------------------------------------
(* The lists are worked off in order: what is behind the position of the   *)
(* step is gone or has failed, but for what is being worked on.            *)
Walking(d) == stack # <<>> /\ stack[Len(stack)].at = d

FilesDone ==
  \A i \in 1..Len(conf.files) :
    \/ Dealt(conf.files[i])
    \/ pc \in {"idle", "log"}
    \/ pc = "files" /\ (i >= next \/ conf.files[i] = current)

FoldersDone ==
  \A i \in 1..Len(conf.folders) :
    \/ Kind[conf.folders[i]] # "dir"
    \/ Dealt(conf.folders[i])
    \/ pc \in {"idle", "log", "files"}
    \/ pc = "folders" /\ (i >= next \/ Walking(conf.folders[i]))

InStep ==
  /\ stack # <<>> => pc = "folders"
  /\ current # None => pc \in {"files", "folders"}
  /\ conf.dry_run => pc # "exited"

SpareInv ==
  /\ TreeInv
  /\ Idles
  /\ InStep
  /\ ~conf.dry_run => FilesDone /\ FoldersDone

(* An opened file is behind the position, everything else ShredFile is     *)
(* given is dealt with at once.                                            *)
LEMMA ShredFileDeals ==
  ASSUME TreeInv, NEW n \in Node, NEW path, ShredFile(n, path), ~conf.dry_run, current = None
  PROVE  (cache'[n] = "gone" \/ n \in failed') \/ current' = n
<1>1. CASE Remove(n)
  BY <1>1 DEF Remove, Fails, TreeInv, KInv, TypeOK
<1>2. CASE failed' = failed \cup {n}
  BY <1>2
<1>3. CASE Open(n) \/ Fails(n)
  BY <1>3 DEF Open, Fails
<1> QED BY <1>1, <1>2, <1>3 DEF ShredFile

(* A step of the walk leaves the outermost directory where it was.         *)
LEMMA EnterWalks ==
  ASSUME KInv, NEW n \in Node, NEW path \in Seq(Frame), path # <<>>, EnterDirectory(n, path)
  PROVE  stack' # <<>> /\ stack'[Len(stack')].at = path[Len(path)].at
<1> DEFINE frame == [at |-> n, todo |-> {e \in Entries[Followed(n)] : Exists(e)}]
<1>1. CASE IsDir(n, path) /\ stack' = <<frame>> \o path
  <2>1. Entries[Followed(n)] \subseteq Node
    BY <1>1, KillAssumption DEF IsDir, Followed
  <2>2. frame \in Frame
    BY <2>1 DEF Frame
  <2> HIDE DEF frame
  <2>3. <<frame>> \in Seq(Frame) /\ Len(<<frame>>) = 1
    BY <2>2
  <2>4. /\ Len(stack') = 1 + Len(path)
        /\ \A i \in 1..Len(stack') : stack'[i] = IF i <= 1 THEN <<frame>>[i] ELSE path[i - 1]
    BY <1>1, <2>3, ConcatProperties
  <2>5. Len(path) \in Nat \ {0}
    BY LenProperties, EmptySeq
  <2>6. stack'[Len(stack')] = path[Len(path)]
    BY <2>4, <2>5
  <2>7. stack' # <<>>
    BY <2>4, <2>5, EmptySeq
  <2> QED BY <2>6, <2>7
<1>2. CASE stack' = path
  BY <1>2
<1> QED BY <1>1, <1>2 DEF EnterDirectory, Descend

(* A folder that is a directory is entered, or fails, or is not there.     *)
LEMMA EnterDeals ==
  ASSUME TreeInv, NEW n \in Node, Kind[n] = "dir", EnterDirectory(n, <<>>), UNCHANGED cache,
         ~conf.dry_run
  PROVE  \/ cache'[n] = "gone" \/ n \in failed'
         \/ stack' # <<>> /\ stack'[Len(stack')].at = n
<1> DEFINE frame == [at |-> n, todo |-> {e \in Entries[Followed(n)] : Exists(e)}]
<1>1. CASE Exists(n)
  <2>1. IsDir(n, <<>>)
    <3> DEFINE path == <<[at |-> n, todo |-> {}]>> \o <<>>
    <3>1. path = <<[at |-> n, todo |-> {}]>>
      OBVIOUS
    <3>2. DOMAIN path = {1} /\ path[1].at = n
      BY <3>1
    <3>3. LinksIn(path) = {}
      BY <3>2 DEF LinksIn
    <3>4. Cardinality(LinksIn(path)) = 0
      BY <3>3, FS_EmptySet
    <3>5. Cardinality(LinksIn(path)) <= MAX_LINKS
      BY <3>4, KillAssumption
    <3>6. \A i \in DOMAIN path : Exists(path[i].at)
      BY <1>1, <3>2
    <3>7. Resolves(path)
      BY <3>5, <3>6 DEF Resolves
    <3> HIDE DEF path
    <3>8. Followed(n) = n /\ n # None
      BY NoneIsNoNode DEF Followed
    <3> QED BY <1>1, <3>7, <3>8 DEF IsDir, path
  <2>2. CASE Fails(n)
    BY <2>2 DEF Fails
  <2>3. CASE stack' = <<frame>> \o <<>>
    <3>1. stack' = <<frame>>
      BY <2>3
    <3>2. frame.at = n
      OBVIOUS
    <3> HIDE DEF frame
    <3> QED BY <3>1, <3>2
  <2> QED BY <2>1, <2>2, <2>3 DEF EnterDirectory, Descend
<1>2. CASE ~Exists(n)
  BY <1>2 DEF Exists
<1> QED BY <1>1, <1>2
(* What is settled stays settled, whatever step is taken.                  *)
LEMMA SettledStays ==
  ASSUME SpareInv, [Next]_vars, NEW n \in Node, Dealt(n)
  PROVE  Dealt(n)'
BY TreeStep DEF SpareInv, Lasting, Dealt, Exists

LEMMA StepKept == TypeOK /\ Idles /\ InStep /\ [Next]_vars => InStep'
<1> SUFFICES ASSUME TypeOK, Idles, InStep, [Next]_vars PROVE InStep'
  OBVIOUS
<1> USE DEF InStep, Goto, Idle, world, walk
<1>1. CASE Begin \/ LogKillEvent \/ NextFile
  BY <1>1, NoneIsNoNode DEF Begin, LogKillEvent, NextFile, Idles
<1>2. CASE Overwrite \/ Fsync \/ Unlink
  BY <1>2 DEF Overwrite, Fsync, Unlink, Abandon
<1>3. CASE NextFolder
  BY <1>3 DEF NextFolder
<1>4. CASE WalkEntry \/ EndListing \/ LeaveDirectory
  BY <1>4 DEF WalkEntry, EndListing, LeaveDirectory
<1>5. CASE NextCommand
  <2>1. pc' \in {"commands", "sync"} /\ pc = "commands" /\ stack = <<>> /\ current = None
    BY <1>5, ZenonT(30) DEF NextCommand
  <2>2. UNCHANGED <<conf, stack, current>>
    BY <1>5 DEF NextCommand
  <2> QED BY <2>1, <2>2
<1>6. CASE CommandTimesOut \/ UNCHANGED vars
  BY <1>6 DEF CommandTimesOut, vars
<1>7. CASE Sync \/ SwapOff \/ OverwriteSwap \/ MeltSelf
  BY <1>7 DEF Sync, SwapOff, OverwriteSwap, MeltSelf
<1>8. CASE Shutdown
  BY <1>8 DEF Shutdown, Idles
<1> QED BY <1>1, <1>2, <1>3, <1>4, <1>5, <1>6, <1>7, <1>8 DEF Next, Sequence

LEMMA FilesStep ==
  ASSUME SpareInv, [Next]_vars, ~conf.dry_run
  PROVE  FilesDone'
<1>0. /\ FilesDone /\ conf' = conf /\ TreeInv /\ KInv /\ TypeOK
      /\ conf.files \in Seq(Node) /\ next \in Nat \ {0} /\ Len(conf.files) \in Nat
      /\ \A i \in 1..Len(conf.files) : conf.files[i] \in Node
  BY ConfTypes, TreeStep, LenProperties, ElementOfSeq
  DEF SpareInv, TreeInv, KInv, TypeOK, Lasting
<1> SUFFICES ASSUME NEW i \in 1..Len(conf.files), NEW n \in Node, n = conf.files[i]
             PROVE  \/ Dealt(n)'
                    \/ pc' \in {"idle", "log"}
                    \/ pc' = "files" /\ (i >= next' \/ n = current')
  BY <1>0 DEF FilesDone, Dealt, Exists
<1>1. n # None
  BY NoneIsNoNode
<1>2. Dealt(n) => Dealt(n)'
  BY SettledStays
<1>3. Dealt(n)' <=> (cache'[n] = "gone" \/ n \in failed')
  BY DEF Dealt, Exists
<1>4. \/ Dealt(n)
      \/ pc \in {"idle", "log"}
      \/ pc = "files" /\ (i >= next \/ n = current)
  BY <1>0 DEF FilesDone
<1>5. CASE Begin
  BY <1>5 DEF Begin, Goto
<1>6. CASE NextFile
  <2>1. pc = "files" /\ current = None
    BY <1>6 DEF NextFile, Idle
  <2>2. CASE next <= Len(conf.files) /\ ShredFile(conf.files[next], <<>>) /\ next' = next + 1
             /\ UNCHANGED pc
    <3>1. CASE i = next
      BY <1>0, <1>1, <1>3, <2>1, <2>2, <3>1, ShredFileDeals
    <3>2. CASE i > next
      <4>1. i >= next'
        BY <1>0, <2>2, <3>2
      <4> QED BY <2>1, <2>2, <4>1
    <3>3. CASE i < next
      <4>1. ~(i >= next)
        BY <1>0, <3>3
      <4> QED BY <1>1, <1>2, <1>4, <2>1, <4>1
    <3> QED BY <1>0, <3>1, <3>2, <3>3
  <2>3. CASE next > Len(conf.files)
    <3>1. ~(i >= next)
      BY <1>0, <2>3
    <3> QED BY <1>1, <1>2, <1>4, <2>1, <3>1
  <2> QED BY <1>6, <2>2, <2>3 DEF NextFile
<1>7. CASE Overwrite \/ Fsync \/ Unlink
  <2>1. UNCHANGED <<pc, next>>
    BY <1>7 DEF Overwrite, Fsync, Unlink
  <2>2. current' = current \/ (cache'[current] = "gone" \/ current \in failed')
    <3>1. current \in Node
      BY <1>0, <1>7 DEF TypeOK, Overwrite, Fsync, Unlink
    <3> QED BY <1>0, <1>7, <3>1 DEF TypeOK, Overwrite, Fsync, Unlink, Abandon, Fails, Remove
  <2> QED BY <1>2, <1>3, <1>4, <2>1, <2>2
<1>8. CASE pc \notin {"idle", "log", "files"}
  BY <1>2, <1>4, <1>8
<1>9. CASE WalkEntry \/ EndListing \/ LeaveDirectory
  BY <1>8, <1>9 DEF WalkEntry, EndListing, LeaveDirectory, SpareInv, InStep
<1>10. CASE NextFolder \/ NextCommand \/ Sync \/ SwapOff \/ OverwriteSwap \/ MeltSelf \/ Shutdown
  <2>1. pc \in {"folders", "commands", "sync", "swapoff", "dd", "melt", "shutdown"}
    BY <1>10 DEF NextFolder, NextCommand, Sync, SwapOff, OverwriteSwap, MeltSelf, Shutdown, Idle
  <2> QED BY <1>8, <2>1
<1>11. CASE CommandTimesOut \/ UNCHANGED vars
  <2>1. UNCHANGED <<pc, next, current>>
    BY <1>11 DEF CommandTimesOut, vars, walk
  <2> QED BY <1>2, <1>4, <2>1
<1>12. CASE LogKillEvent
  <2>1. pc' = "files" /\ next' = 1
    BY <1>12 DEF LogKillEvent, Goto
  <2> QED BY <1>0, <2>1
<1> QED BY <1>5, <1>6, <1>7, <1>9, <1>10, <1>11, <1>12 DEF Next, Sequence
LEMMA FoldersStep ==
  ASSUME SpareInv, [Next]_vars, ~conf.dry_run
  PROVE  FoldersDone'
<1>0. /\ FoldersDone /\ conf' = conf /\ TreeInv /\ KInv /\ TypeOK /\ InStep
      /\ conf.folders \in Seq(Node) /\ next \in Nat \ {0} /\ Len(conf.folders) \in Nat
      /\ \A i \in 1..Len(conf.folders) : conf.folders[i] \in Node
  BY ConfTypes, TreeStep, LenProperties, ElementOfSeq
  DEF SpareInv, TreeInv, KInv, TypeOK, Lasting
<1> SUFFICES ASSUME NEW i \in 1..Len(conf.folders), NEW n \in Node, n = conf.folders[i],
                    Kind[n] = "dir"
             PROVE  \/ Dealt(n)'
                    \/ pc' \in {"idle", "log", "files"}
                    \/ pc' = "folders" /\ (i >= next' \/ Walking(n)')
  BY <1>0 DEF FoldersDone, Dealt, Exists, Walking
<1>1. Dealt(n)' <=> (cache'[n] = "gone" \/ n \in failed')
  BY DEF Dealt, Exists
<1>2. Dealt(n) => Dealt(n)'
  BY SettledStays
<1>3. \/ Dealt(n)
      \/ pc \in {"idle", "log", "files"}
      \/ pc = "folders" /\ (i >= next \/ Walking(n))
  BY <1>0 DEF FoldersDone
<1>4. Walking(n)' <=> stack' # <<>> /\ stack'[Len(stack')].at = n
  BY DEF Walking
<1>5. CASE Begin \/ LogKillEvent
  BY <1>5 DEF Begin, LogKillEvent, Goto
<1>6. CASE NextFile
  BY <1>0, <1>6 DEF NextFile, Goto, Idle
<1>7. CASE Overwrite \/ Fsync \/ Unlink \/ CommandTimesOut \/ UNCHANGED vars
  <2>1. UNCHANGED <<pc, next, stack>>
    BY <1>7 DEF Overwrite, Fsync, Unlink, CommandTimesOut, vars, walk
  <2> QED BY <1>2, <1>3, <1>4, <2>1 DEF Walking
<1>8. CASE NextFolder
  <2>1. pc = "folders" /\ stack = <<>> /\ UNCHANGED <<cache, conf>>
    BY <1>8 DEF NextFolder, Idle, world
  <2>2. Dealt(n) \/ i >= next
    BY <1>3, <2>1 DEF Walking
  <2>3. CASE next <= Len(conf.folders) /\ EnterDirectory(conf.folders[next], <<>>)
             /\ next' = next + 1 /\ UNCHANGED pc
    <3>1. CASE i = next
      <4>1. EnterDirectory(n, <<>>)
        BY <2>3, <3>1
      <4> QED BY <1>0, <1>1, <1>4, <2>1, <2>3, <4>1, EnterDeals
    <3>2. CASE i > next
      <4>1. i >= next'
        BY <1>0, <2>3, <3>2
      <4> QED BY <2>1, <2>3, <4>1
    <3>3. CASE i < next
      <4>1. ~(i >= next)
        BY <1>0, <3>3
      <4> QED BY <1>2, <2>2, <4>1
    <3> QED BY <1>0, <3>1, <3>2, <3>3
  <2>4. CASE next > Len(conf.folders)
    <3>1. ~(i >= next)
      BY <1>0, <2>4
    <3> QED BY <1>2, <2>2, <3>1
  <2> QED BY <1>8, <2>3, <2>4 DEF NextFolder
<1>9. CASE WalkEntry
  <2>1. PICK e \in stack[1].todo :
          \/ EnterDirectory(e, Visiting(e))
          \/ stack' = Visiting(e)
    BY <1>9 DEF WalkEntry
  <2>2. stack # <<>> /\ UNCHANGED <<pc, next>> /\ pc = "folders"
    BY <1>0, <1>9 DEF WalkEntry, InStep
  <2>3. e \in Node /\ Visiting(e) \in Seq(Frame)
    BY <1>0, <2>2, VisitingTypes
  <2>4. /\ Len(Visiting(e)) = Len(stack) /\ Len(stack) \in Nat \ {0}
        /\ Visiting(e)[Len(stack)].at = stack[Len(stack)].at
    BY <1>0, <2>2, VisitingShape
  <2>5. Visiting(e) # <<>>
    BY <2>3, <2>4, EmptySeq
  <2>6. stack' # <<>> /\ stack'[Len(stack')].at = stack[Len(stack)].at
    <3>1. CASE EnterDirectory(e, Visiting(e))
      BY <1>0, <2>3, <2>4, <2>5, <3>1, EnterWalks
    <3>2. CASE stack' = Visiting(e)
      BY <2>4, <2>5, <3>2
    <3> QED BY <2>1, <3>1, <3>2
  <2> QED BY <1>2, <1>3, <1>4, <2>2, <2>6 DEF Walking
<1>10. CASE LeaveDirectory
  <2>1. stack \in Seq(Frame) /\ stack # <<>> /\ UNCHANGED <<pc, next>> /\ pc = "folders"
        /\ stack' = Tail(stack)
    BY <1>0, <1>10 DEF TypeOK, Frame, LeaveDirectory, InStep
  <2>2. Len(stack) \in Nat \ {0}
    BY <2>1, LenProperties, EmptySeq
  <2>3. /\ Len(stack') = Len(stack) - 1
        /\ \A j \in 1..Len(stack') : stack'[j] = stack[j + 1]
    BY <2>1, HeadTailProperties
  <2>4. CASE Len(stack) = 1
    <3>1. ASSUME Walking(n) PROVE Dealt(n)'
      <4>1. stack[1].at = n
        BY <2>4, <3>1 DEF Walking
      <4>2. CASE Remove(n)
        BY <1>0, <1>1, <4>2 DEF Remove, Fails, TypeOK
      <4>3. CASE failed' = failed \cup {n}
        BY <1>1, <4>3
      <4> QED BY <1>10, <4>1, <4>2, <4>3 DEF LeaveDirectory
    <3> QED BY <1>2, <1>3, <2>1, <3>1
  <2>5. CASE Len(stack) # 1
    <3>1. Len(stack') \in Nat \ {0} /\ Len(stack') \in 1..Len(stack')
          /\ Len(stack') + 1 = Len(stack)
      BY <2>2, <2>3, <2>5
    <3>2. stack'[Len(stack')] = stack[Len(stack)]
      BY <2>3, <3>1
    <3>3. stack' # <<>>
      BY <3>1, EmptySeq
    <3> QED BY <1>2, <1>3, <1>4, <2>1, <3>2, <3>3 DEF Walking
  <2> QED BY <2>4, <2>5
<1>11. CASE NextCommand \/ Sync \/ SwapOff \/ OverwriteSwap \/ MeltSelf \/ Shutdown
  <2>1. pc \in {"commands", "sync", "swapoff", "dd", "melt", "shutdown"}
    BY <1>11 DEF NextCommand, Sync, SwapOff, OverwriteSwap, MeltSelf, Shutdown, Idle
  <2> QED BY <1>2, <1>3, <2>1
<1>12. CASE EndListing
  <2>1. /\ UNCHANGED <<pc, next>> /\ pc = "folders" /\ stack # <<>> /\ stack' # <<>>
        /\ stack'[Len(stack')].at = stack[Len(stack)].at
    BY <1>0, <1>12, EndListingShape DEF InStep, EndListing
  <2> QED BY <1>2, <1>3, <1>4, <2>1 DEF Walking
<1> QED BY <1>5, <1>6, <1>7, <1>8, <1>9, <1>10, <1>11, <1>12 DEF Next, Sequence

LEMMA SpareStep == SpareInv /\ KInv' /\ [Next]_vars => SpareInv'
<1> SUFFICES ASSUME SpareInv, KInv', [Next]_vars PROVE SpareInv'
  OBVIOUS
<1>1. TreeInv' /\ conf' = conf
  BY TreeStep DEF SpareInv, TreeInv, Lasting
<1>2. Idles' /\ InStep'
  BY DryStep, StepKept DEF SpareInv, TreeInv, KInv
<1>3. ~conf.dry_run => FilesDone' /\ FoldersDone'
  BY FilesStep, FoldersStep
<1> QED BY <1>1, <1>2, <1>3 DEF SpareInv

LEMMA SpareInit == Init => SpareInv
BY InitHolds DEF Init, SpareInv, TreeInv, Emptied, OpenIsThere, Exists, Idles, InStep, FilesDone,
   FoldersDone

(* When both lists are worked off, a node below a folder is gone, or below *)
(* one that failed, or a folder of the list that is no directory: these    *)
(* contain the list and hold what is in them.                              *)
LEMMA NothingIsSpared == SpareInv => NothingSpared
<1> SUFFICES ASSUME SpareInv, pc \in {"shutdown", "off", "exited"} PROVE
      /\ \A n \in Listed : ~Exists(n) \/ n \in failed
      /\ \A d \in Directories(Folders) : ~Exists(d) \/ d \in failed
      /\ \A d \in Directories(Below(Folders)) : \A n \in Entries[d] :
           ~Exists(n) \/ \E m \in Below(Folders) : m \in failed /\ n \in Below({m})
  BY DEF NothingSpared
<1>0. TypeOK /\ Emptied /\ FilesDone /\ FoldersDone
  BY DEF SpareInv, TreeInv, KInv, InStep, Idles
<1>1. \A n \in Listed : ~Exists(n) \/ n \in failed
  <2>1. conf.files \in Seq(Node)
    BY <1>0, ConfTypes
  <2>2. \A n \in Listed : \E i \in 1..Len(conf.files) : n = conf.files[i]
    BY <2>1, LenProperties DEF Listed
  <2> QED BY <1>0, <2>2 DEF FilesDone, Dealt
<1>2. \A d \in Directories(Folders) : ~Exists(d) \/ d \in failed
  <2>1. conf.folders \in Seq(Node)
    BY <1>0, ConfTypes
  <2>2. \A n \in Folders : \E i \in 1..Len(conf.folders) : n = conf.folders[i]
    BY <2>1, LenProperties DEF Folders
  <2> QED BY <1>0, <2>2 DEF FoldersDone, Dealt, Directories
<1> DEFINE Lost(n) == \E m \in Below(Folders) : m \in failed /\ n \in Below({m})
           X == {n \in Node : ~Exists(n) \/ Lost(n) \/ (n \in Folders /\ Kind[n] # "dir")}
<1>3. \A m \in Node : Below({m}) = BelowOf[m]
  BY DEF Below
<1>4. \A m \in Node : m \in Below({m}) /\ \A d \in Below({m}) : Entries[d] \subseteq Below({m})
  <2>1. \A m \in Node : m \in BelowOf[m] /\ \A d \in BelowOf[m] : Entries[d] \subseteq BelowOf[m]
    BY TreeTypes, ReachedFacts DEF BelowOf
  <2> QED BY <1>3, <2>1
<1>5. Folders \subseteq X
  <2> SUFFICES ASSUME NEW n \in Folders PROVE n \in X
    OBVIOUS
  <2>1. n \in Node /\ n \in Below(Folders)
    BY <1>0, NamedAreNodes, BelowFacts
  <2>2. CASE Kind[n] = "dir"
    BY <1>2, <1>4, <2>1, <2>2 DEF Directories
  <2>3. CASE Kind[n] # "dir"
    BY <2>1, <2>3
  <2> QED BY <2>2, <2>3
<1>6. ASSUME NEW d \in X PROVE Entries[d] \subseteq X
  <2>1. Entries[d] \subseteq Node /\ d \in Node
    BY TreeTypes
  <2>2. CASE ~Exists(d)
    BY <1>0, <2>1, <2>2 DEF Emptied
  <2>3. CASE Lost(d)
    <3>1. PICK m \in Below(Folders) : m \in failed /\ d \in Below({m})
      BY <2>3
    <3>2. m \in Node
      BY <1>0, <3>1, BelowFacts
    <3>3. Entries[d] \subseteq Below({m})
      BY <1>4, <3>1, <3>2
    <3> QED BY <2>1, <3>1, <3>3
  <2>4. CASE Kind[d] # "dir"
    BY <2>1, <2>4, KillAssumption
  <2> QED BY <2>2, <2>3, <2>4
<1>7. Below(Folders) \subseteq X
  BY <1>0, <1>5, <1>6, BelowFacts
<1>8. ASSUME NEW d \in Directories(Below(Folders)), NEW n \in Entries[d]
      PROVE  ~Exists(n) \/ Lost(n)
  <2>1. d \in Below(Folders) /\ Kind[d] = "dir" /\ d \in Node /\ n \in Node
    BY <1>0, <1>8, BelowFacts, TreeTypes DEF Directories
  <2>2. CASE ~Exists(d)
    BY <1>0, <2>1, <2>2 DEF Emptied
  <2>3. CASE Lost(d)
    <3>1. PICK m \in Below(Folders) : m \in failed /\ d \in Below({m})
      BY <2>3
    <3>2. n \in Below({m})
      BY <1>0, <1>4, <3>1, BelowFacts
    <3> QED BY <3>1, <3>2
  <2> QED BY <1>7, <2>1, <2>2, <2>3
<1> QED BY <1>1, <1>2, <1>8

---------------------------------------------------------------------------
(* With no link to a directory leading out of the named folders, what they *)
(* expose is what is below them.                                           *)
LEMMA NothingBeyondNamed == TypeOK /\ OutsideUntouched => OnlyNamedTouched
<1> SUFFICES ASSUME TypeOK, OutsideUntouched, NoLinkLeadsOut
             PROVE  \A n \in Node \ Named : cache[n] = "intact" /\ disk[n] = "intact"
  BY DEF OnlyNamedTouched
<1>1. Folders \subseteq Below(Folders) /\ Below(Folders) \subseteq Node
  BY BelowFacts
<1>2. \A d \in Below(Folders) : Listing[d] \subseteq Below(Folders)
  BY DEF NoLinkLeadsOut
<1>3. \A n \in Folders : LinkedOf[n] \subseteq Below(Folders)
  BY <1>1, <1>2, TreeTypes, ReachedFacts DEF LinkedOf
<1>4. Linked(Folders) \subseteq Below(Folders)
  BY <1>3 DEF Linked
<1>5. Exposed \subseteq Named
  BY <1>4 DEF Exposed, Named
<1> QED BY <1>5 DEF OutsideUntouched

(* The sequence destroys what it was given, but for what fails and what    *)
(* lies in a directory that fails.  It touches nothing but what is listed, *)
(* and what the named folders lead to by entries and links to directories; *)
(* where no such link leads out of them, nothing but what is named:        *)
(* kill.rs, execute_kill_sequence, shred_file and shred_directory.         *)
THEOREM DestroysExactlyCorrect == Spec => []DestroysExactly
<1>1. Init => SpareInv /\ ExposeInv
  <2>1. Init => ExposeInv
    BY NoneIsNoNode, EmptySeq DEF Init, ExposeInv, InHand, OutsideUntouched
  <2> QED BY <2>1, SpareInit
<1>2. KInv /\ KInv' /\ SpareInv /\ ExposeInv /\ [Next]_vars => (SpareInv /\ ExposeInv)'
  BY SpareStep, ExposeStep DEF KInv
<1>3. KInv /\ SpareInv /\ ExposeInv => DestroysExactly
  BY NothingIsSpared, NothingBeyondNamed DEF KInv, ExposeInv, DestroysExactly
<1> QED BY <1>1, <1>2, <1>3, KInvCorrect, PTL DEF Spec

============================================================================
