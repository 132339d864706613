-------------------------- MODULE MCSocketThreads --------------------------
(***************************************************************************)
(* The loop, a user's handler, who may be asked for a password, and one of *)
(* root's, as the relay's.                                                 *)
(***************************************************************************)
EXTENDS SocketProperties

CONSTANTS h1, h2, mine, theirs, me, them, root

Owners == [s \in {mine, theirs} |-> IF s = mine THEN me ELSE them]
Peers  == [h \in {h1, h2} |-> IF h = h1 THEN me ELSE root]

(* Bound: the second handler is root's, and of the two requests that only  *)
(* take the mutex the first asks for one.                                  *)
RootAsksLittle ==
  request'[h2] \notin {"devices", "violations", "command"} /\ request'[h1] # "command"

============================================================================
