---------------------------- MODULE SocketProofs ----------------------------
(***************************************************************************)
(* The threads of the daemon, for any number of connections: whom polkit   *)
(* is asked about, and what a status is a picture of.                      *)
(***************************************************************************)
EXTENDS SocketProperties, SequenceTheorems, TLAPS

(* A lock step of a program, and the part of the state the proofs type.    *)
OpName == {"read", "free", "lock", "queue", "report", "require_auth", "ask", "obey", "capture",
           "restart countdown", "reload", "kill"}

Op == [op : OpName, lock : Lock \cup {None}]

ThreadsTypeOK ==
  /\ program \in [Thread -> Seq(Op)]
  /\ stage \in 1..Len(Poll)
  /\ reads \in [Lock -> [Thread -> Int]]
  /\ owner \in [Lock -> Thread \cup {None}]
  /\ request \in [Handler -> DOMAIN Programs \cup {None}]
  /\ call \in [Handler -> BusCall \cup {None}]
  /\ subject \in [Handler -> Session \cup {None}]
  /\ verdict \in [Handler -> {"none", "allowed", "refused"}]

LEMMA TheThreads ==
  /\ "loop" \in Thread /\ Handler \subseteq Thread
  /\ None # "loop" /\ None \notin BusCall
  /\ "baselines" \in Lock
BY SocketAssumption DEF Thread, Lock

---------------------------------------------------------------------------
(* Programs are put together of single steps.                              *)
LEMMA OneStep ==
  ASSUME NEW s \in Op
  PROVE  <<s>> \in Seq(Op) /\ Len(<<s>>) = 1 /\ <<s>>[1] = s
OBVIOUS

LEMMA StepTypes ==
  /\ \A l \in Lock : Read(l) \in Seq(Op) /\ Free(l) \in Seq(Op) /\ Write(l) \in Seq(Op)
  /\ Mutex \in Seq(Op)
  /\ \A what \in OpName : Does(what) \in Seq(Op)
<1>1. ASSUME NEW l \in Lock
      PROVE  Read(l) \in Seq(Op) /\ Free(l) \in Seq(Op) /\ Write(l) \in Seq(Op)
  <2>1. /\ [op |-> "read", lock |-> l] \in Op /\ [op |-> "free", lock |-> l] \in Op
        /\ [op |-> "queue", lock |-> l] \in Op /\ [op |-> "lock", lock |-> l] \in Op
    BY DEF Op, OpName
  <2> QED BY <2>1 DEF Read, Free, Write
<1>2. Mutex \in Seq(Op)
  BY DEF Mutex, Op, OpName, Lock
<1>3. ASSUME NEW what \in OpName
      PROVE  Does(what) \in Seq(Op)
  BY DEF Does, Op
<1> QED BY <1>1, <1>2, <1>3

LEMMA Joined ==
  ASSUME NEW p \in Seq(Op), NEW q \in Seq(Op)
  PROVE  /\ p \o q \in Seq(Op)
         /\ Len(p) \in Nat /\ DOMAIN p = 1..Len(p) /\ DOMAIN q \subseteq Nat \ {0}
         /\ DOMAIN (p \o q) \subseteq Nat
         /\ \A k \in DOMAIN (p \o q) :
              \/ k \in DOMAIN p /\ (p \o q)[k] = p[k]
              \/ k - Len(p) \in DOMAIN q /\ (p \o q)[k] = q[k - Len(p)]
         /\ \A k \in DOMAIN p : k \in DOMAIN (p \o q) /\ (p \o q)[k] = p[k]
         /\ \A k \in DOMAIN q : k + Len(p) \in DOMAIN (p \o q) /\ (p \o q)[k + Len(p)] = q[k]
<1>1. /\ p \o q \in Seq(Op) /\ Len(p \o q) = Len(p) + Len(q)
      /\ \A i \in 1..Len(p) + Len(q) : (p \o q)[i] = IF i <= Len(p) THEN p[i] ELSE q[i - Len(p)]
  BY ConcatProperties
<1>2. /\ Len(p) \in Nat /\ Len(q) \in Nat
      /\ DOMAIN p = 1..Len(p) /\ DOMAIN q = 1..Len(q)
      /\ DOMAIN (p \o q) = 1..Len(p) + Len(q)
  BY <1>1
<1> QED BY <1>1, <1>2

LEMMA OneMore ==
  ASSUME NEW p \in Seq(Op), NEW s \in Op
  PROVE  /\ p \o <<s>> \in Seq(Op)
         /\ Len(p) \in Nat /\ DOMAIN p = 1..Len(p) /\ DOMAIN (p \o <<s>>) = 1..Len(p) + 1
         /\ \A k \in DOMAIN p : (p \o <<s>>)[k] = p[k]
         /\ (p \o <<s>>)[Len(p) + 1] = s
<1> DEFINE q == <<s>>
<1>1. q \in Seq(Op) /\ Len(q) = 1 /\ q[1] = s
  BY OneStep
<1> HIDE DEF q
<1>2. /\ p \o q \in Seq(Op) /\ Len(p \o q) = Len(p) + Len(q)
      /\ \A i \in 1..Len(p) + Len(q) : (p \o q)[i] = IF i <= Len(p) THEN p[i] ELSE q[i - Len(p)]
  BY <1>1, ConcatProperties
<1>3. Len(p) \in Nat /\ DOMAIN p = 1..Len(p) /\ DOMAIN (p \o q) = 1..Len(p) + 1
  BY <1>1, <1>2
<1>4. (Len(p) + 1) - Len(p) = 1
  BY <1>3
<1> QED BY <1>1, <1>2, <1>3, <1>4 DEF q

LEMMA Shifted ==
  ASSUME NEW p \in Seq(Op), p # <<>>
  PROVE  /\ Tail(p) \in Seq(Op) /\ Head(p) = p[1] /\ p[1] \in Op /\ 1 \in DOMAIN p
         /\ \A k \in DOMAIN Tail(p) : k + 1 \in DOMAIN p /\ Tail(p)[k] = p[k + 1]
         /\ \A k \in DOMAIN p : k # 1 => k - 1 \in DOMAIN Tail(p) /\ Tail(p)[k - 1] = p[k]
<1>1. /\ Head(p) \in Op /\ Tail(p) \in Seq(Op) /\ Len(Tail(p)) = Len(p) - 1
      /\ \A i \in 1..Len(Tail(p)) : Tail(p)[i] = p[i + 1]
  BY HeadTailProperties
<1>2. Len(p) \in Nat /\ Len(p) # 0 /\ DOMAIN p = 1..Len(p) /\ DOMAIN Tail(p) = 1..Len(p) - 1
  BY <1>1
<1>3. Head(p) = p[1]
  OBVIOUS
<1> QED BY <1>1, <1>2, <1>3

---------------------------------------------------------------------------
(* What a program does with the lock of the baselines.                     *)
LetsGo(s)     == s.op = "free" /\ s.lock = "baselines"
TakesRead(s)  == s.op = "read" /\ s.lock = "baselines"
TakesWrite(s) == s.op = "lock" /\ s.lock = "baselines"

Kept(p, i, k) == \A j \in DOMAIN p : i < j /\ j < k => ~LetsGo(p[j])

ReadBefore(p, k)    == \E i \in DOMAIN p : i < k /\ TakesRead(p[i]) /\ Kept(p, i, k)
WrittenBefore(p, k) == \E i \in DOMAIN p : i < k /\ TakesWrite(p[i]) /\ Kept(p, i, k)

(* A handler reports, and lets go, under a read guard: one it has, or one  *)
(* it takes first.                                                         *)
Shaped(p, held) ==
  \A k \in DOMAIN p :
    /\ ~TakesWrite(p[k])
    /\ p[k].op = "report" \/ LetsGo(p[k]) => ReadBefore(p, k) \/ (held /\ Kept(p, 0, k))

LEMMA ShapedTail ==
  ASSUME NEW p \in Seq(Op), p # <<>>, NEW held \in BOOLEAN, Shaped(p, held)
  PROVE  /\ TakesRead(p[1]) => Shaped(Tail(p), TRUE)
         /\ LetsGo(p[1]) => held /\ Shaped(Tail(p), FALSE)
         /\ ~LetsGo(p[1]) /\ ~TakesRead(p[1]) => Shaped(Tail(p), held)
         /\ p[1].op = "report" => held
         /\ ~TakesWrite(p[1])
<1> DEFINE q == Tail(p)
<1>1. /\ DOMAIN p = 1..Len(p) /\ DOMAIN q = 1..Len(q) /\ Len(q) \in Nat /\ Len(p) \in Nat
      /\ 1 \in DOMAIN p
      /\ \A k \in DOMAIN q : k + 1 \in DOMAIN p /\ q[k] = p[k + 1]
      /\ \A k \in DOMAIN p : k # 1 => k - 1 \in DOMAIN q /\ q[k - 1] = p[k]
  BY Shifted
<1> HIDE DEF q
<1>2. \A k \in DOMAIN q, i \in DOMAIN p : i # 1 /\ Kept(p, i, k + 1) => Kept(q, i - 1, k)
  BY <1>1 DEF Kept
<1>3. \A k \in DOMAIN q : Kept(p, 1, k + 1) => Kept(q, 0, k)
  BY <1>1 DEF Kept
<1>4. ASSUME NEW k \in DOMAIN q, Kept(p, 0, k + 1)
      PROVE  ~LetsGo(p[1]) /\ Kept(q, 0, k)
  <2>1. k \in Nat /\ 0 < 1 /\ 1 < k + 1
    BY <1>1
  <2>2. ~LetsGo(p[1])
    BY <1>1, <1>4, <2>1 DEF Kept
  <2>3. ASSUME NEW j \in DOMAIN q, j < k
        PROVE  ~LetsGo(q[j])
    <3>1. j + 1 \in DOMAIN p /\ 0 < j + 1 /\ j + 1 < k + 1
      BY <1>1, <2>1, <2>3
    <3> QED BY <1>1, <1>4, <3>1 DEF Kept
  <2> QED BY <2>2, <2>3 DEF Kept
<1>5. ~ReadBefore(p, 1)
  BY <1>1 DEF ReadBefore
<1>6. ASSUME NEW k \in DOMAIN q, ReadBefore(p, k + 1)
      PROVE  ReadBefore(q, k) \/ (TakesRead(p[1]) /\ Kept(q, 0, k))
  <2>1. PICK i \in DOMAIN p : i < k + 1 /\ TakesRead(p[i]) /\ Kept(p, i, k + 1)
    BY <1>6 DEF ReadBefore
  <2>2. CASE i = 1
    BY <1>3, <2>1, <2>2
  <2>3. CASE i # 1
    <3>1. i - 1 \in DOMAIN q /\ q[i - 1] = p[i] /\ i - 1 < k
      BY <1>1, <2>1, <2>3
    <3> QED BY <1>2, <2>1, <2>3, <3>1 DEF ReadBefore
  <2> QED BY <2>2, <2>3
<1>7. TakesRead(p[1]) => ~LetsGo(p[1])
  BY DEF TakesRead, LetsGo
<1>8. ASSUME NEW k \in DOMAIN q, q[k].op = "report" \/ LetsGo(q[k])
      PROVE  \/ ReadBefore(q, k)
             \/ TakesRead(p[1]) /\ Kept(q, 0, k)
             \/ held /\ ~LetsGo(p[1]) /\ Kept(q, 0, k)
  BY <1>1, <1>4, <1>6, <1>8 DEF Shaped
<1>9. \A k \in DOMAIN q : ~TakesWrite(q[k])
  BY <1>1 DEF Shaped
<1>10. p[1].op = "report" \/ LetsGo(p[1]) => held
  BY <1>1, <1>5 DEF Shaped
<1>11. ~TakesWrite(p[1])
  BY <1>1 DEF Shaped
<1>12. Shaped(q, FALSE) => Shaped(q, TRUE)
  BY DEF Shaped
<1>13. TakesRead(p[1]) => Shaped(q, TRUE)
  BY <1>8, <1>9 DEF Shaped
<1>14. LetsGo(p[1]) => Shaped(q, FALSE)
  BY <1>7, <1>8, <1>9 DEF Shaped
<1>15. ~LetsGo(p[1]) /\ ~TakesRead(p[1]) => Shaped(q, held)
  BY <1>8, <1>9 DEF Shaped
<1> QED BY <1>10, <1>11, <1>13, <1>14, <1>15 DEF q

(* Programs one after the other.  What the first holds at its end, the     *)
(* second may count on.                                                    *)
Quiet(p) ==
  \A k \in DOMAIN p : ~TakesWrite(p[k]) /\ ~LetsGo(p[k]) /\ p[k].op \notin {"report", "capture"}

Within(p)  == \E i \in DOMAIN p : TakesRead(p[i]) /\ \A j \in DOMAIN p : i < j => ~LetsGo(p[j])
Inside(p)  == \E i \in DOMAIN p : TakesWrite(p[i]) /\ \A j \in DOMAIN p : i < j => ~LetsGo(p[j])
NeverGo(p) == \A k \in DOMAIN p : ~LetsGo(p[k])

LEMMA QuietJoined ==
  ASSUME NEW p \in Seq(Op), NEW q \in Seq(Op), Quiet(p), Quiet(q)
  PROVE  p \o q \in Seq(Op) /\ Quiet(p \o q)
BY Joined DEF Quiet

LEMMA KeptJoined ==
  ASSUME NEW p \in Seq(Op), NEW q \in Seq(Op)
  PROVE  /\ Within(p) /\ NeverGo(q) => Within(p \o q)
         /\ Within(q) => Within(p \o q)
         /\ Inside(p) /\ NeverGo(q) => Inside(p \o q)
         /\ Inside(q) => Inside(p \o q)
         /\ \A k \in DOMAIN p : ReadBefore(p, k) => ReadBefore(p \o q, k)
         /\ \A k \in DOMAIN q : ReadBefore(q, k) => ReadBefore(p \o q, k + Len(p))
         /\ \A k \in DOMAIN q : Within(p) /\ Kept(q, 0, k) => ReadBefore(p \o q, k + Len(p))
         /\ \A k \in DOMAIN p : WrittenBefore(p, k) => WrittenBefore(p \o q, k)
         /\ \A k \in DOMAIN q : WrittenBefore(q, k) => WrittenBefore(p \o q, k + Len(p))
         /\ \A k \in DOMAIN q : Inside(p) /\ Kept(q, 0, k) => WrittenBefore(p \o q, k + Len(p))
<1> DEFINE r == p \o q
           n == Len(p)
<1>1. /\ n \in Nat /\ DOMAIN p = 1..n /\ DOMAIN q \subseteq Nat \ {0} /\ DOMAIN r \subseteq Nat
      /\ \A k \in DOMAIN r : \/ k \in DOMAIN p /\ r[k] = p[k]
                             \/ k - n \in DOMAIN q /\ r[k] = q[k - n]
      /\ \A k \in DOMAIN p : k \in DOMAIN r /\ r[k] = p[k]
      /\ \A k \in DOMAIN q : k + n \in DOMAIN r /\ r[k + n] = q[k]
  BY Joined
<1> HIDE DEF r, n
(* What comes after a step of the first, and what after one of the second. *)
<1>2. ASSUME NEW i \in DOMAIN p, NEW k \in DOMAIN p, Kept(p, i, k)
      PROVE  Kept(r, i, k)
  <2> SUFFICES ASSUME NEW j \in DOMAIN r, i < j, j < k PROVE ~LetsGo(r[j])
    BY DEF Kept
  <2>1. j \in DOMAIN p /\ r[j] = p[j]
    BY <1>1
  <2> QED BY <1>2, <2>1 DEF Kept
<1>3. ASSUME NEW i \in DOMAIN q, NEW k \in DOMAIN q, Kept(q, i, k)
      PROVE  Kept(r, i + n, k + n)
  <2> SUFFICES ASSUME NEW j \in DOMAIN r, i + n < j, j < k + n PROVE ~LetsGo(r[j])
    BY DEF Kept
  <2>1. j - n \in DOMAIN q /\ r[j] = q[j - n] /\ i < j - n /\ j - n < k
    BY <1>1
  <2> QED BY <1>3, <2>1 DEF Kept
<1>4. ASSUME NEW i \in DOMAIN p, NEW k \in DOMAIN q, Kept(q, 0, k),
             \A j \in DOMAIN p : i < j => ~LetsGo(p[j])
      PROVE  Kept(r, i, k + n)
  <2> SUFFICES ASSUME NEW j \in DOMAIN r, i < j, j < k + n PROVE ~LetsGo(r[j])
    BY DEF Kept
  <2>1. CASE j \in DOMAIN p /\ r[j] = p[j]
    BY <1>4, <2>1
  <2>2. CASE j - n \in DOMAIN q /\ r[j] = q[j - n]
    <3>1. 0 < j - n /\ j - n < k
      BY <1>1, <2>2
    <3> QED BY <1>4, <2>2, <3>1 DEF Kept
  <2> QED BY <1>1, <2>1, <2>2
<1>5. ASSUME NEW i \in DOMAIN p, NeverGo(q), \A j \in DOMAIN p : i < j => ~LetsGo(p[j])
      PROVE  \A j \in DOMAIN r : i < j => ~LetsGo(r[j])
  BY <1>1, <1>5 DEF NeverGo
<1>6. ASSUME NEW i \in DOMAIN q, \A j \in DOMAIN q : i < j => ~LetsGo(q[j])
      PROVE  \A j \in DOMAIN r : i + n < j => ~LetsGo(r[j])
  <2> TAKE j \in DOMAIN r
  <2> HAVE i + n < j
  <2>1. j - n \in DOMAIN q /\ r[j] = q[j - n] /\ i < j - n
    BY <1>1
  <2> QED BY <1>6, <2>1
<1>7. \A i \in DOMAIN p, k \in DOMAIN q : i < k + n
  BY <1>1
<1>8. \A i \in DOMAIN q, k \in DOMAIN q : i < k => i + n < k + n
  BY <1>1
<1>9. /\ Within(p) /\ NeverGo(q) => Within(r)
      /\ Inside(p) /\ NeverGo(q) => Inside(r)
  BY <1>1, <1>5 DEF Within, Inside
<1>10. (Within(q) => Within(r)) /\ (Inside(q) => Inside(r))
  BY <1>1, <1>6 DEF Within, Inside
<1>11. \A k \in DOMAIN p : /\ ReadBefore(p, k) => ReadBefore(r, k)
                           /\ WrittenBefore(p, k) => WrittenBefore(r, k)
  BY <1>1, <1>2 DEF ReadBefore, WrittenBefore
<1>12. \A k \in DOMAIN q : /\ ReadBefore(q, k) => ReadBefore(r, k + n)
                           /\ WrittenBefore(q, k) => WrittenBefore(r, k + n)
  BY <1>1, <1>3, <1>8 DEF ReadBefore, WrittenBefore
<1>13. \A k \in DOMAIN q : Kept(q, 0, k) => /\ Within(p) => ReadBefore(r, k + n)
                                            /\ Inside(p) => WrittenBefore(r, k + n)
  BY <1>1, <1>4, <1>7 DEF ReadBefore, WrittenBefore, Within, Inside
<1> QED BY <1>9, <1>10, <1>11, <1>12, <1>13 DEF r, n
LEMMA QuietParts ==
  /\ \A l \in Lock : Quiet(Read(l))
  /\ \A l \in {"config", "state"} : Quiet(Free(l)) /\ Quiet(Write(l))
  /\ Quiet(Mutex) /\ Quiet(Brief("config")) /\ Quiet(TouchState)
  /\ \A what \in OpName \ {"report", "capture", "free", "lock"} : Quiet(Does(what))
  /\ Brief("config") \in Seq(Op) /\ TouchState \in Seq(Op)
<1> USE DEF Quiet, TakesWrite, LetsGo
<1>1. \A l \in Lock : Quiet(Read(l))
  BY DEF Read
<1>2. \A l \in {"config", "state"} : Quiet(Free(l)) /\ Quiet(Write(l))
  BY DEF Free, Write
<1>3. Quiet(Mutex)
  BY DEF Mutex
<1>4. \A what \in OpName \ {"report", "capture", "free", "lock"} : Quiet(Does(what))
  BY DEF Does
<1> HIDE DEF Quiet, TakesWrite, LetsGo
<1>5. /\ Brief("config") \in Seq(Op) /\ Quiet(Brief("config"))
      /\ TouchState \in Seq(Op) /\ Quiet(TouchState)
  BY <1>1, <1>2, <1>3, StepTypes, QuietJoined DEF Brief, TouchState, Lock
<1> QED BY <1>1, <1>2, <1>3, <1>4, <1>5

---------------------------------------------------------------------------
(* The programs of the handlers are shaped.                                *)
LEMMA ShapedJoined ==
  ASSUME NEW p \in Seq(Op), NEW q \in Seq(Op), NEW held \in BOOLEAN,
         Shaped(p, FALSE), Shaped(q, held), held => Within(p)
  PROVE  p \o q \in Seq(Op) /\ Shaped(p \o q, FALSE)
<1> DEFINE r == p \o q
<1>1. ASSUME NEW k \in DOMAIN p
      PROVE  /\ ~TakesWrite(p[k])
             /\ p[k].op = "report" \/ LetsGo(p[k]) => ReadBefore(r, k)
  BY KeptJoined DEF Shaped
<1>2. ASSUME NEW k \in DOMAIN q
      PROVE  /\ ~TakesWrite(q[k])
             /\ q[k].op = "report" \/ LetsGo(q[k]) => ReadBefore(r, k + Len(p))
  BY KeptJoined DEF Shaped
<1>3. /\ r \in Seq(Op) /\ Len(p) \in Nat /\ DOMAIN r \subseteq Nat
      /\ \A k \in DOMAIN r : \/ k \in DOMAIN p /\ r[k] = p[k]
                             \/ k - Len(p) \in DOMAIN q /\ r[k] = q[k - Len(p)]
  BY Joined
<1> HIDE DEF r
<1>4. ASSUME NEW k \in DOMAIN r
      PROVE  /\ ~TakesWrite(r[k])
             /\ r[k].op = "report" \/ LetsGo(r[k]) => ReadBefore(r, k)
  <2>1. CASE k \in DOMAIN p /\ r[k] = p[k]
    BY <1>1, <2>1
  <2>2. CASE k - Len(p) \in DOMAIN q /\ r[k] = q[k - Len(p)]
    <3>1. (k - Len(p)) + Len(p) = k
      BY <1>3
    <3> QED BY <1>2, <2>2, <3>1
  <2> QED BY <1>3, <2>1, <2>2
<1> QED BY <1>3, <1>4 DEF Shaped, r

LEMMA QuietIsShaped ==
  ASSUME NEW p \in Seq(Op), Quiet(p)
  PROVE  Shaped(p, FALSE) /\ NeverGo(p)
BY DEF Quiet, Shaped, NeverGo

(* A status takes all three locks, and lets go of the baselines last.      *)
LEMMA StatusShaped == StatusLocks \in Seq(Op) /\ Shaped(StatusLocks, FALSE)
<1> DEFINE p1 == Brief("config") \o Read("config")
           p2 == p1 \o Read("baselines")
           p3 == p2 \o Mutex
           p4 == p3 \o Does("report")
           p5 == p4 \o Free("state")
           p6 == p5 \o Free("baselines")
           p7 == p6 \o Free("config")
<1> {"config", "state", "baselines"} \subseteq Lock /\ "report" \in OpName
  BY DEF Lock, OpName
<1>1. /\ Read("baselines") \in Seq(Op) /\ Mutex \in Seq(Op) /\ Does("report") \in Seq(Op)
      /\ Free("state") \in Seq(Op) /\ Free("baselines") \in Seq(Op) /\ Free("config") \in Seq(Op)
      /\ Read("config") \in Seq(Op)
  BY StepTypes
<1>2. Within(Read("baselines"))
  BY DEF Within, Read, TakesRead
<1>3. NeverGo(Mutex) /\ NeverGo(Does("report")) /\ NeverGo(Free("state"))
  BY DEF NeverGo, Mutex, Does, Free, LetsGo
<1>4. Shaped(Does("report"), TRUE) /\ Shaped(Free("baselines"), TRUE)
  BY DEF Shaped, Does, Free, TakesWrite, Kept
<1>5. /\ Shaped(Read("baselines"), FALSE) /\ Shaped(Mutex, FALSE) /\ Shaped(Free("state"), FALSE)
      /\ Shaped(Free("config"), FALSE)
  BY <1>1, QuietIsShaped, QuietParts
<1>6. p1 \in Seq(Op) /\ Shaped(p1, FALSE)
  BY <1>1, QuietIsShaped, QuietParts, QuietJoined
<1> HIDE DEF p1
<1>7. p2 \in Seq(Op) /\ Shaped(p2, FALSE) /\ Within(p2)
  BY <1>1, <1>2, <1>5, <1>6, ShapedJoined, KeptJoined
<1> HIDE DEF p2
<1>8. p3 \in Seq(Op) /\ Shaped(p3, FALSE) /\ Within(p3)
  BY <1>1, <1>3, <1>5, <1>7, ShapedJoined, KeptJoined
<1> HIDE DEF p3
<1>9. p4 \in Seq(Op) /\ Shaped(p4, FALSE) /\ Within(p4)
  BY <1>1, <1>3, <1>4, <1>8, ShapedJoined, KeptJoined
<1> HIDE DEF p4
<1>10. p5 \in Seq(Op) /\ Shaped(p5, FALSE) /\ Within(p5)
  BY <1>1, <1>3, <1>5, <1>9, ShapedJoined, KeptJoined
<1> HIDE DEF p5
<1>11. p6 \in Seq(Op) /\ Shaped(p6, FALSE)
  BY <1>1, <1>4, <1>10, ShapedJoined
<1> HIDE DEF p6
<1>12. p7 \in Seq(Op) /\ Shaped(p7, FALSE)
  BY <1>1, <1>5, <1>11, ShapedJoined
<1> QED BY <1>12 DEF p1, p2, p3, p4, p5, p6, StatusLocks

LEMMA ProgramsShaped ==
  ASSUME NEW r \in DOMAIN Programs
  PROVE  Programs[r] \in Seq(Op) /\ Shaped(Programs[r], FALSE)
<1> {"config", "state"} \subseteq Lock /\ {"require_auth", "ask", "obey"} \subseteq OpName
  BY DEF Lock, OpName
<1>1. AuthorizeLocks \in Seq(Op) /\ Quiet(AuthorizeLocks)
  <2> DEFINE p1 == Read("config") \o Does("require_auth")
             p2 == p1 \o Free("config")
             p3 == p2 \o Does("ask")
  <2>1. p1 \in Seq(Op) /\ Quiet(p1)
    BY StepTypes, QuietParts, QuietJoined
  <2> HIDE DEF p1
  <2>2. p2 \in Seq(Op) /\ Quiet(p2)
    BY <2>1, StepTypes, QuietParts, QuietJoined
  <2> HIDE DEF p2
  <2>3. p3 \in Seq(Op) /\ Quiet(p3)
    BY <2>2, StepTypes, QuietParts, QuietJoined
  <2> QED BY <2>3 DEF p1, p2, AuthorizeLocks
<1>2. Programs["gated"] \in Seq(Op) /\ Quiet(Programs["gated"])
  <2> DEFINE p1 == AuthorizeLocks \o Does("obey")
             p2 == p1 \o TouchState
  <2>1. p1 \in Seq(Op) /\ Quiet(p1)
    BY <1>1, StepTypes, QuietParts, QuietJoined
  <2> HIDE DEF p1
  <2>2. p2 \in Seq(Op) /\ Quiet(p2)
    BY <2>1, QuietParts, QuietJoined
  <2> QED BY <2>2 DEF p1, Programs
<1>3. \A c \in {"devices", "violations", "command"} :
        Programs[c] \in Seq(Op) /\ Quiet(Programs[c])
  BY QuietParts DEF Programs, DevicesLocks, ViolationsLocks
<1>4. Programs["status"] = StatusLocks
  BY DEF Programs
<1>5. r \in {"status", "devices", "violations", "command", "gated"}
  BY DEF Programs
<1> QED BY <1>2, <1>3, <1>4, <1>5, StatusShaped, QuietIsShaped
---------------------------------------------------------------------------
(* The loop captures with the baselines locked for writing, and restarts   *)
(* the countdown before it lets go of them.  inside: it has that lock;     *)
(* half: it has captured and not restarted.                                *)
Captures(s) == s.op = "capture"
Restarts(s) == s.op = "restart countdown"

RestartAhead(p, k) == \E d \in DOMAIN p : k < d /\ Restarts(p[d]) /\ Kept(p, k, d)

Fit(p, inside, half) ==
  /\ half => inside /\ RestartAhead(p, 0)
  /\ \A k \in DOMAIN p :
       Captures(p[k]) =>
         /\ WrittenBefore(p, k) \/ (inside /\ Kept(p, 0, k))
         /\ RestartAhead(p, k)

LEMMA FitTail ==
  ASSUME NEW p \in Seq(Op), p # <<>>, NEW inside \in BOOLEAN, NEW half \in BOOLEAN,
         Fit(p, inside, half)
  PROVE  /\ TakesWrite(p[1]) => Fit(Tail(p), TRUE, half)
         /\ LetsGo(p[1]) => ~half /\ Fit(Tail(p), FALSE, FALSE)
         /\ Captures(p[1]) => inside /\ Fit(Tail(p), inside, TRUE)
         /\ Restarts(p[1]) => Fit(Tail(p), inside, FALSE)
         /\ ~TakesWrite(p[1]) /\ ~LetsGo(p[1]) /\ ~Captures(p[1]) /\ ~Restarts(p[1])
              => Fit(Tail(p), inside, half)
<1> DEFINE q == Tail(p)
<1>1. /\ DOMAIN p = 1..Len(p) /\ DOMAIN q = 1..Len(q) /\ Len(q) \in Nat /\ Len(p) \in Nat
      /\ 1 \in DOMAIN p
      /\ \A k \in DOMAIN q : k + 1 \in DOMAIN p /\ q[k] = p[k + 1]
      /\ \A k \in DOMAIN p : k # 1 => k - 1 \in DOMAIN q /\ q[k - 1] = p[k]
  BY Shifted
<1> HIDE DEF q
<1>2. ASSUME NEW k \in DOMAIN q, NEW i \in Nat, i # 0, Kept(p, i, k + 1)
      PROVE  Kept(q, i - 1, k)
  <2> SUFFICES ASSUME NEW j \in DOMAIN q, i - 1 < j, j < k PROVE ~LetsGo(q[j])
    BY DEF Kept
  <2>1. j + 1 \in DOMAIN p /\ i < j + 1 /\ j + 1 < k + 1 /\ q[j] = p[j + 1]
    BY <1>1
  <2> QED BY <1>2, <2>1 DEF Kept
<1>3. ASSUME NEW k \in DOMAIN q, Kept(p, 0, k + 1)
      PROVE  ~LetsGo(p[1]) /\ Kept(q, 0, k)
  <2>1. k \in Nat /\ 0 < 1 /\ 1 < k + 1
    BY <1>1
  <2>2. ~LetsGo(p[1])
    BY <1>1, <1>3, <2>1 DEF Kept
  <2>3. Kept(p, 1, k + 1)
    <3> SUFFICES ASSUME NEW j \in DOMAIN p, 1 < j, j < k + 1 PROVE ~LetsGo(p[j])
      BY DEF Kept
    <3>1. 0 < j
      BY <1>1
    <3> QED BY <1>3, <3>1 DEF Kept
  <2>4. Kept(q, 1 - 1, k)
    BY <1>2, <2>3
  <2> QED BY <2>2, <2>4
<1>4. ASSUME NEW k \in DOMAIN q, WrittenBefore(p, k + 1)
      PROVE  WrittenBefore(q, k) \/ (TakesWrite(p[1]) /\ Kept(q, 0, k))
  <2>1. PICK i \in DOMAIN p : i < k + 1 /\ TakesWrite(p[i]) /\ Kept(p, i, k + 1)
    BY <1>4 DEF WrittenBefore
  <2>2. i \in Nat /\ i # 0
    BY <1>1
  <2>3. CASE i = 1
    <3>1. Kept(q, 1 - 1, k)
      BY <1>2, <2>1, <2>3
    <3> QED BY <2>1, <2>3, <3>1
  <2>4. CASE i # 1
    <3>1. i - 1 \in DOMAIN q /\ q[i - 1] = p[i] /\ i - 1 < k
      BY <1>1, <2>1, <2>4
    <3> QED BY <1>2, <2>1, <2>2, <3>1 DEF WrittenBefore
  <2> QED BY <2>3, <2>4
<1>5. ASSUME NEW k \in Nat, RestartAhead(p, k + 1)
      PROVE  RestartAhead(q, k)
  <2>1. PICK d \in DOMAIN p : k + 1 < d /\ Restarts(p[d]) /\ Kept(p, k + 1, d)
    BY <1>5 DEF RestartAhead
  <2>2. d - 1 \in DOMAIN q /\ q[d - 1] = p[d] /\ k < d - 1 /\ (d - 1) + 1 = d
    BY <1>1, <2>1
  <2>3. Kept(q, (k + 1) - 1, d - 1)
    BY <1>2, <2>1, <2>2
  <2> QED BY <2>1, <2>2, <2>3 DEF RestartAhead
<1>6. ASSUME RestartAhead(p, 0), ~Restarts(p[1])
      PROVE  ~LetsGo(p[1]) /\ RestartAhead(q, 0)
  <2>1. PICK d \in DOMAIN p : Restarts(p[d]) /\ Kept(p, 0, d)
    BY <1>6 DEF RestartAhead
  <2>2. d # 1 /\ d - 1 \in DOMAIN q /\ q[d - 1] = p[d] /\ 0 < d - 1 /\ (d - 1) + 1 = d
    BY <1>1, <1>6, <2>1
  <2>3. ~LetsGo(p[1]) /\ Kept(q, 0, d - 1)
    BY <1>3, <2>1, <2>2
  <2> QED BY <2>1, <2>2, <2>3 DEF RestartAhead
<1>7. ASSUME NEW k \in DOMAIN q, Captures(q[k])
      PROVE  /\ \/ WrittenBefore(q, k)
                \/ TakesWrite(p[1]) /\ Kept(q, 0, k)
                \/ inside /\ ~LetsGo(p[1]) /\ Kept(q, 0, k)
             /\ RestartAhead(q, k)
  <2>1. k \in Nat /\ k + 1 \in DOMAIN p /\ Captures(p[k + 1])
    BY <1>1, <1>7
  <2> QED BY <1>3, <1>4, <1>5, <2>1 DEF Fit
<1>8. ~WrittenBefore(p, 1)
  BY <1>1 DEF WrittenBefore
<1>9. Captures(p[1]) => inside /\ RestartAhead(q, 0)
  <2>1. Captures(p[1]) => inside /\ RestartAhead(p, 0 + 1)
    BY <1>1, <1>8 DEF Fit
  <2> QED BY <1>5, <2>1
<1>10. /\ TakesWrite(p[1]) => ~LetsGo(p[1]) /\ ~Captures(p[1]) /\ ~Restarts(p[1])
       /\ LetsGo(p[1]) => ~Captures(p[1]) /\ ~Restarts(p[1])
       /\ Captures(p[1]) => ~Restarts(p[1])
  BY DEF TakesWrite, LetsGo, Captures, Restarts
<1>11. half => inside /\ RestartAhead(p, 0)
  BY DEF Fit
<1>12. TakesWrite(p[1]) => Fit(q, TRUE, half)
  BY <1>6, <1>7, <1>10, <1>11 DEF Fit
<1>13. LetsGo(p[1]) => ~half /\ Fit(q, FALSE, FALSE)
  BY <1>6, <1>7, <1>10, <1>11 DEF Fit
<1>14. Captures(p[1]) => inside /\ Fit(q, inside, TRUE)
  BY <1>7, <1>9, <1>10 DEF Fit
<1>15. Restarts(p[1]) => Fit(q, inside, FALSE)
  BY <1>7, <1>10 DEF Fit
<1>16. ~TakesWrite(p[1]) /\ ~LetsGo(p[1]) /\ ~Captures(p[1]) /\ ~Restarts(p[1])
         => Fit(q, inside, half)
  BY <1>6, <1>7, <1>11 DEF Fit
<1> QED BY <1>12, <1>13, <1>14, <1>15, <1>16 DEF q

LEMMA AheadJoined ==
  ASSUME NEW p \in Seq(Op), NEW q \in Seq(Op)
  PROVE  /\ \A k \in DOMAIN p : RestartAhead(p, k) => RestartAhead(p \o q, k)
         /\ \A k \in DOMAIN q : RestartAhead(q, k) => RestartAhead(p \o q, k + Len(p))
<1> DEFINE r == p \o q
           n == Len(p)
<1>1. /\ n \in Nat /\ DOMAIN p = 1..n /\ DOMAIN q \subseteq Nat \ {0} /\ DOMAIN r \subseteq Nat
      /\ \A k \in DOMAIN r : \/ k \in DOMAIN p /\ r[k] = p[k]
                             \/ k - n \in DOMAIN q /\ r[k] = q[k - n]
      /\ \A k \in DOMAIN p : k \in DOMAIN r /\ r[k] = p[k]
      /\ \A k \in DOMAIN q : k + n \in DOMAIN r /\ r[k + n] = q[k]
  BY Joined
<1> HIDE DEF r, n
<1>2. ASSUME NEW k \in DOMAIN p, RestartAhead(p, k)
      PROVE  RestartAhead(r, k)
  <2>1. PICK d \in DOMAIN p : k < d /\ Restarts(p[d]) /\ Kept(p, k, d)
    BY <1>2 DEF RestartAhead
  <2>2. ASSUME NEW j \in DOMAIN r, k < j, j < d
        PROVE  ~LetsGo(r[j])
    <3>1. j \in DOMAIN p /\ r[j] = p[j]
      BY <1>1, <2>2
    <3> QED BY <2>1, <2>2, <3>1 DEF Kept
  <2> QED BY <1>1, <2>1, <2>2 DEF RestartAhead, Kept
<1>3. ASSUME NEW k \in DOMAIN q, RestartAhead(q, k)
      PROVE  RestartAhead(r, k + n)
  <2>1. PICK d \in DOMAIN q : k < d /\ Restarts(q[d]) /\ Kept(q, k, d)
    BY <1>3 DEF RestartAhead
  <2>2. ASSUME NEW j \in DOMAIN r, k + n < j, j < d + n
        PROVE  ~LetsGo(r[j])
    <3>1. j - n \in DOMAIN q /\ r[j] = q[j - n] /\ k < j - n /\ j - n < d
      BY <1>1, <2>2
    <3> QED BY <2>1, <3>1 DEF Kept
  <2>3. d + n \in DOMAIN r /\ r[d + n] = q[d] /\ k + n < d + n
    BY <1>1, <2>1
  <2> QED BY <2>1, <2>2, <2>3 DEF RestartAhead, Kept
<1> QED BY <1>2, <1>3 DEF r, n

LEMMA FitJoined ==
  ASSUME NEW p \in Seq(Op), NEW q \in Seq(Op), Fit(p, FALSE, FALSE), Fit(q, FALSE, FALSE)
  PROVE  p \o q \in Seq(Op) /\ Fit(p \o q, FALSE, FALSE)
<1> DEFINE r == p \o q
<1>1. \A k \in DOMAIN p : Captures(p[k]) => WrittenBefore(r, k) /\ RestartAhead(r, k)
  BY KeptJoined, AheadJoined DEF Fit
<1>2. \A k \in DOMAIN q :
        Captures(q[k]) => WrittenBefore(r, k + Len(p)) /\ RestartAhead(r, k + Len(p))
  BY KeptJoined, AheadJoined DEF Fit
<1>3. /\ r \in Seq(Op) /\ Len(p) \in Nat /\ DOMAIN r \subseteq Nat
      /\ \A k \in DOMAIN r : \/ k \in DOMAIN p /\ r[k] = p[k]
                             \/ k - Len(p) \in DOMAIN q /\ r[k] = q[k - Len(p)]
  BY Joined
<1> HIDE DEF r
<1>4. ASSUME NEW k \in DOMAIN r, Captures(r[k])
      PROVE  WrittenBefore(r, k) /\ RestartAhead(r, k)
  <2>1. CASE k \in DOMAIN p /\ r[k] = p[k]
    BY <1>1, <1>4, <2>1
  <2>2. CASE k - Len(p) \in DOMAIN q /\ r[k] = q[k - Len(p)]
    <3>1. (k - Len(p)) + Len(p) = k
      BY <1>3
    <3> QED BY <1>2, <1>4, <2>2, <3>1
  <2> QED BY <1>3, <2>1, <2>2
<1> QED BY <1>3, <1>4 DEF Fit, r
(* The parts of a poll are fit.                                            *)
Plain(p) == p \in Seq(Op) /\ \A k \in DOMAIN p : ~Captures(p[k])

LEMMA PlainJoined ==
  ASSUME NEW p, NEW q, Plain(p), Plain(q)
  PROVE  Plain(p \o q)
BY Joined DEF Plain

LEMMA PlainIsFit ==
  ASSUME NEW p, Plain(p)
  PROVE  p \in Seq(Op) /\ Fit(p, FALSE, FALSE)
BY DEF Plain, Fit

LEMMA PlainParts ==
  /\ Plain(<<>>)
  /\ \A l \in Lock : Plain(Read(l)) /\ Plain(Free(l)) /\ Plain(Write(l)) /\ Plain(Brief(l))
  /\ Plain(Mutex) /\ Plain(TouchState)
  /\ \A what \in OpName \ {"capture"} : Plain(Does(what))
<1>1. Plain(<<>>)
  BY DEF Plain
<1>2. \A l \in Lock : Plain(Read(l)) /\ Plain(Free(l)) /\ Plain(Write(l))
  <2> TAKE l \in Lock
  <2>1. (\A k \in DOMAIN Read(l) : ~Captures(Read(l)[k]))
        /\ (\A k \in DOMAIN Free(l) : ~Captures(Free(l)[k]))
    BY DEF Read, Free, Captures
  <2>2. \A k \in DOMAIN Write(l) : ~Captures(Write(l)[k])
    BY DEF Write, Captures
  <2> QED BY <2>1, <2>2, StepTypes DEF Plain
<1>3. Plain(Mutex)
  BY StepTypes DEF Plain, Mutex, Captures
<1>4. \A what \in OpName \ {"capture"} : Plain(Does(what))
  BY StepTypes DEF Plain, Does, Captures
<1>5. "state" \in Lock
  BY DEF Lock
<1> QED BY <1>1, <1>2, <1>3, <1>4, <1>5, PlainJoined DEF Brief, TouchState

(* One more step: of all captures in a program, the lock is still held at  *)
(* its end.                                                                *)
Covered(p) ==
  \A k \in DOMAIN p :
    Captures(p[k]) => WrittenBefore(p, k) /\ \A j \in DOMAIN p : k < j => ~LetsGo(p[j])

LEMMA ThenCapture ==
  ASSUME NEW p \in Seq(Op), Plain(p), Inside(p), NEW c \in Op, Captures(c)
  PROVE  p \o <<c>> \in Seq(Op) /\ Covered(p \o <<c>>)
<1> DEFINE r == p \o <<c>>
           n == Len(p)
<1>1. /\ r \in Seq(Op) /\ n \in Nat /\ DOMAIN p = 1..n /\ DOMAIN r = 1..n + 1
      /\ \A k \in 1..n : r[k] = p[k]
      /\ r[n + 1] = c
  BY OneMore
<1> HIDE DEF r, n
<1>2. PICK i \in 1..n : TakesWrite(p[i]) /\ \A j \in 1..n : i < j => ~LetsGo(p[j])
  BY <1>1 DEF Inside
<1>3. i \in DOMAIN r /\ i < n + 1 /\ TakesWrite(r[i])
  BY <1>1, <1>2
<1>4. ASSUME NEW j \in DOMAIN r, i < j, j < n + 1
      PROVE  ~LetsGo(r[j])
  <2>1. j \in 1..n
    BY <1>1, <1>4
  <2> QED BY <1>1, <1>2, <1>4, <2>1
<1>5. WrittenBefore(r, n + 1)
  BY <1>3, <1>4 DEF WrittenBefore, Kept
<1>6. ASSUME NEW k \in DOMAIN r, Captures(r[k])
      PROVE  k = n + 1
  <2>1. k \in 1..n \/ k = n + 1
    BY <1>1
  <2>2. k \notin 1..n
    BY <1>1, <1>6 DEF Plain
  <2> QED BY <2>1, <2>2
<1>7. \A j \in DOMAIN r : ~(n + 1 < j)
  BY <1>1
<1>8. Covered(r)
  BY <1>5, <1>6, <1>7 DEF Covered
<1> QED BY <1>1, <1>8 DEF r

LEMMA ThenOther ==
  ASSUME NEW p \in Seq(Op), Covered(p), NEW c \in Op, ~Captures(c), ~LetsGo(c)
  PROVE  p \o <<c>> \in Seq(Op) /\ Covered(p \o <<c>>)
<1> DEFINE q == <<c>>
           r == p \o q
           n == Len(p)
<1>1. /\ r \in Seq(Op) /\ n \in Nat /\ DOMAIN p = 1..n /\ DOMAIN r = 1..n + 1
      /\ \A k \in 1..n : r[k] = p[k]
      /\ r[n + 1] = c
  BY OneMore
<1>2. q \in Seq(Op)
  BY OneStep
<1>3. \A k \in 1..n : WrittenBefore(p, k) => WrittenBefore(r, k)
  BY <1>1, <1>2, KeptJoined
<1> HIDE DEF r, n
<1>4. ASSUME NEW k \in DOMAIN r, Captures(r[k])
      PROVE  WrittenBefore(r, k) /\ \A j \in DOMAIN r : k < j => ~LetsGo(r[j])
  <2>1. k \in 1..n \/ k = n + 1
    BY <1>1
  <2>2. k \in 1..n
    BY <1>1, <1>4, <2>1
  <2>3. WrittenBefore(p, k) /\ \A j \in 1..n : k < j => ~LetsGo(p[j])
    BY <1>1, <1>4, <2>2 DEF Covered
  <2>4. ASSUME NEW j \in DOMAIN r, k < j
        PROVE  ~LetsGo(r[j])
    <3>1. j \in 1..n \/ j = n + 1
      BY <1>1
    <3> QED BY <1>1, <2>3, <2>4, <3>1
  <2> QED BY <1>3, <2>2, <2>3, <2>4
<1>5. Covered(r)
  BY <1>4 DEF Covered
<1> QED BY <1>1, <1>5 DEF r

LEMMA ThenRestart ==
  ASSUME NEW p \in Seq(Op), Covered(p), NEW c \in Op, Restarts(c)
  PROVE  p \o <<c>> \in Seq(Op) /\ Fit(p \o <<c>>, FALSE, FALSE)
<1> DEFINE q == <<c>>
           r == p \o q
           n == Len(p)
<1>1. /\ r \in Seq(Op) /\ n \in Nat /\ DOMAIN p = 1..n /\ DOMAIN r = 1..n + 1
      /\ \A k \in 1..n : r[k] = p[k]
      /\ r[n + 1] = c
  BY OneMore
<1>2. q \in Seq(Op)
  BY OneStep
<1>3. \A k \in 1..n : WrittenBefore(p, k) => WrittenBefore(r, k)
  BY <1>1, <1>2, KeptJoined
<1> HIDE DEF r, n
<1>4. ASSUME NEW k \in DOMAIN r, Captures(r[k])
      PROVE  WrittenBefore(r, k) /\ RestartAhead(r, k)
  <2>1. k \in 1..n \/ k = n + 1
    BY <1>1
  <2>2. k \in 1..n
    BY <1>1, <1>4, <2>1 DEF Captures, Restarts
  <2>3. WrittenBefore(p, k) /\ \A j \in 1..n : k < j => ~LetsGo(p[j])
    BY <1>1, <1>4, <2>2 DEF Covered
  <2>4. ASSUME NEW j \in DOMAIN r, k < j, j < n + 1
        PROVE  ~LetsGo(r[j])
    <3>1. j \in 1..n
      BY <1>1, <2>4
    <3> QED BY <1>1, <2>3, <2>4, <3>1
  <2>5. n + 1 \in DOMAIN r /\ k < n + 1
    BY <1>1, <2>2
  <2>6. Kept(r, k, n + 1)
    BY <2>4 DEF Kept
  <2>7. RestartAhead(r, k)
    BY <1>1, <2>5, <2>6 DEF RestartAhead
  <2> QED BY <1>3, <2>2, <2>3, <2>7
<1>5. Fit(r, FALSE, FALSE)
  BY <1>4 DEF Fit
<1> QED BY <1>1, <1>5 DEF r

LEMMA WriteInside == Inside(Write("baselines"))
<1> DEFINE w == Write("baselines")
<1>1. Len(w) = 2 /\ w[2] = [op |-> "lock", lock |-> "baselines"]
  BY DEF Write
<1>2. w \in Seq(Op)
  BY StepTypes DEF Lock
<1> HIDE DEF w
<1>3. DOMAIN w = 1..2
  BY <1>1, <1>2
<1>4. TakesWrite(w[2])
  BY <1>1 DEF TakesWrite
<1>5. 2 \in DOMAIN w /\ \A j \in DOMAIN w : j <= 2
  BY <1>3
<1>6. \A j \in DOMAIN w : 2 < j => FALSE
  BY <1>3
<1> QED BY <1>4, <1>5, <1>6 DEF Inside, w

LEMMA CaptureFit == CaptureLocks \in Seq(Op) /\ Fit(CaptureLocks, FALSE, FALSE)
<1> DEFINE p1 == Read("config") \o Write("baselines")
           p2 == p1 \o TouchState
           p3 == p2 \o Does("capture")
           p4 == p3 \o Mutex
           p5 == p4 \o Does("restart countdown")
           p6 == p5 \o Free("state")
           p7 == p6 \o Free("baselines")
           p8 == p7 \o Free("config")
<1> {"config", "state", "baselines"} \subseteq Lock
    /\ {"capture", "restart countdown"} \subseteq OpName
  BY DEF Lock, OpName
<1>1. Inside(Write("baselines"))
  BY WriteInside
<1>2. NeverGo(TouchState)
  BY QuietParts, QuietIsShaped
<1>3. p1 \in Seq(Op) /\ Plain(p1) /\ Inside(p1)
  BY <1>1, PlainParts, PlainJoined, KeptJoined, StepTypes, Joined
<1> HIDE DEF p1
<1>4. p2 \in Seq(Op) /\ Plain(p2) /\ Inside(p2)
  BY <1>2, <1>3, PlainParts, PlainJoined, KeptJoined, QuietParts, Joined
<1> HIDE DEF p2
<1>5. p3 \in Seq(Op) /\ Covered(p3)
  <2> DEFINE c == [op |-> "capture", lock |-> None]
  <2>1. c \in Op /\ Captures(c) /\ p3 = p2 \o <<c>>
    BY DEF Op, Does, Captures
  <2> HIDE DEF c, p3
  <2> QED BY <1>4, <2>1, ThenCapture
<1> HIDE DEF p3
<1>6. p4 \in Seq(Op) /\ Covered(p4)
  <2> DEFINE c == [op |-> "lock", lock |-> "state"]
  <2>1. c \in Op /\ ~Captures(c) /\ ~LetsGo(c) /\ p4 = p3 \o <<c>>
    BY DEF Op, OpName, Captures, LetsGo, Mutex
  <2> HIDE DEF c, p4
  <2> QED BY <1>5, <2>1, ThenOther
<1> HIDE DEF p4
<1>7. p5 \in Seq(Op) /\ Fit(p5, FALSE, FALSE)
  <2> DEFINE c == [op |-> "restart countdown", lock |-> None]
  <2>1. c \in Op /\ Restarts(c) /\ p5 = p4 \o <<c>>
    BY DEF Op, Restarts, Does
  <2> HIDE DEF c, p5
  <2> QED BY <1>6, <2>1, ThenRestart
<1> HIDE DEF p5
<1>8. p6 \in Seq(Op) /\ Fit(p6, FALSE, FALSE)
  BY <1>7, FitJoined, PlainIsFit, PlainParts
<1> HIDE DEF p6
<1>9. p7 \in Seq(Op) /\ Fit(p7, FALSE, FALSE)
  BY <1>8, FitJoined, PlainIsFit, PlainParts
<1> HIDE DEF p7
<1>10. p8 \in Seq(Op) /\ Fit(p8, FALSE, FALSE)
  BY <1>9, FitJoined, PlainIsFit, PlainParts
<1> QED BY <1>10 DEF p1, p2, p3, p4, p5, p6, p7, CaptureLocks

LEMMA ReloadFit == ReloadLocks \in Seq(Op) /\ Fit(ReloadLocks, FALSE, FALSE)
<1> DEFINE p == TouchState \o Write("config") \o Does("reload") \o Free("config")
<1>1. "config" \in Lock /\ "reload" \in OpName \ {"capture"}
  BY DEF Lock, OpName
<1>2. Plain(p)
  BY <1>1, PlainParts, PlainJoined
<1> HIDE DEF p
<1> QED BY <1>2, PlainIsFit, FitJoined, CaptureFit DEF p, ReloadLocks

LEMMA OthersFit ==
  /\ Plain(DetectLocks) /\ Plain(KillLocks)
  /\ \A p \in GraceLocks \cup DriftLocks : Plain(p)
<1>1. {"config", "baselines", "state"} \subseteq Lock /\ "kill" \in OpName \ {"capture"}
  BY DEF Lock, OpName
<1>2. Plain(DetectLocks) /\ Plain(KillLocks)
  BY <1>1, PlainParts, PlainJoined DEF DetectLocks, KillLocks
<1>3. \A p \in GraceLocks : Plain(p)
  BY <1>1, PlainParts, PlainJoined DEF GraceLocks
<1>4. \A p \in DriftLocks : Plain(p)
  BY <1>1, PlainParts, PlainJoined DEF DriftLocks
<1> QED BY <1>2, <1>3, <1>4

LEMMA PollFit ==
  /\ Len(Poll) = 10
  /\ \A i \in 1..Len(Poll) : \A p \in Poll[i] : p \in Seq(Op) /\ Fit(p, FALSE, FALSE)
<1> DEFINE Parts == {<<>>, TouchState, CaptureLocks, ReloadLocks, Brief("config"), DetectLocks,
                     KillLocks} \cup GraceLocks \cup DriftLocks
<1>1. "config" \in Lock
  BY DEF Lock
<1>2. \A p \in Parts : p \in Seq(Op) /\ Fit(p, FALSE, FALSE)
  BY <1>1, PlainParts, PlainIsFit, CaptureFit, ReloadFit, OthersFit
<1>3. Len(Poll) = 10
  BY DEF Poll
<1>4. \A i \in 1..10 : Poll[i] \subseteq Parts
  BY DEF Poll
<1> QED BY <1>2, <1>3, <1>4
---------------------------------------------------------------------------
(* The types of what the threads hold and wait for.                        *)
LEMMA Advances ==
  ASSUME ThreadsTypeOK, NEW t \in Thread, program[t] # <<>>, Advance(t)
  PROVE  /\ program' \in [Thread -> Seq(Op)]
         /\ program'[t] = Tail(program[t])
         /\ \A u \in Thread : u # t => program'[u] = program[u]
<1>1. program[t] \in Seq(Op)
  BY DEF ThreadsTypeOK
<1>2. Tail(program[t]) \in Seq(Op)
  BY <1>1
<1> QED BY <1>2 DEF ThreadsTypeOK, Advance

(* A lock step, and what it does to the lock of the baselines.             *)
LEMMA Takes ==
  ASSUME ThreadsTypeOK, NEW t \in Thread, program[t] # <<>>, Take(t)
  PROVE  LET s == program[t][1]
             b == "baselines"
         IN  /\ s.op \in {"read", "queue", "lock", "free"}
             /\ reads' \in [Lock -> [Thread -> Int]] /\ owner' \in [Lock -> Thread \cup {None}]
             /\ \A u \in Thread : u # t => reads'[b][u] = reads[b][u]
             /\ TakesRead(s) =>
                  owner[b] = None /\ reads'[b][t] = reads[b][t] + 1 /\ owner'[b] = owner[b]
             /\ TakesWrite(s) =>
                  /\ owner[b] = None /\ \A u \in Thread : reads[b][u] = 0
                  /\ owner'[b] = t /\ reads'[b] = reads[b]
             /\ LetsGo(s) =>
                  IF owner[b] = t THEN owner'[b] = None /\ reads'[b] = reads[b]
                  ELSE owner'[b] = owner[b] /\ reads'[b][t] = reads[b][t] - 1
             /\ ~TakesRead(s) /\ ~TakesWrite(s) /\ ~LetsGo(s) =>
                  reads'[b] = reads[b] /\ owner'[b] = owner[b]
<1> DEFINE s == program[t][1]
           l == s.lock
<1>1. program[t] \in Seq(Op) /\ Next_step(t) = s
  BY Shifted DEF ThreadsTypeOK, Next_step
<1>2. reads \in [Lock -> [Thread -> Int]] /\ owner \in [Lock -> Thread \cup {None}]
  BY DEF ThreadsTypeOK
<1>3. "baselines" \in Lock
  BY DEF Lock
<1>4. \/ /\ s.op = "read" /\ owner[l] = None
         /\ reads' = [reads EXCEPT ![l][t] = @ + 1] /\ UNCHANGED owner
      \/ s.op = "queue" /\ UNCHANGED <<reads, owner>>
      \/ /\ s.op = "lock" /\ owner[l] = None /\ \A u \in Thread : reads[l][u] = 0
         /\ owner' = [owner EXCEPT ![l] = t] /\ UNCHANGED reads
      \/ /\ s.op = "free"
         /\ IF owner[l] = t
            THEN owner' = [owner EXCEPT ![l] = None] /\ UNCHANGED reads
            ELSE reads' = [reads EXCEPT ![l][t] = @ - 1] /\ UNCHANGED owner
  BY <1>1 DEF Take, At, Readable, locks
<1> HIDE DEF s, l
<1>5. CASE /\ s.op = "read" /\ owner[l] = None
           /\ reads' = [reads EXCEPT ![l][t] = @ + 1] /\ UNCHANGED owner
  <2>1. reads' \in [Lock -> [Thread -> Int]]
    <3>1. CASE l \in Lock
      <4> DEFINE row == [reads[l] EXCEPT ![t] = reads[l][t] + 1]
      <4>1. reads[l][t] + 1 \in Int
        BY <1>2, <3>1
      <4>2. row \in [Thread -> Int]
        BY <1>2, <3>1, <4>1
      <4>3. reads' = [reads EXCEPT ![l] = row]
        BY <1>5
      <4> HIDE DEF row
      <4> QED BY <1>2, <4>2, <4>3
    <3>2. CASE l \notin Lock
      BY <1>2, <1>5, <3>2
    <3> QED BY <3>1, <3>2
  <2>2. \A u \in Thread : u # t => reads'["baselines"][u] = reads["baselines"][u]
    BY <1>2, <1>3, <1>5
  <2>3. l = "baselines" => reads'["baselines"][t] = reads["baselines"][t] + 1
    BY <1>2, <1>3, <1>5
  <2>4. l # "baselines" => reads'["baselines"] = reads["baselines"]
    BY <1>2, <1>3, <1>5
  <2> QED BY <1>2, <1>5, <2>1, <2>2, <2>3, <2>4 DEF s, l, TakesRead, TakesWrite, LetsGo
<1>6. CASE s.op = "queue" /\ UNCHANGED <<reads, owner>>
  BY <1>2, <1>6 DEF s, l, TakesRead, TakesWrite, LetsGo
<1>7. CASE /\ s.op = "lock" /\ owner[l] = None /\ \A u \in Thread : reads[l][u] = 0
           /\ owner' = [owner EXCEPT ![l] = t] /\ UNCHANGED reads
  <2>1. owner' \in [Lock -> Thread \cup {None}]
    BY <1>2, <1>7
  <2>2. IF l = "baselines" THEN owner'["baselines"] = t ELSE owner'["baselines"] = owner["baselines"]
    BY <1>2, <1>3, <1>7
  <2> QED BY <1>2, <1>7, <2>1, <2>2 DEF s, l, TakesRead, TakesWrite, LetsGo
<1>8. CASE s.op = "free" /\ owner[l] = t /\ owner' = [owner EXCEPT ![l] = None] /\ UNCHANGED reads
  <2>1. owner' \in [Lock -> Thread \cup {None}]
    BY <1>2, <1>8
  <2>2. IF l = "baselines" THEN owner'["baselines"] = None ELSE owner'["baselines"] = owner["baselines"]
    BY <1>2, <1>3, <1>8
  <2> QED BY <1>2, <1>8, <2>1, <2>2 DEF s, l, TakesRead, TakesWrite, LetsGo
<1>9. CASE /\ s.op = "free" /\ owner[l] # t
           /\ reads' = [reads EXCEPT ![l][t] = @ - 1] /\ UNCHANGED owner
  <2>1. reads' \in [Lock -> [Thread -> Int]]
    <3>1. CASE l \in Lock
      <4> DEFINE row == [reads[l] EXCEPT ![t] = reads[l][t] - 1]
      <4>1. reads[l][t] - 1 \in Int
        BY <1>2, <3>1
      <4>2. row \in [Thread -> Int]
        BY <1>2, <3>1, <4>1
      <4>3. reads' = [reads EXCEPT ![l] = row]
        BY <1>9
      <4> HIDE DEF row
      <4> QED BY <1>2, <4>2, <4>3
    <3>2. CASE l \notin Lock
      BY <1>2, <1>9, <3>2
    <3> QED BY <3>1, <3>2
  <2>2. \A u \in Thread : u # t => reads'["baselines"][u] = reads["baselines"][u]
    BY <1>2, <1>3, <1>9
  <2>3. l = "baselines" => reads'["baselines"][t] = reads["baselines"][t] - 1
    BY <1>2, <1>3, <1>9
  <2>4. l # "baselines" => reads'["baselines"] = reads["baselines"]
    BY <1>2, <1>3, <1>9
  <2> QED BY <1>2, <1>9, <2>1, <2>2, <2>3, <2>4 DEF s, l, TakesRead, TakesWrite, LetsGo
<1> QED BY <1>4, <1>5, <1>6, <1>7, <1>8, <1>9

LEMMA BusTypes ==
  ASSUME ThreadsTypeOK, NEW h \in Handler, BusAnswers(h) \/ BusTimesOut(h)
  PROVE  /\ call' \in [Handler -> BusCall \cup {None}]
         /\ subject' \in [Handler -> Session \cup {None}]
         /\ verdict' \in [Handler -> {"none", "allowed", "refused"}]
<1> USE DEF ThreadsTypeOK
<1>1. ASSUME NEW v \in {"allowed", "refused"}, Settles(h, v)
      PROVE  /\ call' \in [Handler -> BusCall \cup {None}]
             /\ subject' \in [Handler -> Session \cup {None}]
             /\ verdict' \in [Handler -> {"none", "allowed", "refused"}]
  BY <1>1 DEF Settles
<1>2. ASSUME NEW next \in BusCall, NEW found \in Session \cup {None}, NEW name,
             Calls(h, name, next, found)
      PROVE  /\ call' \in [Handler -> BusCall \cup {None}]
             /\ subject' \in [Handler -> Session \cup {None}]
             /\ verdict' \in [Handler -> {"none", "allowed", "refused"}]
  BY <1>2 DEF Calls
<1>3. subject[h] \in Session \cup {None} /\ {"User", "GetUser", "Id", "CheckAuthorization", "Display"} \subseteq BusCall
  BY DEF BusCall
<1> HIDE DEF ThreadsTypeOK
<1>4. CASE SubjectSession(h)
  BY <1>1, <1>2, <1>3, <1>4 DEF SubjectSession
<1> QED BY <1>1, <1>4 DEF BusAnswers, BusTimesOut

LEMMA TypesStep == ThreadsTypeOK /\ [Next]_vars => ThreadsTypeOK'
<1> SUFFICES ASSUME ThreadsTypeOK, [Next]_vars PROVE ThreadsTypeOK'
  OBVIOUS
<1>1. ASSUME NEW t \in Thread, LockStep(t)
      PROVE  ThreadsTypeOK'
  <2>1. program' \in [Thread -> Seq(Op)]
    BY <1>1, Advances DEF LockStep
  <2>2. reads' \in [Lock -> [Thread -> Int]] /\ owner' \in [Lock -> Thread \cup {None}]
    BY <1>1, Takes DEF LockStep
  <2>3. UNCHANGED <<stage, request, call, subject, verdict>>
    BY <1>1 DEF LockStep, asking
  <2> QED BY <2>1, <2>2, <2>3 DEF ThreadsTypeOK
<1>2. ASSUME NEW t \in Thread, program[t] # <<>>, Advance(t),
             UNCHANGED <<stage, locks, request, call, subject>>,
             verdict' \in [Handler -> {"none", "allowed", "refused"}]
      PROVE  ThreadsTypeOK'
  <2>1. program' \in [Thread -> Seq(Op)]
    BY <1>2, Advances
  <2> QED BY <1>2, <2>1 DEF ThreadsTypeOK, locks
<1>3. CASE LoopWork \/ KillReturns
  <2>1. program["loop"] # <<>> /\ Advance("loop") /\ UNCHANGED <<stage, locks, request, asking>>
    BY <1>3 DEF LoopWork, KillReturns, At
  <2>2. UNCHANGED <<call, subject, verdict>>
    BY <2>1 DEF asking
  <2> QED BY <1>2, <2>1, <2>2, TheThreads DEF ThreadsTypeOK
<1>4. CASE NextPart
  <2>1. stage' \in 1..Len(Poll)
    BY <1>4, PollFit DEF NextPart, ThreadsTypeOK
  <2>2. PICK p \in Poll[stage'] : program' = [program EXCEPT !["loop"] = p]
    BY <1>4 DEF NextPart
  <2>3. program' \in [Thread -> Seq(Op)]
    BY <2>1, <2>2, PollFit, TheThreads DEF ThreadsTypeOK
  <2> QED BY <1>4, <2>1, <2>3 DEF ThreadsTypeOK, NextPart, locks, asking
<1>5. ASSUME NEW h \in Handler, Report(h) \/ Decided(h)
      PROVE  ThreadsTypeOK'
  <2>1. program[h] # <<>> /\ Advance(h) /\ UNCHANGED <<stage, locks, request, call, subject, verdict>>
    BY <1>5 DEF Report, Decided, At, asking
  <2> QED BY <1>2, <2>1, TheThreads DEF ThreadsTypeOK
<1>6. ASSUME NEW h \in Handler, Demand(h)
      PROVE  ThreadsTypeOK'
  <2>1. program[h] # <<>> /\ Advance(h) /\ UNCHANGED <<stage, locks, request, call, subject>>
    BY <1>6 DEF Demand, At
  <2>2. verdict' \in [Handler -> {"none", "allowed", "refused"}]
    BY <1>6 DEF Demand, ThreadsTypeOK
  <2> QED BY <1>2, <2>1, <2>2, TheThreads
<1>7. ASSUME NEW h \in Handler, Obey(h)
      PROVE  ThreadsTypeOK'
  <2>1. program[h] \in Seq(Op) /\ program[h] # <<>>
    BY <1>7, TheThreads DEF Obey, At, ThreadsTypeOK
  <2>2. Tail(program[h]) \in Seq(Op) /\ <<>> \in Seq(Op)
    BY <2>1
  <2> QED BY <1>7, <2>2 DEF ThreadsTypeOK, Obey, locks, asking
<1>8. ASSUME NEW h \in Handler, Serve(h)
      PROVE  ThreadsTypeOK'
  <2>1. PICK r \in DOMAIN Programs : program' = [program EXCEPT ![h] = Programs[r]]
    BY <1>8 DEF Serve
  <2>2. program' \in [Thread -> Seq(Op)]
    BY <2>1, ProgramsShaped DEF ThreadsTypeOK
  <2> QED BY <1>8, <2>2 DEF ThreadsTypeOK, Serve, locks, asking
<1>9. ASSUME NEW h \in Handler, Answer(h) \/ Ask(h)
      PROVE  ThreadsTypeOK'
  BY <1>9 DEF ThreadsTypeOK, Answer, Ask, BusCall, locks
<1>10. ASSUME NEW h \in Handler, BusAnswers(h) \/ BusTimesOut(h)
       PROVE  ThreadsTypeOK'
  BY <1>10, BusTypes DEF ThreadsTypeOK, BusAnswers, BusTimesOut, locks
<1>11. CASE UNCHANGED vars
  BY <1>11 DEF ThreadsTypeOK, vars, locks, asking
<1> QED BY <1>1, <1>3, <1>4, <1>5, <1>6, <1>7, <1>8, <1>9, <1>10, <1>11, TheThreads
        DEF Next, LoopRuns, HandlerRuns

LEMMA TypesInit == Init => ThreadsTypeOK
<1> SUFFICES ASSUME Init PROVE ThreadsTypeOK
  OBVIOUS
<1>1. <<>> \in Seq(Op)
  OBVIOUS
<1>2. stage \in 1..Len(Poll)
  BY PollFit DEF Init
<1> QED BY <1>1, <1>2 DEF Init, ThreadsTypeOK
---------------------------------------------------------------------------
(* A handler waits for the bus at the question of its own request and with *)
(* nothing decided; from the answer about a user on, the session in its    *)
(* hands is one, and past the check of its owner it is the caller's.       *)
AskInv ==
  \A h \in Handler :
    /\ request[h] = None => program[h] = <<>>
    /\ call[h] # None => At(h, "ask") /\ verdict[h] = "none"
    /\ call[h] = "User" => subject[h] \in Session
    /\ call[h] \in {"Id", "CheckAuthorization"} =>
         subject[h] \in Session /\ SessionOwner[subject[h]] = Caller[h]

LEMMA BusKeepsAsk ==
  ASSUME ThreadsTypeOK, AskInv, NEW h \in Handler, BusAnswers(h) \/ BusTimesOut(h)
  PROVE  AskInv'
<1>1. UNCHANGED <<program, request>>
  BY DEF BusAnswers, BusTimesOut
<1>2. call[h] # None
  BY DEF BusAnswers, BusTimesOut
<1>3. ASSUME NEW v, Settles(h, v)
      PROVE  AskInv'
  <2>1. /\ call' = [call EXCEPT ![h] = None] /\ verdict' = [verdict EXCEPT ![h] = v]
        /\ UNCHANGED subject
    BY <1>3 DEF Settles
  <2> QED BY <1>1, <2>1, TheThreads DEF AskInv, ThreadsTypeOK, At, Next_step, BusCall
<1>4. ASSUME NEW name, NEW next \in BusCall, NEW found \in Session \cup {None},
             Calls(h, name, next, found),
             next = "User" => found \in Session,
             next \in {"Id", "CheckAuthorization"} => found \in Session /\ SessionOwner[found] = Caller[h]
      PROVE  AskInv'
  <2>1. /\ call' = [call EXCEPT ![h] = next] /\ subject' = [subject EXCEPT ![h] = found]
        /\ UNCHANGED verdict
    BY <1>4 DEF Calls
  <2>2. call'[h] = next /\ subject'[h] = found
    BY <2>1 DEF ThreadsTypeOK
  <2>3. \A g \in Handler : g # h => call'[g] = call[g] /\ subject'[g] = subject[g]
    BY <2>1 DEF ThreadsTypeOK
  <2> QED BY <1>1, <1>2, <1>4, <2>1, <2>2, <2>3 DEF AskInv, At, Next_step
<1>5. {"User", "GetUser", "Id", "CheckAuthorization", "Display"} \subseteq BusCall
  BY DEF BusCall
<1>6. CASE SubjectSession(h)
  <2>1. ASSUME NEW s \in Session, Calls(h, "GetSessionByPID", "User", s)
        PROVE  AskInv'
    BY <1>4, <1>5, <2>1
  <2>2. CASE \/ Calls(h, "GetSessionByPID", "GetUser", None)
             \/ Calls(h, "GetUser", "Display", None)
    BY <1>4, <1>5, <2>2
  <2>3. CASE call[h] = "User" /\ Owned(h) /\ Calls(h, "User", "Id", subject[h])
    <3>1. subject[h] \in Session /\ SessionOwner[subject[h]] = Caller[h]
      BY <2>3 DEF AskInv, Owned, PeerCreds
    <3> QED BY <1>4, <1>5, <2>3, <3>1
  <2>4. CASE Calls(h, "Id", "CheckAuthorization", subject[h])
    <3>1. call[h] = "Id"
      BY <2>4 DEF Calls
    <3>2. subject[h] \in Session /\ SessionOwner[subject[h]] = Caller[h]
      BY <3>1 DEF AskInv
    <3> QED BY <1>4, <1>5, <2>4, <3>2
  <2>5. ASSUME NEW s \in Session, SessionOwner[s] = Caller[h],
               Calls(h, "Display", "CheckAuthorization", s)
        PROVE  AskInv'
    BY <1>4, <1>5, <2>5
  <2>6. CASE Settles(h, "refused")
    BY <1>3, <2>6
  <2> QED BY <1>6, <2>1, <2>2, <2>3, <2>4, <2>5, <2>6 DEF SubjectSession
<1> QED BY <1>3, <1>6 DEF BusAnswers, BusTimesOut

LEMMA AskStep == ThreadsTypeOK /\ AskInv /\ [Next]_vars => AskInv'
<1> SUFFICES ASSUME ThreadsTypeOK, AskInv, [Next]_vars PROVE AskInv'
  OBVIOUS
(* A thread that gets on with its program waits for nothing.               *)
<1>1. ASSUME NEW t \in Thread, program[t] # <<>>, Advance(t), UNCHANGED <<request, call, subject>>,
             t \in Handler => ~At(t, "ask") \/ verdict[t] # "none",
             \A h \in Handler : h # t => verdict'[h] = verdict[h]
      PROVE  AskInv'
  <2> SUFFICES ASSUME NEW h \in Handler
               PROVE  /\ request[h] = None => program'[h] = <<>>
                      /\ call[h] # None => At(h, "ask")' /\ verdict'[h] = "none"
    BY <1>1 DEF AskInv
  <2>1. CASE h = t
    BY <1>1, <2>1 DEF AskInv
  <2>2. CASE h # t
    <3>1. program'[h] = program[h] /\ verdict'[h] = verdict[h]
      BY <1>1, <2>2, Advances, TheThreads
    <3> QED BY <3>1 DEF AskInv, At, Next_step
  <2> QED BY <2>1, <2>2
<1>2. ASSUME NEW t \in Thread, LockStep(t)
      PROVE  AskInv'
  <2>1. program[t] # <<>> /\ Advance(t) /\ UNCHANGED <<request, call, subject, verdict>>
    BY <1>2 DEF LockStep, asking
  <2>2. ~At(t, "ask")
    BY <1>2 DEF LockStep, Take, At
  <2> QED BY <1>1, <2>1, <2>2
<1>3. CASE LoopWork \/ KillReturns
  <2>1. program["loop"] # <<>> /\ Advance("loop") /\ UNCHANGED <<request, asking>>
    BY <1>3 DEF LoopWork, KillReturns, At
  <2>2. "loop" \notin Handler
    BY SocketAssumption
  <2> QED BY <1>1, <2>1, <2>2, TheThreads DEF asking
<1>4. CASE NextPart
  <2>1. \A h \in Handler : program'[h] = program[h]
    BY <1>4, SocketAssumption, TheThreads DEF NextPart, ThreadsTypeOK
  <2>2. UNCHANGED <<request, call, subject, verdict>>
    BY <1>4 DEF NextPart, asking
  <2> QED BY <2>1, <2>2 DEF AskInv, At, Next_step
<1>5. ASSUME NEW h \in Handler, Report(h) \/ Demand(h) \/ Decided(h)
      PROVE  AskInv'
  <2>1. program[h] # <<>> /\ Advance(h) /\ UNCHANGED <<request, call, subject>>
    BY <1>5 DEF Report, Demand, Decided, At, asking
  <2>2. ~At(h, "ask") \/ verdict[h] # "none"
    BY <1>5 DEF Report, Demand, Decided, At
  <2>3. \A g \in Handler : g # h => verdict'[g] = verdict[g]
    BY <1>5 DEF Report, Demand, Decided, asking, ThreadsTypeOK
  <2> QED BY <1>1, <2>1, <2>2, <2>3, TheThreads
<1>6. ASSUME NEW h \in Handler, Obey(h)
      PROVE  AskInv'
  <2>1. \A g \in Handler : g # h => program'[g] = program[g]
    BY <1>6, TheThreads DEF Obey, ThreadsTypeOK
  <2>2. call[h] = None /\ request[h] # None
    BY <1>6 DEF Obey, At, AskInv
  <2>3. UNCHANGED <<request, call, subject, verdict>>
    BY <1>6 DEF Obey, asking
  <2> QED BY <2>1, <2>2, <2>3, TheThreads DEF AskInv, At, Next_step, BusCall
<1>7. ASSUME NEW h \in Handler, Serve(h)
      PROVE  AskInv'
  <2>1. PICK r \in DOMAIN Programs : request' = [request EXCEPT ![h] = r]
    BY <1>7 DEF Serve
  <2>2. \A g \in Handler : g # h => program'[g] = program[g] /\ request'[g] = request[g]
    BY <1>7, <2>1, TheThreads DEF Serve, ThreadsTypeOK
  <2>3. call[h] = None
    BY <1>7 DEF Serve, AskInv, At
  <2>4. UNCHANGED <<call, subject, verdict>>
    BY <1>7 DEF Serve, asking
  <2>5. request'[h] # None
    BY <2>1, RequestAssumption DEF ThreadsTypeOK
  <2> QED BY <2>2, <2>3, <2>4, <2>5, TheThreads DEF AskInv, At, Next_step, BusCall
<1>8. ASSUME NEW h \in Handler, Answer(h)
      PROVE  AskInv'
  <2>1. call[h] = None
    BY <1>8 DEF Answer, AskInv, At
  <2>2. UNCHANGED <<program, call>>
    BY <1>8 DEF Answer
  <2>3. \A g \in Handler : g # h => /\ request'[g] = request[g] /\ subject'[g] = subject[g]
                                    /\ verdict'[g] = verdict[g]
    BY <1>8 DEF Answer, ThreadsTypeOK
  <2>4. program[h] = <<>>
    BY <1>8 DEF Answer
  <2> QED BY <2>1, <2>2, <2>3, <2>4, TheThreads DEF AskInv, At, Next_step, BusCall
<1>9. ASSUME NEW h \in Handler, Ask(h)
      PROVE  AskInv'
  <2>1. /\ At(h, "ask") /\ verdict[h] = "none"
        /\ call' = [call EXCEPT ![h] = "GetSessionByPID"]
        /\ UNCHANGED <<program, request, subject, verdict>>
    BY <1>9 DEF Ask
  <2> QED BY <2>1 DEF AskInv, At, Next_step, ThreadsTypeOK
<1>10. ASSUME NEW h \in Handler, BusAnswers(h) \/ BusTimesOut(h)
       PROVE  AskInv'
  BY <1>10, BusKeepsAsk
<1>11. CASE UNCHANGED vars
  BY <1>11 DEF AskInv, vars, asking, At, Next_step
<1> QED BY <1>2, <1>3, <1>4, <1>5, <1>6, <1>7, <1>8, <1>9, <1>10, <1>11, TheThreads
        DEF Next, LoopRuns, HandlerRuns

(* polkit is asked about a session of the caller, whatever the pid it came *)
(* with belongs to by then: subject_session of authz.rs.                   *)
THEOREM SubjectCorrect == Spec => []SubjectIsCallersOwn
<1>1. Init => AskInv
  BY TheThreads DEF Init, AskInv, BusCall
<1>2. AskInv => SubjectIsCallersOwn
  BY SocketAssumption DEF AskInv, SubjectIsCallersOwn
<1> QED BY <1>1, <1>2, AskStep, TypesInit, TypesStep, PTL DEF Spec

---------------------------------------------------------------------------
(* Whoever holds the baselines for writing is the loop, and then nobody    *)
(* reads them; what each thread has left to do fits what it holds.         *)
HandlerFits(h) ==
  /\ reads["baselines"][h] \in Nat
  /\ owner["baselines"] = "loop" => reads["baselines"][h] = 0
  /\ \E held \in BOOLEAN : /\ held => reads["baselines"][h] >= 1
                           /\ Shaped(program[h], held)

LoopFits ==
  \E inside, half \in BOOLEAN : /\ inside => owner["baselines"] = "loop"
                                /\ halfway => half
                                /\ Fit(program["loop"], inside, half)

OneMoment ==
  /\ owner["baselines"] \in {None, "loop"}
  /\ \A h \in Handler : HandlerFits(h)
  /\ LoopFits

(* A handler's step leaves the lock to whom it was, and keeps its own part.*)
LEMMA HandlerMoment ==
  ASSUME ThreadsTypeOK, OneMoment, NEW h \in Handler, program[h] # <<>>, Advance(h),
         \/ Take(h) /\ UNCHANGED halfway
         \/ UNCHANGED <<locks, halfway>> /\ ~At(h, "free") /\ ~At(h, "read")
  PROVE  OneMoment'
<1> DEFINE b == "baselines"
           s == program[h][1]
<1>1. /\ h \in Thread /\ "loop" \in Thread /\ h # "loop" /\ b \in Lock
      /\ None # "loop" /\ Handler \subseteq Thread /\ None \notin Handler
  BY SocketAssumption, TheThreads
<1>2. /\ program'[h] = Tail(program[h])
      /\ \A t \in Thread : t # h => program'[t] = program[t]
      /\ program[h] \in Seq(Op)
  BY <1>1, Advances DEF ThreadsTypeOK
<1>3. PICK held \in BOOLEAN : (held => reads[b][h] >= 1) /\ Shaped(program[h], held)
  BY DEF OneMoment, HandlerFits
<1>4. /\ TakesRead(s) => Shaped(program'[h], TRUE)
      /\ LetsGo(s) => held /\ Shaped(program'[h], FALSE)
      /\ ~LetsGo(s) /\ ~TakesRead(s) => Shaped(program'[h], held)
      /\ ~TakesWrite(s)
  BY <1>2, <1>3, ShapedTail
<1>5. /\ \A t \in Thread : t # h => reads'[b][t] = reads[b][t]
      /\ owner'[b] = owner[b]
      /\ \/ TakesRead(s) /\ owner[b] = None /\ reads'[b][h] = reads[b][h] + 1
         \/ LetsGo(s) /\ reads'[b][h] = reads[b][h] - 1
         \/ ~TakesRead(s) /\ ~LetsGo(s) /\ reads'[b][h] = reads[b][h]
      /\ UNCHANGED halfway
  <2>1. CASE Take(h) /\ UNCHANGED halfway
    <3>1. owner[b] # h
      BY <1>1 DEF OneMoment
    <3> QED BY <1>1, <1>4, <2>1, <3>1, Takes
  <2>2. CASE UNCHANGED <<locks, halfway>> /\ ~At(h, "free") /\ ~At(h, "read")
    <3>1. Next_step(h) = s
      BY <1>2, Shifted DEF Next_step
    <3>2. ~LetsGo(s) /\ ~TakesRead(s)
      BY <2>2, <3>1 DEF At, LetsGo, TakesRead
    <3> QED BY <2>2, <3>2 DEF locks
  <2> QED BY <2>1, <2>2
<1>6. reads[b][h] \in Nat /\ (owner[b] = "loop" => reads[b][h] = 0)
  BY DEF OneMoment, HandlerFits
<1> HIDE DEF s, b
<1>7. /\ reads'[b][h] \in Nat
      /\ owner'[b] = "loop" => reads'[b][h] = 0
      /\ \E has \in BOOLEAN : (has => reads'[b][h] >= 1) /\ Shaped(program'[h], has)
  <2>1. CASE TakesRead(s) /\ owner[b] = None /\ reads'[b][h] = reads[b][h] + 1
    <3>1. reads'[b][h] \in Nat /\ reads'[b][h] >= 1
      BY <1>6, <2>1
    <3> QED BY <1>1, <1>4, <1>5, <2>1, <3>1
  <2>2. CASE LetsGo(s) /\ reads'[b][h] = reads[b][h] - 1
    <3>1. reads[b][h] >= 1
      BY <1>3, <1>4, <2>2
    <3>2. reads'[b][h] \in Nat /\ owner[b] # "loop"
      BY <1>6, <2>2, <3>1
    <3> QED BY <1>4, <1>5, <2>2, <3>2
  <2>3. CASE ~TakesRead(s) /\ ~LetsGo(s) /\ reads'[b][h] = reads[b][h]
    BY <1>3, <1>4, <1>5, <1>6, <2>3
  <2> QED BY <1>4, <1>5, <2>1, <2>2, <2>3
<1>8. HandlerFits(h)'
  BY <1>7 DEF HandlerFits, b
<1>9. \A g \in Handler : g # h => HandlerFits(g)'
  BY <1>1, <1>2, <1>5 DEF OneMoment, HandlerFits, b
<1>10. LoopFits'
  BY <1>1, <1>2, <1>5 DEF OneMoment, LoopFits, b
<1> QED BY <1>5, <1>8, <1>9, <1>10 DEF OneMoment, b
(* A step of the loop: a lock step, or what it does with the locks it has. *)
LEMMA LoopMoment ==
  ASSUME ThreadsTypeOK, OneMoment, LockStep("loop") \/ LoopWork \/ KillReturns
  PROVE  OneMoment'
<1> DEFINE b == "baselines"
           p == program["loop"]
           s == p[1]
<1>1. /\ "loop" \in Thread /\ "loop" \notin Handler /\ b \in Lock
      /\ None # "loop" /\ Handler \subseteq Thread
  BY SocketAssumption, TheThreads
<1>2. /\ p # <<>> /\ Advance("loop")
      /\ p \in Seq(Op)
  BY <1>1 DEF LockStep, LoopWork, KillReturns, At, ThreadsTypeOK
<1>3. /\ program'["loop"] = Tail(p)
      /\ \A t \in Thread : t # "loop" => program'[t] = program[t]
  BY <1>1, <1>2, Advances
<1>4. PICK inside \in BOOLEAN, half \in BOOLEAN :
        (inside => owner[b] = "loop") /\ (halfway => half) /\ Fit(p, inside, half)
  BY DEF OneMoment, LoopFits
<1>5. /\ TakesWrite(s) => Fit(program'["loop"], TRUE, half)
      /\ LetsGo(s) => ~half /\ Fit(program'["loop"], FALSE, FALSE)
      /\ Captures(s) => inside /\ Fit(program'["loop"], inside, TRUE)
      /\ Restarts(s) => Fit(program'["loop"], inside, FALSE)
      /\ ~TakesWrite(s) /\ ~LetsGo(s) /\ ~Captures(s) /\ ~Restarts(s)
           => Fit(program'["loop"], inside, half)
  BY <1>2, <1>3, <1>4, FitTail
<1>6. Next_step("loop") = s
  BY <1>2, Shifted DEF Next_step
<1>7. CASE LockStep("loop")
  <2>1. Take("loop") /\ UNCHANGED halfway
    BY <1>7 DEF LockStep
  <2>2. ~Captures(s) /\ ~Restarts(s)
    BY <1>1, <1>2, <2>1, Takes DEF Captures, Restarts
  <2>3. \A h \in Handler : reads'[b][h] = reads[b][h]
    BY <1>1, <1>2, <2>1, Takes
  <2>4. /\ TakesWrite(s) => owner'[b] = "loop" /\ \A t \in Thread : reads[b][t] = 0
        /\ LetsGo(s) => owner'[b] \in {owner[b], None}
        /\ ~TakesWrite(s) /\ ~LetsGo(s) => owner'[b] = owner[b]
    BY <1>1, <1>2, <2>1, Takes
  <2>5. owner'[b] \in {None, "loop"}
    BY <2>4 DEF OneMoment
  <2>6. \A h \in Handler : HandlerFits(h)'
    <3> TAKE h \in Handler
    <3>1. program'[h] = program[h]
      BY <1>1, <1>3
    <3>2. owner'[b] = "loop" => reads'[b][h] = 0
      BY <1>1, <2>3, <2>4 DEF OneMoment, HandlerFits
    <3> QED BY <2>3, <3>1, <3>2 DEF OneMoment, HandlerFits
  <2>7. LoopFits'
    <3>1. CASE TakesWrite(s)
      BY <1>4, <1>5, <2>1, <2>4, <3>1 DEF LoopFits
    <3>2. CASE LetsGo(s)
      BY <1>4, <1>5, <2>1, <3>2 DEF LoopFits
    <3>3. CASE ~TakesWrite(s) /\ ~LetsGo(s)
      BY <1>4, <1>5, <2>1, <2>2, <2>4, <3>3 DEF LoopFits
    <3> QED BY <3>1, <3>2, <3>3
  <2> QED BY <2>5, <2>6, <2>7 DEF OneMoment
<1>8. CASE LoopWork \/ KillReturns
  <2>1. UNCHANGED <<reads, owner>>
    BY <1>8 DEF LoopWork, KillReturns, locks
  <2>2. /\ ~TakesWrite(s) /\ ~LetsGo(s)
        /\ \/ Captures(s) /\ halfway' = TRUE
           \/ Restarts(s) /\ halfway' = FALSE
           \/ ~Captures(s) /\ ~Restarts(s) /\ halfway' = halfway
    BY <1>6, <1>8 DEF LoopWork, KillReturns, At, TakesWrite, LetsGo, Captures, Restarts
  <2>3. \A h \in Handler : HandlerFits(h)'
    BY <1>1, <1>3, <2>1 DEF OneMoment, HandlerFits
  <2>4. LoopFits'
    <3>1. CASE Captures(s) /\ halfway' = TRUE
      <4>1. (inside => owner'[b] = "loop") /\ (halfway' => TRUE) /\ Fit(program'["loop"], inside, TRUE)
        BY <1>4, <1>5, <2>1, <3>1
      <4> QED BY <4>1 DEF LoopFits
    <3>2. CASE Restarts(s) /\ halfway' = FALSE
      <4>1. (inside => owner'[b] = "loop") /\ (halfway' => FALSE) /\ Fit(program'["loop"], inside, FALSE)
        BY <1>4, <1>5, <2>1, <3>2
      <4> QED BY <4>1 DEF LoopFits
    <3>3. CASE ~Captures(s) /\ ~Restarts(s) /\ halfway' = halfway
      BY <1>4, <1>5, <2>1, <2>2, <3>3 DEF LoopFits
    <3> QED BY <2>2, <3>1, <3>2, <3>3
  <2> QED BY <2>1, <2>3, <2>4 DEF OneMoment
<1> QED BY <1>7, <1>8

LEMMA MomentStep == ThreadsTypeOK /\ OneMoment /\ [Next]_vars => OneMoment'
<1> SUFFICES ASSUME ThreadsTypeOK, OneMoment, [Next]_vars PROVE OneMoment'
  OBVIOUS
<1>1. /\ "loop" \in Thread /\ "loop" \notin Handler /\ Handler \subseteq Thread
  BY SocketAssumption, TheThreads
<1>2. ASSUME NEW h \in Handler, LockStep(h)
      PROVE  OneMoment'
  BY <1>2, HandlerMoment DEF LockStep
<1>3. ASSUME NEW h \in Handler, Report(h) \/ Demand(h) \/ Decided(h)
      PROVE  OneMoment'
  <2>1. /\ program[h] # <<>> /\ Advance(h) /\ UNCHANGED <<locks, halfway>>
        /\ ~At(h, "free") /\ ~At(h, "read")
    BY <1>3 DEF Report, Demand, Decided, At
  <2> QED BY <2>1, HandlerMoment
(* A handler that starts on a shaped program, or has none left.            *)
<1>4. ASSUME NEW h \in Handler, NEW p, program' = [program EXCEPT ![h] = p], Shaped(p, FALSE),
             UNCHANGED <<locks, halfway>>
      PROVE  OneMoment'
  <2>1. program'[h] = p /\ \A t \in Thread : t # h => program'[t] = program[t]
    BY <1>1, <1>4 DEF ThreadsTypeOK
  <2>2. HandlerFits(h)'
    BY <1>4, <2>1 DEF OneMoment, HandlerFits, locks
  <2>3. \A g \in Handler : g # h => HandlerFits(g)'
    BY <1>1, <1>4, <2>1 DEF OneMoment, HandlerFits, locks
  <2>4. LoopFits'
    BY <1>1, <1>4, <2>1 DEF OneMoment, LoopFits, locks
  <2> QED BY <1>4, <2>2, <2>3, <2>4 DEF OneMoment, locks
<1>5. ASSUME NEW h \in Handler, Serve(h)
      PROVE  OneMoment'
  <2>1. PICK r \in DOMAIN Programs : program' = [program EXCEPT ![h] = Programs[r]]
    BY <1>5 DEF Serve
  <2> QED BY <1>4, <1>5, <2>1, ProgramsShaped DEF Serve
<1>6. ASSUME NEW h \in Handler, Obey(h)
      PROVE  OneMoment'
  <2>1. CASE verdict[h] = "allowed"
    <3>1. /\ program[h] # <<>> /\ Advance(h) /\ UNCHANGED <<locks, halfway>>
          /\ ~At(h, "free") /\ ~At(h, "read")
      BY <1>6, <2>1 DEF Obey, At, Advance
    <3> QED BY <3>1, HandlerMoment
  <2>2. CASE verdict[h] # "allowed"
    <3>1. Shaped(<<>>, FALSE)
      BY DEF Shaped
    <3> QED BY <1>4, <1>6, <2>2, <3>1 DEF Obey
  <2> QED BY <2>1, <2>2
<1>7. CASE NextPart
  <2>1. stage' \in 1..Len(Poll)
    BY <1>7, PollFit DEF NextPart, ThreadsTypeOK
  <2>2. PICK p \in Poll[stage'] : program' = [program EXCEPT !["loop"] = p]
    BY <1>7 DEF NextPart
  <2>3. program'["loop"] = p /\ \A t \in Thread : t # "loop" => program'[t] = program[t]
    BY <1>1, <2>2 DEF ThreadsTypeOK
  <2>4. Fit(p, FALSE, FALSE)
    BY <2>1, <2>2, PollFit
  <2>5. ~halfway
    BY <1>7 DEF NextPart, OneMoment, LoopFits, Fit, RestartAhead
  <2>6. UNCHANGED <<reads, owner, halfway>>
    BY <1>7 DEF NextPart, locks
  <2>7. \A h \in Handler : HandlerFits(h)'
    BY <1>1, <2>3, <2>6 DEF OneMoment, HandlerFits
  <2>8. LoopFits'
    BY <2>3, <2>4, <2>5, <2>6 DEF LoopFits
  <2> QED BY <2>6, <2>7, <2>8 DEF OneMoment
<1>8. ASSUME UNCHANGED <<program, locks, halfway>>
      PROVE  OneMoment'
  BY <1>8 DEF OneMoment, HandlerFits, LoopFits, locks
<1>9. ASSUME \/ \E h \in Handler : Answer(h) \/ Ask(h) \/ BusAnswers(h) \/ BusTimesOut(h)
             \/ UNCHANGED vars
      PROVE  UNCHANGED <<program, locks, halfway>>
  BY <1>9 DEF Answer, Ask, BusAnswers, BusTimesOut, vars, locks
<1> QED BY <1>2, <1>3, <1>5, <1>6, <1>7, <1>8, <1>9, LoopMoment DEF Next, LoopRuns, HandlerRuns

(* A status is a picture of one moment: no handler reports while a capture *)
(* is between the baselines and their countdown, handle_status of socket.rs*)
(* beside capture_baselines and the poll loop of main.rs.                  *)
THEOREM StatusCorrect == Spec => []StatusIsOneMoment
<1>1. Init => OneMoment
  <2> SUFFICES ASSUME Init PROVE OneMoment
    OBVIOUS
  <2>1. Shaped(<<>>, FALSE) /\ Fit(<<>>, FALSE, FALSE)
    BY DEF Shaped, Fit
  <2>2. \A h \in Handler : HandlerFits(h)
    BY <2>1, TheThreads DEF Init, HandlerFits
  <2>3. LoopFits
    BY <2>1, TheThreads DEF Init, LoopFits
  <2> QED BY <2>2, <2>3, TheThreads DEF Init, OneMoment
<1>2. ThreadsTypeOK /\ OneMoment => StatusIsOneMoment
  <2> SUFFICES ASSUME ThreadsTypeOK, OneMoment, NEW h \in Handler, At(h, "report")
               PROVE  ~halfway
    BY DEF StatusIsOneMoment
  <2>1. program[h] \in Seq(Op) /\ program[h] # <<>>
    BY TheThreads DEF ThreadsTypeOK, At
  <2>2. program[h][1].op = "report"
    BY <2>1, Shifted DEF At, Next_step
  <2>3. reads["baselines"][h] >= 1 /\ reads["baselines"][h] \in Nat
    BY <2>1, <2>2, ShapedTail DEF OneMoment, HandlerFits
  <2>4. owner["baselines"] # "loop"
    BY <2>3 DEF OneMoment, HandlerFits
  <2> QED BY <2>4 DEF OneMoment, LoopFits, Fit
<1> QED BY <1>1, <1>2, MomentStep, TypesInit, TypesStep, PTL DEF Spec

=============================================================================
