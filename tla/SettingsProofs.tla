--------------------------- MODULE SettingsProofs ---------------------------
(***************************************************************************)
(* The settings window, proved for any ports, any devices and any files,   *)
(* and for lists of any length.                                            *)
(***************************************************************************)
EXTENDS SettingsProperties, FiniteSetTheorems, SequenceTheorems, TLAPS

(* Induction, as far as a set will do: what is not empty has a least.      *)
LEMMA LeastOf ==
  ASSUME NEW S \in SUBSET Nat, S # {}
  PROVE  \E m \in S : \A k \in S : m <= k
<1> DEFINE R == OpToRel(<, Nat)
<1>1. IsWellFoundedOn(R, Nat)
  BY NatLessThanWellFounded
<1>2. PICK m \in S : \A k \in S : <<k, m>> \notin R
  <2> HIDE DEF R
  <2> QED BY <1>1, WFMin
<1>3. \A k \in S : ~(k < m)
  BY <1>2 DEF OpToRel
<1> QED BY <1>3

(* A finite set of which an injection makes numbers has a last element:    *)
(* one with the fewest above it, and so none.                              *)
LEMMA LastOf ==
  ASSUME NEW S, IsFiniteSet(S), S # {}, NEW f \in [S -> Nat], \A x, y \in S : f[x] = f[y] => x = y
  PROVE  \E m \in S : \A k \in S : k # m => f[k] < f[m]
<1> DEFINE Above(x) == {y \in S : f[x] < f[y]}
           Sizes == {n \in Nat : \E x \in S : Cardinality(Above(x)) = n}
<1>1. \A x \in S : IsFiniteSet(Above(x)) /\ Cardinality(Above(x)) \in Nat
  <2> TAKE x \in S
  <2>1. Above(x) \subseteq S
    OBVIOUS
  <2> QED BY <2>1, FS_Subset, FS_CardinalityType
<1>2. Sizes # {} /\ Sizes \in SUBSET Nat
  BY <1>1
<1>3. PICK n \in Sizes : \A k \in Sizes : n <= k
  <2> HIDE DEF Sizes
  <2> QED BY <1>2, LeastOf
<1>4. PICK m \in S : Cardinality(Above(m)) = n
  OBVIOUS
<1>5. ASSUME NEW y \in S, f[m] < f[y] PROVE FALSE
  <2>1. Above(y) \subseteq Above(m) /\ y \in Above(m) /\ y \notin Above(y)
    BY <1>5
  <2>2. Cardinality(Above(y)) <= Cardinality(Above(m)) /\ Cardinality(Above(y)) # Cardinality(Above(m))
    <3> HIDE DEF Above
    <3> QED BY <1>1, <2>1, FS_Subset
  <2>3. Cardinality(Above(y)) \in Sizes
    <3> HIDE DEF Above
    <3> QED BY <1>1
  <2>4. n <= Cardinality(Above(y)) /\ n \in Nat /\ Cardinality(Above(y)) \in Nat
    <3> HIDE DEF Above
    <3> QED BY <1>1, <1>3, <2>3
  <2> HIDE DEF Above
  <2> QED BY <1>4, <2>2, <2>4
<1>6. \A k \in S : k # m => f[k] < f[m]
  BY <1>5
<1> QED BY <1>6

(* The numbers of a finite set can be told in order.                       *)
Increasing(at) == \A i, j \in DOMAIN at : i < j => at[i] < at[j]

LEMMA OrderExists ==
  ASSUME NEW S \in SUBSET Nat, IsFiniteSet(S)
  PROVE  \E at \in [1..Cardinality(S) -> S] : Increasing(at)
<1> DEFINE Told(T) == \E at \in [1..Cardinality(T) -> T] : Increasing(at)
           Bad == {n \in Nat : \E T \in SUBSET Nat : IsFiniteSet(T) /\ Cardinality(T) = n /\ ~Told(T)}
<1>1. SUFFICES Bad = {}
  BY FS_CardinalityType
<1>2. SUFFICES ASSUME Bad # {} PROVE FALSE
  OBVIOUS
<1>3. PICK n \in Bad : \A k \in Bad : n <= k
  <2>1. Bad \in SUBSET Nat
    OBVIOUS
  <2> HIDE DEF Bad
  <2> QED BY <1>2, <2>1, LeastOf
<1>4. PICK T \in SUBSET Nat : IsFiniteSet(T) /\ Cardinality(T) = n /\ ~Told(T)
  OBVIOUS
<1>5. n \in Nat
  OBVIOUS
<1>6. CASE T = {}
  <2>1. n = 0
    BY <1>4, <1>6, FS_EmptySet
  <2>2. 1..0 = {}
    OBVIOUS
  <2>3. [i \in 1..0 |-> 0] \in [1..0 -> T] /\ Increasing([i \in 1..0 |-> 0])
    BY <2>2 DEF Increasing
  <2> QED BY <1>4, <2>1, <2>3
<1>7. CASE T # {}
  <2> DEFINE f == [x \in T |-> x]
  <2>1. PICK m \in T : \A k \in T : k # m => f[k] < f[m]
    BY <1>4, <1>7, LastOf
  <2> DEFINE U == T \ {m}
  <2>2. IsFiniteSet(U) /\ Cardinality(U) = n - 1 /\ n - 1 \in Nat
    <3>1. n # 0
      BY <1>4, <1>7, FS_EmptySet
    <3> QED BY <1>4, <1>5, <3>1, FS_RemoveElement
  <2>3. Told(U)
    <3>1. n - 1 \notin Bad
      BY <1>3, <1>5
    <3> QED BY <2>2, <3>1
  <2>4. PICK at \in [1..(n - 1) -> U] : Increasing(at)
    BY <2>2, <2>3
  <2> DEFINE on == [i \in 1..n |-> IF i = n THEN m ELSE at[i]]
  <2>5. on \in [1..n -> T]
    BY <1>5
  <2>6. Increasing(on)
    <3> SUFFICES ASSUME NEW i \in 1..n, NEW j \in 1..n, i < j PROVE on[i] < on[j]
      BY DEF Increasing
    <3>1. i \in 1..(n - 1) /\ on[i] = at[i] /\ at[i] \in U
      BY <1>5
    <3>2. CASE j = n
      BY <2>1, <3>1, <3>2
    <3>3. CASE j # n
      <4>1. j \in 1..(n - 1) /\ on[j] = at[j]
        BY <1>5, <3>3
      <4>2. at[i] < at[j]
        BY <2>4, <3>1, <4>1 DEF Increasing
      <4> QED BY <3>1, <4>1, <4>2
    <3> QED BY <3>2, <3>3
  <2>7. Told(T)
    <3> HIDE DEF on
    <3> QED BY <1>4, <2>5, <2>6
  <2> QED BY <1>4, <2>7
<1> QED BY <1>6, <1>7

LEMMA InOrderType ==
  ASSUME NEW S \in SUBSET Nat, IsFiniteSet(S)
  PROVE  /\ InOrder(S) \in [1..Cardinality(S) -> S]
         /\ \A i, j \in DOMAIN InOrder(S) : InOrder(S)[i] = InOrder(S)[j] => i = j
         /\ \A s \in S : \E i \in DOMAIN InOrder(S) : InOrder(S)[i] = s
<1> DEFINE at == InOrder(S)
<1>1. at \in [1..Cardinality(S) -> S] /\ Increasing(at)
  BY OrderExists DEF InOrder, Increasing
<1>2. Cardinality(S) \in Nat
  BY FS_CardinalityType
<1> HIDE DEF at
<1>3. \A i, j \in DOMAIN at : at[i] = at[j] => i = j
  <2> SUFFICES ASSUME NEW i \in 1..Cardinality(S), NEW j \in 1..Cardinality(S), at[i] = at[j], i # j
               PROVE  FALSE
    BY <1>1
  <2>1. i < j \/ j < i
    BY <1>2
  <2>2. at[i] < at[j] \/ at[j] < at[i]
    BY <1>1, <2>1 DEF Increasing
  <2>3. at[i] \in Nat
    BY <1>1
  <2> QED BY <2>2, <2>3
<1>4. at \in Injection(1..Cardinality(S), S)
  BY <1>1, <1>3 DEF Injection, IsInjective
<1>5. Cardinality(1..Cardinality(S)) = Cardinality(S)
  BY <1>2, FS_Interval
<1>6. at \in Surjection(1..Cardinality(S), S)
  BY <1>4, <1>5, FS_Injection
<1>7. \A s \in S : \E i \in DOMAIN at : at[i] = s
  BY <1>1, <1>6 DEF Surjection
<1> QED BY <1>1, <1>3, <1>7 DEF at

(* The members of a set, each once.                                        *)
LEMMA SetToSeqType ==
  ASSUME NEW S, IsFiniteSet(S)
  PROVE  /\ SetToSeq(S) \in [1..Cardinality(S) -> S]
         /\ \A i, j \in DOMAIN SetToSeq(S) : SetToSeq(S)[i] = SetToSeq(S)[j] => i = j
         /\ \A s \in S : \E i \in DOMAIN SetToSeq(S) : SetToSeq(S)[i] = s
<1> DEFINE q == SetToSeq(S)
<1>1. PICK f : f \in Bijection(1..Cardinality(S), S)
  BY FS_CardinalityType DEF ExistsBijection
<1>2. f \in [1..Cardinality(S) -> S] /\ IsInjective(f)
  BY <1>1 DEF Bijection, Injection, IsInjective
<1>3. q \in [1..Cardinality(S) -> S] /\ IsInjective(q)
  BY <1>2 DEF SetToSeq
<1> HIDE DEF q
<1>4. \A i, j \in DOMAIN q : q[i] = q[j] => i = j
  BY <1>3 DEF IsInjective
<1>5. q \in Injection(1..Cardinality(S), S)
  BY <1>3, <1>4 DEF Injection, IsInjective
<1>6. Cardinality(1..Cardinality(S)) = Cardinality(S)
  BY FS_CardinalityType, FS_Interval
<1>7. q \in Surjection(1..Cardinality(S), S)
  BY <1>5, <1>6, FS_Injection
<1>8. \A s \in S : \E i \in DOMAIN q : q[i] = s
  BY <1>3, <1>7 DEF Surjection
<1> QED BY <1>3, <1>4, <1>8 DEF q

---------------------------------------------------------------------------
(* Types.                                                                  *)
Added == [id : UsbId, count : Nat \ {0}]
Offer == [id : UsbId, present : Nat \ {0}]

TypeOK ==
  /\ plugged \in [Port -> UsbId \cup {None}]
  /\ allowed \subseteq UsbId /\ refused \subseteq UsbId
  /\ disk \in [Path -> Config \cup {None}] /\ unreadable \subseteq Path
  /\ daemon \in [path : Path, config : Config]
  /\ editor \in [path : Path \cup {None}, loaded : Config, config : Config, read : BOOLEAN,
                 origin : Path \cup {None}]
  /\ offers \in [adds : SUBSET Offer, expansions : SUBSET SUBSET Added]
  /\ \A adds \in offers.expansions : IsFiniteSet(adds)
  /\ rows \in [instances : [UsbId -> Nat], shown : (SUBSET UsbId) \cup {None},
               present : [UsbId -> Nat \ {0}]]
  /\ wanted \subseteq UsbId
  /\ plugs \in Nat /\ edits \in Nat /\ rooted \in Nat

(* The devices of a configuration are a list of entries; changing it is    *)
(* all an editing of them does.                                            *)
LEMMA ConfigType ==
  ASSUME NEW c \in Config
  PROVE  /\ c.devices \in Seq(Entry) /\ Len(c.devices) \in Nat /\ DOMAIN c.devices = 1..Len(c.devices)
         /\ \A i \in DOMAIN c.devices : c.devices[i] \in Entry /\ c.devices[i].count \in Nat
         /\ \A q \in Seq(Entry) : /\ [c EXCEPT !.devices = q] \in Config
                                  /\ [c EXCEPT !.devices = q].devices = q
                                  /\ [c EXCEPT !.devices = q].commands = c.commands
<1>1. c.devices \in Seq(Entry)
  BY DEF Config
<1>2. \A i \in DOMAIN c.devices : c.devices[i] \in Entry
  BY <1>1, ElementOfSeq, LenProperties
<1>3. \A e \in Entry : e.count \in Nat
  BY DEF Entry
<1>4. \A q \in Seq(Entry) : /\ [c EXCEPT !.devices = q] \in Config
                            /\ [c EXCEPT !.devices = q].devices = q
                            /\ [c EXCEPT !.devices = q].commands = c.commands
  BY DEF Config
<1> QED BY <1>1, <1>2, <1>3, <1>4, LenProperties

(* So many numbers.                                                        *)
LEMMA CountTo == ASSUME NEW n \in Nat PROVE IsFiniteSet(1..n) /\ Cardinality(1..n) = n
<1>1. n \in Int /\ 1 \in Int
  OBVIOUS
<1> QED BY <1>1, FS_Interval

(* What is listed is listed first somewhere.                               *)
LEMMA FirstListedType ==
  ASSUME NEW c \in Config, NEW id, Listed(c, id)
  PROVE  /\ FirstListed(c, id) \in DOMAIN c.devices
         /\ c.devices[FirstListed(c, id)].id = id
<1> DEFINE S == {i \in DOMAIN c.devices : c.devices[i].id = id}
<1>1. DOMAIN c.devices = 1..Len(c.devices) /\ Len(c.devices) \in Nat
  BY ConfigType
<1>2. S # {} /\ S \in SUBSET Nat
  BY <1>1 DEF Listed
<1>3. PICK m \in S : \A k \in S : m <= k
  <2> HIDE DEF S
  <2> QED BY <1>2, LeastOf
<1>4. \A j \in 1..(m - 1) : c.devices[j].id # id
  BY <1>1, <1>3
<1> QED BY <1>3, <1>4 DEF FirstListed

(* The instances entries stand for can be counted; there is one unless     *)
(* nothing is listed.                                                      *)
LEMMA CopiesAre ==
  ASSUME NEW c \in Config, NEW id
  PROVE  \A x : x \in Copies(c, id) <=>
           \E i \in DOMAIN c.devices : \E k \in 1..c.devices[i].count : c.devices[i].id = id /\ x = <<i, k>>
BY DEF Copies

LEMMA TotalType ==
  ASSUME NEW c \in Config, NEW id
  PROVE  IsFiniteSet(Copies(c, id)) /\ Total(c, id) \in Nat
<1> DEFINE S == {i \in DOMAIN c.devices : c.devices[i].id = id}
           f == [i \in S |-> {i} \X (1..c.devices[i].count)]
           T == {{i} \X (1..c.devices[i].count) : i \in S}
<1>1. IsFiniteSet(S)
  <2>1. IsFiniteSet(1..Len(c.devices)) /\ S \subseteq 1..Len(c.devices)
    BY ConfigType, CountTo
  <2> HIDE DEF S
  <2> QED BY <2>1, FS_Subset
<1>2. f \in Surjection(S, T)
  BY DEF Surjection
<1>3. IsFiniteSet(T)
  <2> HIDE DEF f, S, T
  <2> QED BY <1>1, <1>2, FS_Surjection
<1>4. \A t \in T : IsFiniteSet(t)
  <2> SUFFICES ASSUME NEW i \in S PROVE IsFiniteSet({i} \X (1..c.devices[i].count))
    OBVIOUS
  <2>1. c.devices[i].count \in Nat
    BY ConfigType
  <2>2. IsFiniteSet({i}) /\ IsFiniteSet(1..c.devices[i].count)
    BY <2>1, FS_Singleton, CountTo
  <2> QED BY <2>2, FS_Product
<1>5. IsFiniteSet(UNION T)
  <2> HIDE DEF T
  <2> QED BY <1>3, <1>4, FS_UNION
<1>6. Copies(c, id) = UNION T
  BY DEF Copies
<1> QED BY <1>5, <1>6, FS_CardinalityType DEF Total

(* An entry stands for as many as it says.                                 *)
LEMMA TotalCovers ==
  ASSUME NEW c \in Config, NEW i \in DOMAIN c.devices
  PROVE  c.devices[i].count <= Total(c, c.devices[i].id)
<1> DEFINE n == c.devices[i].count
<1>1. n \in Nat
  BY ConfigType
<1>2. {i} \X (1..n) \subseteq Copies(c, c.devices[i].id)
  BY CopiesAre
<1>3. IsFiniteSet({i}) /\ IsFiniteSet(1..n) /\ Cardinality({i}) = 1 /\ Cardinality(1..n) = n
  BY <1>1, FS_Singleton, CountTo
<1>4. Cardinality({i} \X (1..n)) = n
  <2>1. Cardinality({i} \X (1..n)) = Cardinality({i}) * Cardinality(1..n)
    BY <1>3, FS_Product
  <2> HIDE DEF n
  <2> QED BY <1>1, <1>3, <2>1
<1>5. Cardinality({i} \X (1..n)) <= Cardinality(Copies(c, c.devices[i].id))
  BY <1>2, TotalType, FS_Subset
<1> QED BY <1>4, <1>5 DEF Total

LEMMA TotalPositive ==
  ASSUME NEW c \in Config, NEW id
  PROVE  /\ Total(c, id) > 0 => Listed(c, id)
         /\ ~Listed(c, id) => Total(c, id) = 0
<1>1. ASSUME ~Listed(c, id) PROVE Total(c, id) = 0
  <2>1. Copies(c, id) = {}
    BY <1>1, CopiesAre DEF Listed
  <2> QED BY <2>1, FS_EmptySet DEF Total
<1> QED BY <1>1

---------------------------------------------------------------------------
(* Editing a list: no entry stands for nothing, and each names a device of *)
(* its own.                                                                *)
Counted(c) == \A i \in DOMAIN c.devices : c.devices[i].count > 0

Once(c) == \A i, j \in DOMAIN c.devices : c.devices[i].id = c.devices[j].id => i = j

(* An editing that lists ids as well, and keeps the rest.                  *)
Lists(c, d, ids) ==
  /\ d \in Config /\ d.commands = c.commands
  /\ \A x : Listed(d, x) <=> Listed(c, x) \/ x \in ids
  /\ Counted(c) => Counted(d)

LEMMA ListType ==
  ASSUME NEW S, NEW n \in Nat, NEW q \in [1..n -> S]
  PROVE  q \in Seq(S) /\ DOMAIN q = 1..n
BY SeqDef

LEMMA ListAddLists ==
  ASSUME NEW c \in Config, NEW id \in Spelling
  PROVE  /\ Lists(c, ListAdd(c, id), {id})
         /\ Once(c) => Once(ListAdd(c, id))
         /\ ~Listed(c, id) => Total(ListAdd(c, id), id) = 1
<1>1. CASE Listed(c, id)
  <2>1. ListAdd(c, id) = c
    BY <1>1 DEF ListAdd
  <2> QED BY <1>1, <2>1 DEF Lists
<1>2. CASE ~Listed(c, id)
  <2> DEFINE e == [id |-> id, count |-> 1]
             q == Append(c.devices, e)
             d == ListAdd(c, id)
             n == Len(c.devices)
  <2>1. e \in Entry
    BY DEF Entry
  <2>2. /\ q \in Seq(Entry) /\ n \in Nat /\ DOMAIN c.devices = 1..n /\ DOMAIN q = 1..(n + 1)
        /\ q[n + 1] = e /\ \A i \in 1..n : q[i] = c.devices[i]
    BY <2>1, ConfigType, AppendProperties
  <2>3. d \in Config /\ d.devices = q /\ d.commands = c.commands
    <3>1. d = [c EXCEPT !.devices = q]
      BY <1>2 DEF ListAdd
    <3> HIDE DEF q, d
    <3> QED BY <2>2, <3>1, ConfigType
  <2> HIDE DEF q, d
  <2>4. \A x : Listed(d, x) <=> Listed(c, x) \/ x = id
    <3>1. ASSUME NEW x, Listed(d, x) PROVE Listed(c, x) \/ x = id
      BY <2>2, <2>3, <3>1 DEF Listed
    <3>2. ASSUME NEW x, Listed(c, x) PROVE Listed(d, x)
      BY <2>2, <2>3, <3>2 DEF Listed
    <3>3. Listed(d, id)
      <4>1. n + 1 \in DOMAIN q /\ q[n + 1].id = id
        BY <2>2
      <4> QED BY <2>3, <4>1 DEF Listed
    <3> QED BY <3>1, <3>2, <3>3
  <2>5. Counted(c) => Counted(d)
    BY <2>2, <2>3 DEF Counted
  <2>6. Once(c) => Once(d)
    <3> SUFFICES ASSUME Once(c), NEW i \in DOMAIN q, NEW j \in DOMAIN q, q[i].id = q[j].id PROVE i = j
      BY <2>3 DEF Once
    <3>1. \A k \in 1..n : c.devices[k].id # id
      BY <1>2, <2>2 DEF Listed
    <3>2. \A k \in DOMAIN q : k \in 1..n \/ k = n + 1
      BY <2>2
    <3>3. CASE i \in 1..n /\ j \in 1..n
      <4>1. c.devices[i].id = c.devices[j].id /\ i \in DOMAIN c.devices /\ j \in DOMAIN c.devices
        BY <2>2, <3>3
      <4> QED BY <4>1 DEF Once
    <3>4. CASE ~(i \in 1..n /\ j \in 1..n)
      BY <2>2, <3>1, <3>2, <3>4
    <3> QED BY <3>3, <3>4
  <2>7. Total(d, id) = 1
    <3>1. Copies(d, id) = {<<n + 1, 1>>}
      <4>1. \A x : x \in Copies(d, id) <=>
              \E i \in 1..(n + 1) : \E k \in 1..q[i].count : q[i].id = id /\ x = <<i, k>>
        <5>1. DOMAIN d.devices = 1..(n + 1) /\ d.devices = q /\ d \in Config
          BY <2>2, <2>3
        <5> HIDE DEF n, e
        <5>2. \A x : x \in Copies(d, id) <=>
                \E i \in DOMAIN d.devices : \E k \in 1..d.devices[i].count : d.devices[i].id = id /\ x = <<i, k>>
          BY DEF Copies
        <5> QED BY <5>1, <5>2, Zenon
      <4>2. \A i \in 1..n : q[i].id # id
        BY <1>2, <2>2 DEF Listed
      <4>3. \A i \in 1..(n + 1) : i \in 1..n \/ i = n + 1
        BY <2>2
      <4>4. \A x : x \in Copies(d, id) => x = <<n + 1, 1>>
        BY <2>2, <4>1, <4>2, <4>3
      <4>5. <<n + 1, 1>> \in Copies(d, id)
        <5>1. n + 1 \in 1..(n + 1) /\ 1 \in 1..q[n + 1].count /\ q[n + 1].id = id
          BY <2>2
        <5> QED BY <4>1, <5>1
      <4> QED BY <4>4, <4>5
    <3> QED BY <3>1, FS_Singleton DEF Total
  <2> QED BY <1>2, <2>3, <2>4, <2>5, <2>6, <2>7 DEF Lists, d
<1> QED BY <1>1, <1>2

(* Raising the entry that is listed first by one.                          *)
LEMMA RaiseLists ==
  ASSUME NEW c \in Config, NEW id, Listed(c, id)
  PROVE  LET d == [c EXCEPT !.devices[FirstListed(c, id)].count = @ + 1]
         IN  /\ Lists(c, d, {id})
             /\ Once(c) => Once(d)
             /\ Total(d, id) = Total(c, id) + 1
<1> DEFINE f == FirstListed(c, id)
           n == Len(c.devices)
           m == c.devices[f].count
           q == [c.devices EXCEPT ![f] = [id |-> c.devices[f].id, count |-> m + 1]]
           d == [c EXCEPT !.devices[f].count = @ + 1]
<1>1. f \in 1..n /\ n \in Nat /\ DOMAIN c.devices = 1..n /\ c.devices[f].id = id /\ m \in Nat
  BY ConfigType, FirstListedType
<1>2. \A i \in 1..n : c.devices[i] \in Entry
  BY ConfigType
<1>3. q \in Seq(Entry) /\ DOMAIN q = 1..n
  <2>1. [id |-> c.devices[f].id, count |-> m + 1] \in Entry
    BY <1>1, <1>2 DEF Entry
  <2>2. c.devices \in [1..n -> Entry]
    BY <1>1, <1>2, ConfigType, SeqDef, ElementOfSeq
  <2>3. q \in [1..n -> Entry]
    BY <1>1, <2>1, <2>2
  <2> HIDE DEF q
  <2> QED BY <1>1, <2>3, ListType
<1>4. q[f].id = id /\ q[f].count = m + 1 /\ \A i \in 1..n : i # f => q[i] = c.devices[i]
  BY <1>1
<1>5. d = [c EXCEPT !.devices = q]
  <2>1. c.devices[f] \in Entry
    BY <1>1, <1>2
  <2>2. [c.devices[f] EXCEPT !.count = @ + 1] = [id |-> c.devices[f].id, count |-> m + 1]
    BY <2>1 DEF Entry
  <2> QED BY <2>2
<1>6. d \in Config /\ d.devices = q /\ d.commands = c.commands
  <2> HIDE DEF q, d
  <2> QED BY <1>3, <1>5, ConfigType
<1> HIDE DEF q, d
<1>7. Lists(c, d, {id})
  <2>1. \A x : Listed(d, x) <=> Listed(c, x) \/ x = id
    BY <1>1, <1>3, <1>4, <1>6 DEF Listed
  <2>2. Counted(c) => Counted(d)
    BY <1>1, <1>3, <1>4, <1>6 DEF Counted
  <2> QED BY <1>6, <2>1, <2>2 DEF Lists
<1>8. Once(c) => Once(d)
  BY <1>1, <1>3, <1>4, <1>6 DEF Once
<1>9. Total(d, id) = Total(c, id) + 1
  <2>1. Copies(d, id) = Copies(c, id) \cup {<<f, m + 1>>}
    <3>1. \A x : x \in Copies(d, id) <=>
            \E i \in 1..n : \E k \in 1..q[i].count : q[i].id = id /\ x = <<i, k>>
      BY <1>3, <1>6, CopiesAre
    <3>2. \A x : x \in Copies(c, id) <=>
            \E i \in 1..n : \E k \in 1..c.devices[i].count : c.devices[i].id = id /\ x = <<i, k>>
      BY <1>1, CopiesAre
    <3>3. 1..(m + 1) = (1..m) \cup {m + 1}
      BY <1>1
    <3>4. ASSUME NEW x, x \in Copies(d, id) PROVE x \in Copies(c, id) \/ x = <<f, m + 1>>
      <4>1. PICK i \in 1..n : \E k \in 1..q[i].count : q[i].id = id /\ x = <<i, k>>
        BY <3>1, <3>4
      <4> QED BY <1>1, <1>4, <3>2, <3>3, <4>1
    <3>5. ASSUME NEW x, x \in Copies(c, id) PROVE x \in Copies(d, id)
      <4>1. PICK i \in 1..n : \E k \in 1..c.devices[i].count : c.devices[i].id = id /\ x = <<i, k>>
        BY <3>2, <3>5
      <4>2. PICK k \in 1..c.devices[i].count : c.devices[i].id = id /\ x = <<i, k>>
        BY <4>1
      <4>3. k \in 1..q[i].count /\ q[i].id = id
        BY <1>1, <1>4, <3>3, <4>2
      <4> QED BY <3>1, <4>2, <4>3
    <3>6. <<f, m + 1>> \in Copies(d, id)
      <4>1. m + 1 \in 1..q[f].count
        BY <1>1, <1>4
      <4> QED BY <1>1, <1>4, <3>1, <4>1
    <3> QED BY <3>4, <3>5, <3>6
  <2>2. <<f, m + 1>> \notin Copies(c, id)
    <3>1. ASSUME NEW i \in DOMAIN c.devices, NEW k \in 1..c.devices[i].count, <<f, m + 1>> = <<i, k>>
          PROVE  FALSE
      <4>1. i = f /\ k = m + 1
        BY <3>1
      <4> QED BY <1>1, <4>1
    <3> QED BY <3>1, CopiesAre
  <2> QED BY <2>1, <2>2, TotalType, FS_AddElement DEF Total
<1> QED BY <1>7, <1>8, <1>9 DEF d

LEMMA CoverLists ==
  ASSUME NEW c \in Config, NEW id \in Spelling, NEW present
  PROVE  /\ Lists(c, ListCoverOne(c, id, present), {id})
         /\ Once(c) => Once(ListCoverOne(c, id, present))
<1>1. CASE ~Listed(c, id)
  BY <1>1, ListAddLists DEF ListCoverOne
<1>2. CASE Listed(c, id)
  <2>1. Lists(c, c, {id})
    BY <1>2 DEF Lists
  <2> QED BY <1>2, <2>1, RaiseLists DEF ListCoverOne
<1> QED BY <1>1, <1>2

(* What is not removed stays as it is.                                     *)
LEMMA RemoveKeeps ==
  ASSUME NEW c \in Config, NEW entry
  PROVE  LET d == ListRemove(c, entry)
         IN  /\ d \in Config /\ d.commands = c.commands
             /\ \A x : Listed(d, x) <=> Listed(c, x) /\ x # entry
             /\ Counted(c) => Counted(d)
             /\ Once(c) => Once(d)
<1> DEFINE S == {i \in DOMAIN c.devices : c.devices[i].id # entry}
           at == InOrder(S)
           q == [k \in DOMAIN at |-> c.devices[at[k]]]
           d == ListRemove(c, entry)
<1>1. S \in SUBSET Nat /\ IsFiniteSet(S) /\ Cardinality(S) \in Nat
  <2>1. S \subseteq 1..Len(c.devices) /\ IsFiniteSet(1..Len(c.devices))
    BY ConfigType, CountTo
  <2>2. 1..Len(c.devices) \subseteq Nat
    BY ConfigType
  <2> HIDE DEF S
  <2> QED BY <2>1, <2>2, FS_Subset, FS_CardinalityType
<1>2. /\ at \in [1..Cardinality(S) -> S]
      /\ \A i, j \in DOMAIN at : at[i] = at[j] => i = j
      /\ \A s \in S : \E i \in DOMAIN at : at[i] = s
  <2> HIDE DEF S
  <2> QED BY <1>1, InOrderType
<1> DEFINE n == Cardinality(S)
<1>3. q \in Seq(Entry) /\ DOMAIN q = 1..n
  <2>1. \A k \in 1..n : at[k] \in DOMAIN c.devices
    BY <1>2
  <2>2. q \in [1..n -> Entry]
    <3> HIDE DEF at, S
    <3> QED BY <1>2, <2>1, ConfigType
  <2> HIDE DEF q, at, S
  <2> QED BY <1>1, <2>2, ListType
<1>4. d \in Config /\ d.devices = q /\ d.commands = c.commands
  <2>1. d = [c EXCEPT !.devices = q]
    BY DEF ListRemove
  <2> HIDE DEF q, d
  <2> QED BY <1>3, <2>1, ConfigType
<1>5. \A k \in 1..n : /\ at[k] \in DOMAIN c.devices /\ q[k] = c.devices[at[k]] /\ q[k].id # entry
  BY <1>2
<1>6. \A i \in DOMAIN c.devices : c.devices[i].id # entry => \E k \in 1..n : at[k] = i /\ q[k] = c.devices[i]
  BY <1>2
<1> HIDE DEF q, d, at, n, S
<1>7. \A x : Listed(d, x) <=> Listed(c, x) /\ x # entry
  BY <1>3, <1>4, <1>5, <1>6 DEF Listed
<1>8. Counted(c) => Counted(d)
  BY <1>3, <1>4, <1>5 DEF Counted
<1>9. Once(c) => Once(d)
  <2> SUFFICES ASSUME Once(c), NEW i \in 1..n, NEW j \in 1..n, q[i].id = q[j].id PROVE i = j
    BY <1>3, <1>4 DEF Once
  <2>1. at[i] = at[j]
    BY <1>5 DEF Once
  <2> QED BY <1>2, <2>1 DEF n
<1> QED BY <1>4, <1>7, <1>8, <1>9 DEF d

(* What is raised is named by what was added, and stands for more.         *)
LEMMA RaisedType ==
  ASSUME NEW e \in Entry, NEW adds \in SUBSET Added
  PROVE  /\ Raised(e, adds) \in Entry /\ Raised(e, adds).id = e.id
         /\ e.count > 0 => Raised(e, adds).count > 0
<1> DEFINE more == {a \in adds : a.id = e.id /\ a.count > e.count}
<1>1. CASE more = {}
  <2>1. Raised(e, adds) = e
    BY <1>1 DEF Raised
  <2> QED BY <2>1
<1>2. CASE more # {}
  <2>1. Raised(e, adds) \in more
    BY <1>2 DEF Raised
  <2>2. Raised(e, adds) \in Added /\ Raised(e, adds).id = e.id
    BY <2>1
  <2>3. \A a \in Added : a \in Entry /\ a.count > 0
    BY SettingsAssumption DEF Added, Entry
  <2> QED BY <2>2, <2>3
<1> QED BY <1>1, <1>2

(* Adding what is behind a port lists each of it, once.                    *)
Folded(adds) == \A a, b \in adds : a.id = b.id => a = b

LEMMA ExpandedLists ==
  ASSUME NEW c \in Config, NEW adds \in SUBSET Added, IsFiniteSet(adds)
  PROVE  /\ Lists(c, Expanded(c, adds), {a.id : a \in adds})
         /\ Once(c) /\ Folded(adds) => Once(Expanded(c, adds))
<1> DEFINE raised == [i \in DOMAIN c.devices |->
                        IF FirstListed(c, c.devices[i].id) = i THEN Raised(c.devices[i], adds)
                        ELSE c.devices[i]]
           fresh == {a \in adds : ~Listed(c, a.id)}
           new == SetToSeq(fresh)
           n == Len(c.devices)
           m == Cardinality(fresh)
           q == raised \o new
           d == Expanded(c, adds)
<1>1. n \in Nat /\ DOMAIN c.devices = 1..n /\ \A i \in 1..n : c.devices[i] \in Entry
  BY ConfigType
<1>2. /\ \A i \in 1..n : /\ raised[i] \in Entry /\ raised[i].id = c.devices[i].id
                         /\ c.devices[i].count > 0 => raised[i].count > 0
  BY <1>1, RaisedType
<1>3. raised \in Seq(Entry) /\ Len(raised) = n
  <2>1. raised \in [1..n -> Entry]
    BY <1>1, <1>2
  <2> HIDE DEF raised
  <2>2. raised \in Seq(Entry) /\ DOMAIN raised = 1..n
    BY <1>1, <2>1, ListType
  <2> QED BY <1>1, <2>2, LenProperties
<1>4. IsFiniteSet(fresh) /\ m \in Nat
  <2>1. fresh \subseteq adds
    OBVIOUS
  <2> HIDE DEF fresh
  <2> QED BY <2>1, FS_Subset, FS_CardinalityType
<1>5. /\ new \in [1..m -> fresh]
      /\ \A i, j \in DOMAIN new : new[i] = new[j] => i = j
      /\ \A s \in fresh : \E i \in DOMAIN new : new[i] = s
  <2> HIDE DEF fresh
  <2> QED BY <1>4, SetToSeqType
<1>6. \A a \in fresh : a \in Entry /\ a.count > 0 /\ a \in adds /\ ~Listed(c, a.id)
  BY SettingsAssumption DEF Added, Entry
<1> HIDE DEF raised, fresh, new, n, m
<1>7. new \in Seq(Entry) /\ Len(new) = m
  <2>1. new \in [1..m -> Entry]
    BY <1>5, <1>6
  <2>2. new \in Seq(Entry) /\ DOMAIN new = 1..m
    BY <1>4, <2>1, ListType
  <2> QED BY <1>4, <2>2, LenProperties
<1>8. /\ q \in Seq(Entry) /\ DOMAIN q = 1..(n + m)
      /\ \A i \in 1..n : q[i] = raised[i]
      /\ \A i \in 1..m : q[n + i] = new[i]
      /\ \A i \in 1..(n + m) : i \in 1..n \/ (i - n \in 1..m /\ q[i] = new[i - n])
  <2>1. /\ q \in Seq(Entry) /\ Len(q) = n + m
        /\ \A i \in 1..(n + m) : q[i] = IF i <= n THEN raised[i] ELSE new[i - n]
    BY <1>3, <1>7, ConcatProperties
  <2>2. DOMAIN q = 1..(n + m)
    BY <2>1, LenProperties
  <2> HIDE DEF q
  <2>3. \A i \in 1..n : q[i] = raised[i]
    BY <1>1, <1>4, <2>1
  <2>4. \A i \in 1..m : q[n + i] = new[i]
    <3> TAKE i \in 1..m
    <3>1. n + i \in 1..(n + m) /\ ~(n + i <= n) /\ (n + i) - n = i
      BY <1>1, <1>4
    <3> QED BY <2>1, <3>1
  <2>5. \A i \in 1..(n + m) : i \in 1..n \/ (i - n \in 1..m /\ q[i] = new[i - n])
    BY <1>1, <1>4, <2>1
  <2> QED BY <2>1, <2>2, <2>3, <2>4, <2>5
<1>9. d \in Config /\ d.devices = q /\ d.commands = c.commands
  <2>1. d = [c EXCEPT !.devices = q]
    BY DEF Expanded, raised, new, fresh
  <2> HIDE DEF q, d
  <2> QED BY <1>8, <2>1, ConfigType
<1> HIDE DEF q, d
<1>10. \A x : Listed(d, x) <=> Listed(c, x) \/ x \in {a.id : a \in adds}
  <2>1. ASSUME NEW x, Listed(d, x) PROVE Listed(c, x) \/ \E a \in adds : a.id = x
    <3>1. PICK i \in 1..(n + m) : q[i].id = x
      BY <1>8, <1>9, <2>1 DEF Listed
    <3>2. CASE i \in 1..n
      BY <1>1, <1>2, <1>8, <3>1, <3>2 DEF Listed
    <3>3. CASE i \notin 1..n
      <4>1. i - n \in 1..m /\ q[i] = new[i - n]
        BY <1>8, <3>3
      <4>2. q[i] \in fresh
        BY <1>5, <4>1
      <4> QED BY <1>6, <3>1, <4>2
    <3> QED BY <3>2, <3>3
  <2>2. ASSUME NEW x, Listed(c, x) PROVE Listed(d, x)
    <3>1. PICK i \in 1..n : c.devices[i].id = x
      BY <1>1, <2>2 DEF Listed
    <3>2. i \in 1..(n + m) /\ q[i].id = x
      BY <1>1, <1>2, <1>4, <1>8, <3>1
    <3> QED BY <1>8, <1>9, <3>2 DEF Listed
  <2>3. ASSUME NEW a \in adds, ~Listed(c, a.id) PROVE Listed(d, a.id)
    <3>1. a \in fresh
      BY <2>3 DEF fresh
    <3>2. PICK i \in 1..m : new[i] = a
      BY <1>5, <3>1
    <3>3. n + i \in 1..(n + m) /\ q[n + i] = a
      BY <1>1, <1>4, <1>8, <3>2
    <3> QED BY <1>8, <1>9, <3>3 DEF Listed
  <2> QED BY <2>1, <2>2, <2>3
<1>11. Counted(c) => Counted(d)
  <2> SUFFICES ASSUME Counted(c), NEW i \in 1..(n + m) PROVE q[i].count > 0
    BY <1>8, <1>9 DEF Counted
  <2>1. CASE i \in 1..n
    BY <1>1, <1>2, <1>8, <2>1 DEF Counted
  <2>2. CASE i \notin 1..n
    <3>1. i - n \in 1..m /\ q[i] = new[i - n]
      BY <1>8, <2>2
    <3>2. q[i] \in fresh
      BY <1>5, <3>1
    <3> QED BY <1>6, <3>2
  <2> QED BY <2>1, <2>2
<1>12. Once(c) /\ Folded(adds) => Once(d)
  <2> SUFFICES ASSUME Once(c), Folded(adds), NEW i \in 1..(n + m), NEW j \in 1..(n + m), q[i].id = q[j].id
               PROVE  i = j
    BY <1>8, <1>9 DEF Once
  <2>1. \A k \in 1..n : q[k].id = c.devices[k].id /\ Listed(c, q[k].id)
    BY <1>1, <1>2, <1>8 DEF Listed
  <2>2. \A k \in 1..(n + m) : k \notin 1..n =>
          k - n \in 1..m /\ q[k] = new[k - n] /\ q[k] \in adds /\ ~Listed(c, q[k].id)
    BY <1>5, <1>6, <1>8
  <2>3. CASE i \in 1..n /\ j \in 1..n
    BY <1>1, <2>1, <2>3 DEF Once
  <2>4. CASE i \notin 1..n /\ j \notin 1..n
    <3>1. q[i] = q[j]
      BY <2>2, <2>4 DEF Folded
    <3>2. i - n = j - n
      BY <1>5, <2>2, <2>4, <3>1
    <3> QED BY <1>1, <1>4, <3>2
  <2>5. CASE i \in 1..n /\ j \notin 1..n
    BY <2>1, <2>2, <2>5
  <2>6. CASE i \notin 1..n /\ j \in 1..n
    BY <2>1, <2>2, <2>6
  <2> QED BY <2>3, <2>4, <2>5, <2>6
<1> QED BY <1>9, <1>10, <1>11, <1>12 DEF Lists, d

---------------------------------------------------------------------------
(* The panels.                                                             *)
LEMMA PortsType ==
  ASSUME NEW S \in SUBSET Port
  PROVE  IsFiniteSet(S) /\ Cardinality(S) \in Nat /\ (S # {} => Cardinality(S) > 0)
<1>1. IsFiniteSet(S) /\ Cardinality(S) \in Nat
  BY SettingsAssumption, FS_Subset, FS_CardinalityType
<1>2. S # {} => Cardinality(S) # 0
  BY <1>1, FS_EmptySet
<1> QED BY <1>1, <1>2

LEMMA InstancesType ==
  ASSUME NEW listing
  PROVE  /\ Instances(listing) \in [UsbId -> Nat]
         /\ \A p \in Port : listing[p] \in UsbId => Instances(listing)[listing[p]] > 0
<1>1. \A id \in UsbId : Cardinality({p \in Port : listing[p] = id}) \in Nat
  <2> TAKE id \in UsbId
  <2> DEFINE S == {p \in Port : listing[p] = id}
  <2>1. S \in SUBSET Port
    OBVIOUS
  <2> HIDE DEF S
  <2>2. Cardinality(S) \in Nat
    BY <2>1, PortsType
  <2> QED BY <2>2 DEF S
<1>2. ASSUME NEW p \in Port, listing[p] \in UsbId PROVE Instances(listing)[listing[p]] > 0
  <2> DEFINE S == {q \in Port : listing[q] = listing[p]}
  <2>1. p \in S /\ S \in SUBSET Port
    OBVIOUS
  <2>2. Cardinality(S) > 0
    <3> HIDE DEF S
    <3> QED BY <2>1, PortsType
  <2> QED BY <1>2, <2>2 DEF Instances
<1> QED BY <1>1, <1>2 DEF Instances

(* A device is left to be added exactly when there are more of it than the *)
(* entries stand for: the last of them is preceded by all the others.      *)
LEMMA LeftIffMore ==
  ASSUME NEW c \in Config, NEW listing, NEW id
  PROVE  /\ \A p \in Port : listing[p] = id =>
              (TakesInstance(listing, c, p) \/ Total(c, id) < Cardinality({q \in Port : listing[q] = id}))
         /\ Total(c, id) < Cardinality({q \in Port : listing[q] = id}) =>
              \E p \in Port : listing[p] = id /\ ~TakesInstance(listing, c, p)
<1> DEFINE S == {q \in Port : listing[q] = id}
           B(p) == {q \in S : PortOrder[q] < PortOrder[p]}
<1>1. IsFiniteSet(S) /\ Cardinality(S) \in Nat /\ Total(c, id) \in Nat
  <2>1. S \in SUBSET Port
    OBVIOUS
  <2> HIDE DEF S
  <2> QED BY <2>1, PortsType, TotalType
<1>2. \A p \in S : Before(listing, p) = B(p)
  BY DEF Before
<1>3. PortOrder \in [Port -> Nat] /\ \A x, y \in Port : PortOrder[x] = PortOrder[y] => x = y
  BY SettingsAssumption DEF IsInjective
<1>4. ASSUME NEW p \in S PROVE IsFiniteSet(B(p)) /\ Cardinality(B(p)) \in Nat /\ Cardinality(B(p)) < Cardinality(S)
  <2>1. B(p) \subseteq S /\ p \notin B(p) /\ p \in S
    BY <1>3
  <2> HIDE DEF B, S
  <2>2. IsFiniteSet(B(p)) /\ Cardinality(B(p)) <= Cardinality(S) /\ Cardinality(B(p)) # Cardinality(S)
    BY <1>1, <2>1, FS_Subset
  <2> QED BY <1>1, <2>2, FS_CardinalityType
<1>5. ASSUME NEW p \in S PROVE TakesInstance(listing, c, p) \/ Total(c, id) < Cardinality(S)
  <2>1. ~TakesInstance(listing, c, p) => ~(Cardinality(B(p)) < Total(c, id))
    BY <1>2 DEF TakesInstance
  <2> HIDE DEF B, S
  <2> QED BY <1>1, <1>4, <1>5, <2>1
<1>6. ASSUME Total(c, id) < Cardinality(S) PROVE \E p \in S : ~TakesInstance(listing, c, p)
  <2> DEFINE f == [p \in S |-> PortOrder[p]]
  <2>1. S # {}
    BY <1>1, <1>6, FS_EmptySet
  <2>2. f \in [S -> Nat] /\ \A x, y \in S : f[x] = f[y] => x = y
    BY <1>3
  <2>3. PICK m \in S : \A k \in S : k # m => f[k] < f[m]
    <3> HIDE DEF f, S
    <3> QED BY <1>1, <2>1, <2>2, LastOf
  <2>4. B(m) = S \ {m}
    <3>1. \A q \in S : PortOrder[q] < PortOrder[m] <=> q # m
      <4>1. \A q \in S : q # m => PortOrder[q] < PortOrder[m]
        BY <2>3
      <4>2. PortOrder[m] \in Nat
        BY <1>3
      <4> QED BY <4>1, <4>2
    <3> QED BY <3>1
  <2>5. Cardinality(B(m)) = Cardinality(S) - 1
    <3> HIDE DEF B, S
    <3> QED BY <1>1, <2>3, <2>4, FS_RemoveElement
  <2>6. TakesInstance(listing, c, m) => Cardinality(B(m)) < Total(c, id)
    BY <1>2 DEF TakesInstance
  <2> HIDE DEF B, S
  <2> QED BY <1>1, <1>6, <2>3, <2>5, <2>6
<1> QED BY <1>5, <1>6

(* What a row asks to add, with all that hangs off it.                     *)
LEMMA ExpansionType ==
  ASSUME NEW listing \in [Port -> UsbId \cup {None}], NEW allowances, NEW c, NEW p \in Port
  PROVE  LET adds == Expansion(listing, allowances, c, p)
         IN  adds \in SUBSET Added /\ IsFiniteSet(adds) /\ Folded(adds)
<1> DEFINE behind == {q \in Behind[p] : listing[q] # None}
           open   == {listing[q] : q \in behind \cap Offered(listing, allowances, c)}
           of(id) == {q \in behind : listing[q] = id}
           adds   == {[id |-> id, count |-> Cardinality(of(id))] : id \in open}
<1>1. behind \in SUBSET Port /\ IsFiniteSet(behind)
  <2>1. behind \in SUBSET Port
    BY SettingsAssumption
  <2> HIDE DEF behind
  <2> QED BY <2>1, PortsType
<1>2. open \subseteq UsbId /\ \A id \in open : \E q \in behind : listing[q] = id
  BY <1>1
<1>3. \A id \in open : Cardinality(of(id)) \in Nat \ {0}
  <2> TAKE id \in open
  <2>1. of(id) \in SUBSET Port /\ of(id) # {}
    BY <1>1, <1>2
  <2>2. Cardinality(of(id)) \in Nat /\ Cardinality(of(id)) > 0
    BY <2>1, PortsType, Zenon
  <2> HIDE DEF of
  <2> QED BY <2>2
<1>4. adds \in SUBSET Added
  <2> HIDE DEF of, open
  <2> QED BY <1>2, <1>3 DEF Added
<1>5. IsFiniteSet(open)
  <2> DEFINE some == behind \cap Offered(listing, allowances, c)
             f == [q \in some |-> listing[q]]
  <2>1. some \in SUBSET Port
    BY <1>1
  <2>2. IsFiniteSet(some)
    <3> HIDE DEF some
    <3> QED BY <2>1, PortsType
  <2>3. f \in Surjection(some, open)
    BY DEF Surjection
  <2> HIDE DEF some, f, open
  <2> QED BY <2>2, <2>3, FS_Surjection
<1>6. IsFiniteSet(adds)
  <2> DEFINE f == [id \in open |-> [id |-> id, count |-> Cardinality(of(id))]]
  <2>1. f \in Surjection(open, adds)
    <3> HIDE DEF open, of
    <3> QED BY DEF Surjection
  <2> HIDE DEF f, open, adds
  <2> QED BY <1>5, <2>1, FS_Surjection
<1>7. Folded(adds)
  <2> HIDE DEF of, open
  <2> QED BY DEF Folded
<1>8. adds = Expansion(listing, allowances, c, p)
  BY DEF Expansion
<1> HIDE DEF adds
<1> QED BY <1>4, <1>6, <1>7, <1>8

LEMMA DrawType ==
  ASSUME plugged \in [Port -> UsbId \cup {None}], NEW c
  PROVE  /\ Draw(c) \in [adds : SUBSET Offer, expansions : SUBSET SUBSET Added]
         /\ \A adds \in Draw(c).expansions : IsFiniteSet(adds) /\ Folded(adds)
<1> DEFINE count == Instances(plugged)
           offered == {[id |-> plugged[p], present |-> count[plugged[p]]] : p \in Offered(plugged, allowed, c)}
           expanding == {Expansion(plugged, allowed, c, p) : p \in Expandable(plugged)} \ {{}}
<1>1. offered \in SUBSET Offer
  <2>1. \A p \in Offered(plugged, allowed, c) : p \in Port /\ plugged[p] \in UsbId
    BY DEF Offered
  <2>2. count \in [UsbId -> Nat] /\ \A p \in Port : plugged[p] \in UsbId => count[plugged[p]] > 0
    BY InstancesType
  <2> HIDE DEF count
  <2> QED BY <2>1, <2>2 DEF Offer
<1>2. \A adds \in expanding : adds \in SUBSET Added /\ IsFiniteSet(adds) /\ Folded(adds)
  <2>1. \A p \in Expandable(plugged) : p \in Port
    BY DEF Expandable
  <2> QED BY <2>1, ExpansionType
<1>3. Draw(c) = [adds |-> offered, expansions |-> expanding]
  BY DEF Draw
<1> HIDE DEF offered, expanding
<1> QED BY <1>1, <1>2, <1>3

---------------------------------------------------------------------------
(* Files, and the editor on one.                                           *)
Editor == [path : Path \cup {None}, loaded : Config, config : Config, read : BOOLEAN,
           origin : Path \cup {None}]

(* What the loader takes it takes as it is, clamped, and takes again.      *)
LEMMA ParseType ==
  ASSUME NEW text \in Config \cup {None}, Parse(text) # None
  PROVE  /\ text # None /\ text \in Config /\ Parse(text) \in Config
         /\ Parse(text).devices = text.devices /\ Parse(text).commands = text.commands
         /\ Counted(Parse(text))
         /\ Parse(Parse(text)) = Parse(text)
<1> DEFINE c == [text EXCEPT !.sleep_ms = Clamp(@)]
<1>1. text # None /\ Valid(text) /\ Parse(text) = c /\ text \in Config
  BY DEF Parse
<1>2. \A n \in Nat : Clamp(n) \in Nat /\ Clamp(Clamp(n)) = Clamp(n)
  BY SettingsAssumption DEF Clamp
<1>3. /\ c \in Config /\ c.devices = text.devices /\ c.commands = text.commands
      /\ c.interfaces = text.interfaces /\ c.sleep_ms = Clamp(text.sleep_ms) /\ text.sleep_ms \in Nat
  BY <1>1, <1>2 DEF Config
<1> HIDE DEF c
<1>4. Valid(c) /\ Counted(c)
  BY <1>1, <1>3 DEF Valid, Counted
<1>5. [c EXCEPT !.sleep_ms = Clamp(@)] = c
  <2>1. Clamp(c.sleep_ms) = c.sleep_ms
    BY <1>2, <1>3
  <2>2. [c EXCEPT !.sleep_ms = c.sleep_ms] = c
    BY <1>3 DEF Config
  <2> QED BY <2>1, <2>2
<1>6. Parse(c) = c
  <2>1. c # None
    BY <1>1
  <2> QED BY <1>4, <1>5, <2>1 DEF Parse
<1> QED BY <1>1, <1>3, <1>4, <1>6

LEMMA DefaultsType == Defaults \in Config /\ Counted(Defaults) /\ Once(Defaults)
BY SettingsAssumption DEF Counted, Once

(* A window that read its file shows it; one that did not shows defaults.  *)
LEMMA LoadType ==
  ASSUME NEW path \in Path, disk \in [Path -> Config \cup {None}]
  PROVE  /\ Load(path) \in Editor
         /\ Load(path).loaded = Load(path).config /\ Counted(Load(path).config)
         /\ Load(path).read => /\ Load(path).origin = path /\ disk[path] # None
                               /\ Load(path).config = Parse(disk[path])
                               /\ disk[path].commands = Load(path).config.commands
                               /\ disk[path].devices = Load(path).config.devices
         /\ ~Load(path).read => Load(path).config = Defaults
<1> DEFINE read == path \notin unreadable /\ Parse(disk[path]) # None
           c == IF read THEN Parse(disk[path]) ELSE Defaults
<1>1. disk[path] \in Config \cup {None}
  OBVIOUS
<1>2. c \in Config /\ Counted(c)
  BY <1>1, ParseType, DefaultsType
<1>3. Load(path) = [path |-> path, loaded |-> c, config |-> c, read |-> read,
                    origin |-> IF read THEN path ELSE None]
  BY DEF Load
<1>4. read \in BOOLEAN
  OBVIOUS
<1>5. read => /\ disk[path] # None /\ c = Parse(disk[path])
              /\ disk[path].commands = c.commands /\ disk[path].devices = c.devices
  BY <1>1, ParseType
<1>6. ~read => c = Defaults
  OBVIOUS
<1> HIDE DEF read, c
<1>7. Load(path) \in Editor
  BY <1>2, <1>3, <1>4 DEF Editor
<1> QED BY <1>2, <1>3, <1>5, <1>6, <1>7

(* Every step keeps the types.                                             *)
LEMMA EditTypes ==
  ASSUME TypeOK, NEW change \in Config, Edit(change), wanted' \subseteq UsbId
  PROVE  TypeOK' /\ editor'.config = change /\ editor'.loaded = editor.loaded
         /\ editor'.read = editor.read /\ editor'.origin = editor.origin
<1>1. editor \in Editor /\ edits \in Nat
  BY DEF TypeOK, Editor
<1>2. editor' = [editor EXCEPT !.config = change] /\ edits' = edits + 1
  BY DEF Edit
<1>3. editor' \in Editor /\ editor'.config = change /\ editor'.loaded = editor.loaded
      /\ editor'.read = editor.read /\ editor'.origin = editor.origin
  BY <1>1, <1>2 DEF Editor
<1>4. edits' \in Nat
  BY <1>1, <1>2
<1> QED BY <1>3, <1>4 DEF Edit, TypeOK, Editor

(* What a person does to the configuration, whichever way.                 *)
LEMMA Editing ==
  ASSUME TypeOK, TypeEntry \/ RemoveEntry \/ EditField \/ ClickAdd \/ ClickExpand \/ ClickViolation
  PROVE  \E d \in Config :
           /\ Edit(d) /\ d.commands = editor.config.commands
           /\ Counted(editor.config) => Counted(d)
           /\ wanted' \subseteq UsbId
           /\ \A id \in wanted' : id \in wanted \/ ~Listed(editor.loaded, id)
           /\ \A id \in wanted' : (id \in wanted => Listed(editor.config, id)) => Listed(d, id)
           /\ Once(editor.config) /\ (\A adds \in offers.expansions : Folded(adds)) => Once(d)
<1> DEFINE c == editor.config
<1>1. c \in Config /\ wanted \subseteq UsbId
  BY DEF TypeOK
<1>2. UsbId \subseteq Spelling /\ \A text \in Spelling : Norm[text] \in UsbId
  BY SettingsAssumption
<1>3. ASSUME NEW d, NEW ids \in SUBSET UsbId, Lists(c, d, ids), Edit(d), wanted' = wanted \cup Missing(ids),
             Once(c) /\ (\A adds \in offers.expansions : Folded(adds)) => Once(d)
      PROVE  \E e \in Config :
               /\ Edit(e) /\ e.commands = c.commands
               /\ Counted(c) => Counted(e)
               /\ wanted' \subseteq UsbId
               /\ \A id \in wanted' : id \in wanted \/ ~Listed(editor.loaded, id)
               /\ \A id \in wanted' : (id \in wanted => Listed(c, id)) => Listed(e, id)
               /\ Once(c) /\ (\A adds \in offers.expansions : Folded(adds)) => Once(e)
  <2>1. /\ d \in Config /\ d.commands = c.commands /\ (Counted(c) => Counted(d))
        /\ \A x : Listed(d, x) <=> Listed(c, x) \/ x \in ids
    BY <1>3 DEF Lists
  <2>2. wanted' \subseteq UsbId /\ \A id \in wanted' : id \in wanted \/ (id \in ids /\ ~Listed(editor.loaded, id))
    BY <1>1, <1>3 DEF Missing
  <2>3. \A id \in wanted' : (id \in wanted => Listed(c, id)) => Listed(d, id)
    BY <2>1, <2>2
  <2> HIDE DEF c
  <2> QED BY <1>3, <2>1, <2>2, <2>3
<1>4. CASE TypeEntry
  <2>1. PICK text \in Spelling : Edit(ListAdd(c, Norm[text])) /\ wanted' = wanted \cup Missing({Norm[text]})
    BY <1>4 DEF TypeEntry
  <2>2. Norm[text] \in UsbId /\ Norm[text] \in Spelling
    BY <1>2
  <2>3. Lists(c, ListAdd(c, Norm[text]), {Norm[text]}) /\ (Once(c) => Once(ListAdd(c, Norm[text])))
    BY <1>1, <2>2, ListAddLists
  <2> HIDE DEF c
  <2> QED BY <1>3, <2>1, <2>2, <2>3 DEF c
<1>5. CASE RemoveEntry
  <2>1. PICK i \in DOMAIN c.devices :
          Edit(ListRemove(c, c.devices[i].id)) /\ wanted' = wanted \ {c.devices[i].id}
    BY <1>5 DEF RemoveEntry
  <2> DEFINE d == ListRemove(c, c.devices[i].id)
  <2>2. /\ d \in Config /\ d.commands = c.commands
        /\ \A x : Listed(d, x) <=> Listed(c, x) /\ x # c.devices[i].id
        /\ Counted(c) => Counted(d)
        /\ Once(c) => Once(d)
    BY <1>1, RemoveKeeps
  <2> HIDE DEF d
  <2> QED BY <1>1, <2>1, <2>2 DEF d
<1>6. CASE EditField
  <2>1. PICK d : /\ Edit(d) /\ wanted' = wanted
                 /\ \/ \E n \in 0..SPIN_SLEEP : d = [c EXCEPT !.sleep_ms = n]
                    \/ \E links \in SUBSET Links : d = [c EXCEPT !.interfaces = links]
    BY <1>6 DEF EditField
  <2>2. d \in Config /\ d.commands = c.commands /\ d.devices = c.devices
    <3>1. \A n \in 0..SPIN_SLEEP : n \in Nat
      BY SettingsAssumption
    <3> HIDE DEF c
    <3> QED BY <1>1, <2>1, <3>1 DEF Config
  <2>3. (Counted(c) => Counted(d)) /\ (Once(c) => Once(d)) /\ \A x : Listed(d, x) <=> Listed(c, x)
    BY <2>2 DEF Counted, Once, Listed
  <2> QED BY <1>1, <2>1, <2>2, <2>3
<1>7. CASE ClickAdd
  <2>1. PICK r \in offers.adds :
          Edit(ListCoverOne(c, r.id, r.present)) /\ wanted' = wanted \cup Missing({r.id})
    BY <1>7 DEF ClickAdd
  <2>2. r.id \in UsbId /\ r.id \in Spelling
    BY <1>2 DEF TypeOK, Offer
  <2>3. /\ Lists(c, ListCoverOne(c, r.id, r.present), {r.id})
        /\ Once(c) => Once(ListCoverOne(c, r.id, r.present))
    BY <1>1, <2>2, CoverLists
  <2> HIDE DEF c
  <2> QED BY <1>3, <2>1, <2>2, <2>3 DEF c
<1>8. CASE ClickExpand
  <2>1. PICK adds \in offers.expansions :
          Edit(Expanded(c, adds)) /\ wanted' = wanted \cup Missing({a.id : a \in adds})
    BY <1>8 DEF ClickExpand
  <2>2. adds \in SUBSET Added /\ IsFiniteSet(adds)
    BY DEF TypeOK
  <2>3. {a.id : a \in adds} \in SUBSET UsbId
    BY <2>2 DEF Added
  <2>4. /\ Lists(c, Expanded(c, adds), {a.id : a \in adds})
        /\ Once(c) /\ Folded(adds) => Once(Expanded(c, adds))
    BY <1>1, <2>2, ExpandedLists
  <2> HIDE DEF c
  <2> QED BY <1>3, <2>1, <2>3, <2>4 DEF c
<1>9. CASE ClickViolation
  <2>1. PICK id \in rows.shown :
          /\ rows.shown # None
          /\ Edit(ListCoverOne(c, id, rows.present[id])) /\ wanted' = wanted \cup Missing({id})
    BY <1>9 DEF ClickViolation
  <2>2. id \in UsbId /\ id \in Spelling
    BY <1>2, <2>1 DEF TypeOK
  <2>3. /\ Lists(c, ListCoverOne(c, id, rows.present[id]), {id})
        /\ Once(c) => Once(ListCoverOne(c, id, rows.present[id]))
    BY <1>1, <2>2, CoverLists
  <2> HIDE DEF c
  <2> QED BY <1>3, <2>1, <2>2, <2>3 DEF c
<1> QED BY <1>4, <1>5, <1>6, <1>7, <1>8, <1>9

(* An update of the window leaves the editor, but for its path, or loads.  *)
LEMMA Opening ==
  ASSUME TypeOK, UpdateWindow
  PROVE  /\ editor' \in Editor
         /\ \/ editor' = Load(daemon.path) /\ editor.config = editor.loaded
            \/ /\ editor'.config = editor.config /\ editor'.loaded = editor.loaded
               /\ editor'.read = editor.read /\ editor'.origin = editor.origin
<1>1. editor \in Editor /\ daemon.path \in Path /\ disk \in [Path -> Config \cup {None}]
  BY DEF TypeOK, Editor
<1>2. editor' = Opened
  BY DEF UpdateWindow
<1>3. CASE editor.path = daemon.path
  BY <1>1, <1>2, <1>3 DEF Opened
<1>4. CASE editor.path # daemon.path /\ Untouched
  BY <1>1, <1>2, <1>4, LoadType DEF Opened, Untouched
<1>5. CASE editor.path # daemon.path /\ ~Untouched
  <2>1. editor' = [editor EXCEPT !.path = daemon.path]
    BY <1>2, <1>5 DEF Opened
  <2> QED BY <1>1, <2>1 DEF Editor
<1> QED BY <1>3, <1>4, <1>5

LEMMA UpdateTypes ==
  ASSUME TypeOK, UpdateWindow
  PROVE  /\ TypeOK'
         /\ offers' = offers \/ \A adds \in offers'.expansions : Folded(adds)
<1>1. PICK walked \in BOOLEAN, asked \in BOOLEAN :
        offers' = (IF walked THEN Draw(editor'.config) ELSE offers) /\ rows' = Rows(walked, asked)
  BY DEF UpdateWindow
<1>2. /\ offers' \in [adds : SUBSET Offer, expansions : SUBSET SUBSET Added]
      /\ \A adds \in offers'.expansions : IsFiniteSet(adds)
      /\ offers' = offers \/ \A adds \in offers'.expansions : Folded(adds)
  <2>1. CASE walked
    <3>1. plugged \in [Port -> UsbId \cup {None}]
      BY DEF TypeOK
    <3>2. offers' = Draw(editor'.config)
      BY <1>1, <2>1
    <3> QED BY <3>1, <3>2, DrawType
  <2>2. CASE ~walked
    BY <1>1, <2>2 DEF TypeOK
  <2> QED BY <2>1, <2>2
<1>3. rows' \in [instances : [UsbId -> Nat], shown : (SUBSET UsbId) \cup {None},
                 present : [UsbId -> Nat \ {0}]]
  <2> DEFINE count == IF walked THEN Instances(plugged) ELSE rows.instances
  <2>1. /\ rows \in [instances : [UsbId -> Nat], shown : (SUBSET UsbId) \cup {None},
                     present : [UsbId -> Nat \ {0}]]
        /\ refused \subseteq UsbId
    BY DEF TypeOK
  <2>2. count \in [UsbId -> Nat]
    <3>1. Instances(plugged) \in [UsbId -> Nat]
      BY InstancesType
    <3> QED BY <2>1, <3>1
  <2>3. \/ rows' = [instances |-> count, shown |-> refused, present |-> [id \in UsbId |-> Ceiling(count, id)]]
        \/ rows' = [rows EXCEPT !.instances = count]
    BY <1>1 DEF Rows
  <2> HIDE DEF count
  <2>4. [id \in UsbId |-> Ceiling(count, id)] \in [UsbId -> Nat \ {0}]
    BY <2>2 DEF Ceiling
  <2> QED BY <2>1, <2>2, <2>3, <2>4
<1>4. UNCHANGED <<plugged, allowed, refused, disk, unreadable, daemon, wanted, bounds>>
  BY DEF UpdateWindow
<1> QED BY <1>2, <1>3, <1>4, Opening DEF TypeOK, Editor, bounds

LEMMA RootTypes ==
  ASSUME TypeOK, Paste \/ RootEdits \/ DaemonLoads \/ PlugDevice
  PROVE  TypeOK'
<1>a. rooted \in Nat /\ plugs \in Nat /\ disk \in [Path -> Config \cup {None}] /\ editor.config \in Config
      /\ daemon \in [path : Path, config : Config]
  BY DEF TypeOK
<1>1. CASE Paste
  <2>1. /\ rooted' = rooted + 1 /\ disk' = [disk EXCEPT ![Target] = Output(editor.config)]
        /\ Output(editor.config) # None
    BY <1>1 DEF Paste
  <2>2. Output(editor.config) \in Config
    BY <1>a, <2>1, ParseType DEF Output
  <2>3. disk' \in [Path -> Config \cup {None}]
    <3>1. \A at : \A x \in Config : [disk EXCEPT ![at] = x] \in [Path -> Config \cup {None}]
      BY <1>a
    <3> QED BY <2>1, <2>2, <3>1
  <2>4. rooted' \in Nat
    BY <1>a, <2>1
  <2> QED BY <1>1, <2>3, <2>4 DEF Paste, TypeOK
<1>2. CASE RootEdits
  <2>1. PICK path \in Path, d \in Disks : rooted' = rooted + 1 /\ disk' = [disk EXCEPT ![path] = d[path]]
    BY <1>2 DEF RootEdits
  <2>2. d[path] \in Config \cup {None}
    BY SettingsAssumption
  <2>3. disk' \in [Path -> Config \cup {None}]
    <3>1. \A x \in Config \cup {None} : [disk EXCEPT ![path] = x] \in [Path -> Config \cup {None}]
      BY <1>a
    <3> QED BY <2>1, <2>2, <3>1
  <2>4. rooted' \in Nat
    BY <1>a, <2>1
  <2> QED BY <1>2, <2>3, <2>4 DEF RootEdits, TypeOK
<1>3. CASE DaemonLoads
  <2>1. \A path \in Path : Parse(disk[path]) # None => Parse(disk[path]) \in Config
    BY <1>a, ParseType
  <2>2. \/ rooted' = rooted /\ \E c \in Config : daemon' = [daemon EXCEPT !.config = c]
        \/ rooted' = rooted + 1 /\ \E path \in Path, c \in Config : daemon' = [path |-> path, config |-> c]
    BY <1>3, <1>a, <2>1 DEF DaemonLoads
  <2>3. daemon' \in [path : Path, config : Config] /\ rooted' \in Nat
    BY <1>a, <2>2
  <2> QED BY <1>3, <2>3 DEF DaemonLoads, TypeOK
<1>4. CASE PlugDevice
  <2>1. /\ plugs' = plugs + 1
        /\ \E p \in Port, id \in UsbId \cup {None} :
             plugged' = [plugged EXCEPT ![p] = id] /\ refused' \in {refused, refused \cup ({id} \ {None})}
        /\ allowed' \in {allowed} \cup {{id} : id \in refused}
    BY <1>4 DEF PlugDevice
  <2>2. plugged' \in [Port -> UsbId \cup {None}] /\ refused' \subseteq UsbId /\ allowed' \subseteq UsbId
    BY <2>1 DEF TypeOK
  <2>3. plugs' \in Nat
    BY <1>a, <2>1
  <2> QED BY <1>4, <2>2, <2>3 DEF PlugDevice, TypeOK
<1> QED BY <1>1, <1>2, <1>3, <1>4

LEMMA InitTypes == Init => TypeOK
<1> SUFFICES ASSUME Init PROVE TypeOK
  OBVIOUS
<1>1. disk \in [Path -> Config \cup {None}]
  BY SettingsAssumption DEF Init
<1>2. daemon \in [path : Path, config : Config]
  <2>1. PICK path \in Path : Parse(disk[path]) # None /\ daemon = [path |-> path, config |-> Parse(disk[path])]
    BY DEF Init
  <2>2. Parse(disk[path]) \in Config
    BY <1>1, <2>1, ParseType
  <2> QED BY <2>1, <2>2
<1>3. editor \in [path : Path \cup {None}, loaded : Config, config : Config, read : BOOLEAN,
                  origin : Path \cup {None}]
  BY DefaultsType DEF Init
<1>4. /\ offers = [adds |-> {}, expansions |-> {}]
      /\ rows = [instances |-> [id \in UsbId |-> 0], shown |-> None, present |-> [id \in UsbId |-> 1]]
      /\ plugged = [p \in Port |-> None] /\ allowed = {} /\ refused = {} /\ unreadable \in SUBSET Path
      /\ wanted = {} /\ plugs = 0 /\ edits = 0 /\ rooted = 0
  BY DEF Init
<1> QED BY <1>1, <1>2, <1>3, <1>4 DEF TypeOK

(* Every variable of the window, the files and the daemon keeps its type.  *)
THEOREM SettingsTypeCorrect == Spec => []TypeOK
<1>1. TypeOK /\ [Next]_vars => TypeOK'
  <2> SUFFICES ASSUME TypeOK, [Next]_vars PROVE TypeOK'
    OBVIOUS
  <2>1. CASE UNCHANGED vars
    BY <2>1 DEF TypeOK, vars, bounds
  <2>2. CASE TypeEntry \/ RemoveEntry \/ EditField \/ ClickAdd \/ ClickExpand \/ ClickViolation
    BY <2>2, Editing, EditTypes
  <2>3. CASE UpdateWindow
    BY <2>3, UpdateTypes
  <2>4. CASE Paste \/ RootEdits \/ DaemonLoads \/ PlugDevice
    BY <2>4, RootTypes
  <2> QED BY <2>1, <2>2, <2>3, <2>4 DEF Next
<1> QED BY <1>1, InitTypes, PTL DEF Spec

---------------------------------------------------------------------------
(* What a person added.  None of it was in what was loaded, so a window    *)
(* that holds some of it is not one that nobody touched.                   *)
EditInv ==
  /\ Counted(editor.loaded) /\ Counted(editor.config)
  /\ \A id \in wanted : ~Listed(editor.loaded, id) /\ Listed(editor.config, id)

LEMMA EditInit == Init => EditInv
BY DefaultsType DEF Init, EditInv

LEMMA EditStep == TypeOK /\ EditInv /\ [Next]_vars => EditInv'
<1> SUFFICES ASSUME TypeOK, EditInv, [Next]_vars PROVE EditInv'
  OBVIOUS
<1>1. CASE TypeEntry \/ RemoveEntry \/ EditField \/ ClickAdd \/ ClickExpand \/ ClickViolation
  <2>1. PICK d \in Config :
          /\ Edit(d) /\ (Counted(editor.config) => Counted(d)) /\ wanted' \subseteq UsbId
          /\ \A id \in wanted' : id \in wanted \/ ~Listed(editor.loaded, id)
          /\ \A id \in wanted' : (id \in wanted => Listed(editor.config, id)) => Listed(d, id)
    BY <1>1, Editing
  <2>2. editor'.config = d /\ editor'.loaded = editor.loaded
    BY <2>1, EditTypes
  <2> QED BY <2>1, <2>2 DEF EditInv
<1>2. CASE UpdateWindow
  <2>1. wanted' = wanted
    BY <1>2 DEF UpdateWindow
  <2>2. CASE editor' = Load(daemon.path) /\ editor.config = editor.loaded
    <3>1. wanted = {}
      BY <2>2 DEF EditInv
    <3>2. Counted(editor'.config) /\ editor'.loaded = editor'.config
      BY <2>2, LoadType DEF TypeOK
    <3> QED BY <2>1, <3>1, <3>2 DEF EditInv
  <2>3. CASE editor'.config = editor.config /\ editor'.loaded = editor.loaded
    BY <2>1, <2>3 DEF EditInv
  <2> QED BY <1>2, <2>2, <2>3, Opening
<1>3. CASE Paste \/ RootEdits \/ DaemonLoads \/ PlugDevice \/ UNCHANGED vars
  <2>1. UNCHANGED <<editor, wanted>>
    BY <1>3 DEF Paste, RootEdits, DaemonLoads, PlugDevice, vars
  <2> QED BY <2>1 DEF EditInv
<1> QED BY <1>1, <1>2, <1>3 DEF Next

(* What a person added stays until it is removed, whatever status arrives  *)
(* and whichever file the daemon moves to.                                 *)
THEOREM EditsCorrect == Spec => []EditsSurvive
<1>1. TypeOK /\ EditInv => EditsSurvive
  <2> SUFFICES ASSUME TypeOK, EditInv, NEW id \in wanted PROVE Total(editor.config, id) > 0
    BY DEF EditsSurvive
  <2>1. editor.config \in Config /\ Listed(editor.config, id) /\ Counted(editor.config)
    BY DEF TypeOK, EditInv
  <2>2. PICK i \in DOMAIN editor.config.devices : editor.config.devices[i].id = id
    BY <2>1 DEF Listed
  <2>3. editor.config.devices[i].count > 0 /\ editor.config.devices[i].count \in Nat
    BY <2>1, ConfigType DEF Counted
  <2>4. editor.config.devices[i].count <= Total(editor.config, id) /\ Total(editor.config, id) \in Nat
    BY <2>1, <2>2, TotalCovers, TotalType
  <2> QED BY <2>3, <2>4
<1> QED BY <1>1, EditInit, EditStep, SettingsTypeCorrect, PTL DEF Spec

---------------------------------------------------------------------------
(* What root pastes.  The window reads one file, or says that it did not;  *)
(* the kill commands it holds are those of that file, and stay.            *)
PasteInv ==
  editor.read => /\ editor.origin \in Path /\ disk[editor.origin] # None
                 /\ disk[editor.origin].commands = editor.config.commands

LEMMA Pasting ==
  ASSUME TypeOK, PasteInv, Paste
  PROVE  /\ Target \in Path /\ Target = editor.origin /\ editor.read
         /\ \A path \in Path : path # Target => disk'[path] = disk[path]
         /\ disk'[Target] # None /\ disk'[Target] = Parse(editor.config)
         /\ disk'[Target].commands = editor.config.commands
         /\ disk'[Target].devices = editor.config.devices
         /\ Parse(disk'[Target]) = disk'[Target]
<1>1. editor.read /\ editor.origin \in Path /\ Target = editor.origin
  BY SettingsAssumption DEF Paste, Placeholder, PasteInv, Target
<1>2. disk \in [Path -> Config \cup {None}] /\ editor.config \in Config
  BY DEF TypeOK
<1>3. Parse(editor.config) # None /\ disk' = [disk EXCEPT ![Target] = Parse(editor.config)]
  BY DEF Paste, Output
<1>4. disk'[Target] = Parse(editor.config) /\ \A path \in Path : path # Target => disk'[path] = disk[path]
  BY <1>1, <1>2, <1>3
<1> QED BY <1>1, <1>2, <1>3, <1>4, ParseType

LEMMA PasteInit == Init => PasteInv
BY DEF Init, PasteInv

LEMMA PasteStep == TypeOK /\ PasteInv /\ [Next]_vars => PasteInv'
<1> SUFFICES ASSUME TypeOK, PasteInv, [Next]_vars PROVE PasteInv'
  OBVIOUS
<1>1. CASE TypeEntry \/ RemoveEntry \/ EditField \/ ClickAdd \/ ClickExpand \/ ClickViolation
  <2>1. PICK d \in Config : Edit(d) /\ d.commands = editor.config.commands /\ wanted' \subseteq UsbId
    BY <1>1, Editing
  <2>2. editor'.config = d /\ editor'.read = editor.read /\ editor'.origin = editor.origin
    BY <2>1, EditTypes
  <2>3. disk' = disk
    BY <2>1 DEF Edit
  <2> QED BY <2>1, <2>2, <2>3 DEF PasteInv
<1>2. CASE UpdateWindow
  <2>1. disk' = disk /\ daemon.path \in Path /\ disk \in [Path -> Config \cup {None}]
    BY <1>2 DEF UpdateWindow, TypeOK
  <2>2. CASE editor' = Load(daemon.path)
    BY <2>1, <2>2, LoadType DEF PasteInv
  <2>3. CASE editor'.config = editor.config /\ editor'.read = editor.read /\ editor'.origin = editor.origin
    BY <2>1, <2>3 DEF PasteInv
  <2> QED BY <1>2, <2>2, <2>3, Opening
<1>3. CASE Paste
  <2>1. editor' = editor
    BY <1>3 DEF Paste
  <2> QED BY <1>3, <2>1, Pasting DEF PasteInv
<1>4. CASE RootEdits
  <2>1. PICK path \in Path, d \in Disks :
          /\ path = editor.origin => d[path] # None /\ d[path].commands = disk[path].commands
          /\ disk' = [disk EXCEPT ![path] = d[path]]
    BY <1>4 DEF RootEdits
  <2>2. editor' = editor /\ disk \in [Path -> Config \cup {None}]
    BY <1>4 DEF RootEdits, TypeOK
  <2>3. \A p \in Path : disk'[p] = IF p = path THEN d[path] ELSE disk[p]
    BY <2>1, <2>2
  <2> QED BY <2>1, <2>2, <2>3 DEF PasteInv
<1>5. CASE DaemonLoads \/ PlugDevice \/ UNCHANGED vars
  <2>1. UNCHANGED <<editor, disk>>
    BY <1>5 DEF DaemonLoads, PlugDevice, vars
  <2> QED BY <2>1 DEF PasteInv
<1> QED BY <1>1, <1>2, <1>3, <1>4, <1>5 DEF Next

(* A paste keeps root's kill commands, and what was pasted is what the     *)
(* daemon runs once it loads it: nothing is refused, nothing clamped.      *)
THEOREM PasteCorrect == Spec => PasteKeeps
<1>1. TypeOK /\ PasteInv /\ [Next]_vars =>
        [Paste => \A path \in Path : disk[path] # None /\ disk'[path] # None =>
                    disk'[path].commands = disk[path].commands]_vars
  <2> SUFFICES ASSUME TypeOK, PasteInv, Paste, NEW path \in Path, disk[path] # None
               PROVE  disk'[path].commands = disk[path].commands
    OBVIOUS
  <2>1. CASE path = Target
    BY <2>1, Pasting DEF PasteInv
  <2>2. CASE path # Target
    BY <2>2, Pasting
  <2> QED BY <2>1, <2>2
<1>2. TypeOK /\ PasteInv /\ [Next]_vars => [Paste => Parse(disk'[Target]) = disk'[Target]]_vars
  BY Pasting
<1>3. Spec => []PasteInv
  BY PasteInit, PasteStep, SettingsTypeCorrect, PTL DEF Spec
<1>4. Spec => CommandsKept
  BY <1>1, <1>3, SettingsTypeCorrect, PTL DEF Spec, CommandsKept
<1>5. Spec => PasteRunsAsShown
  BY <1>2, <1>3, SettingsTypeCorrect, PTL DEF Spec, PasteRunsAsShown
<1> QED BY <1>4, <1>5 DEF PasteKeeps

---------------------------------------------------------------------------
(* What a click covers.                                                    *)
LEMMA CoversOne ==
  ASSUME NEW c \in Config, NEW id \in Spelling, NEW present \in Nat, present > Total(c, id)
  PROVE  Total(ListCoverOne(c, id, present), id) = Total(c, id) + 1
<1>1. CASE ~Listed(c, id)
  <2>1. ListCoverOne(c, id, present) = ListAdd(c, id)
    BY <1>1 DEF ListCoverOne
  <2>2. Total(ListAdd(c, id), id) = 1
    BY <1>1, ListAddLists
  <2>3. Total(c, id) = 0
    BY <1>1, TotalPositive
  <2> QED BY <2>1, <2>2, <2>3
<1>2. CASE Listed(c, id)
  <2>1. c.devices[FirstListed(c, id)].count \in Nat /\ c.devices[FirstListed(c, id)].count <= Total(c, id)
    BY <1>2, FirstListedType, TotalCovers, ConfigType
  <2>2. c.devices[FirstListed(c, id)].count < present
    BY <2>1, TotalType
  <2>3. ListCoverOne(c, id, present) = [c EXCEPT !.devices[FirstListed(c, id)].count = @ + 1]
    BY <1>2, <2>2 DEF ListCoverOne
  <2> QED BY <1>2, <2>3, RaiseLists
<1> QED BY <1>1, <1>2

(* An entry that is alone stands for all there is of it.                   *)
LEMMA TotalIs ==
  ASSUME NEW c \in Config, Once(c), NEW i \in DOMAIN c.devices
  PROVE  Total(c, c.devices[i].id) = c.devices[i].count
<1> DEFINE n == c.devices[i].count
<1>1. n \in Nat
  BY ConfigType
<1>2. Copies(c, c.devices[i].id) = {i} \X (1..n)
  <2>1. {j \in DOMAIN c.devices : c.devices[j].id = c.devices[i].id} = {i}
    BY DEF Once
  <2>2. Copies(c, c.devices[i].id) = UNION {{j} \X (1..c.devices[j].count) : j \in {i}}
    BY <2>1, Zenon DEF Copies
  <2> QED BY <2>2
<1>3. Cardinality({i} \X (1..n)) = Cardinality({i}) * Cardinality(1..n)
  BY <1>1, FS_Product, FS_Singleton, CountTo
<1>4. Cardinality({i}) = 1 /\ Cardinality(1..n) = n
  BY <1>1, FS_Singleton, CountTo
<1> HIDE DEF n
<1> QED BY <1>1, <1>2, <1>3, <1>4 DEF Total, n

LEMMA CoverBound ==
  ASSUME NEW c \in Config, Once(c), NEW id \in Spelling, NEW present \in Nat \ {0}
  PROVE  Total(ListCoverOne(c, id, present), id) <= Larger(Total(c, id), present)
<1> Total(c, id) \in Nat
  BY TotalType
<1>1. CASE ~Listed(c, id)
  <2>1. Total(ListCoverOne(c, id, present), id) = 1
    BY <1>1, ListAddLists DEF ListCoverOne
  <2> QED BY <2>1 DEF Larger
<1>2. CASE Listed(c, id)
  <2> DEFINE f == FirstListed(c, id)
  <2>1. f \in DOMAIN c.devices /\ c.devices[f].id = id
    BY <1>2, FirstListedType
  <2>2. Total(c, id) = c.devices[f].count
    BY <2>1, TotalIs
  <2>3. CASE c.devices[f].count < present
    <3>1. Total(ListCoverOne(c, id, present), id) = Total(c, id) + 1
      BY <2>2, <2>3, CoversOne
    <3> QED BY <2>2, <2>3, <3>1 DEF Larger
  <2>4. CASE ~(c.devices[f].count < present)
    <3>1. ListCoverOne(c, id, present) = c
      BY <1>2, <2>4 DEF ListCoverOne
    <3> QED BY <3>1 DEF Larger
  <2> QED BY <2>3, <2>4
<1> QED BY <1>1, <1>2

(* The devices panel is right about what the daemon would admit, and its   *)
(* rows add what they offer, whatever a file says.                         *)
LEMMA PanelIsRight == TypeOK => CoverageIsTrue /\ ClickCovers
<1> SUFFICES ASSUME TypeOK PROVE CoverageIsTrue /\ ClickCovers
  OBVIOUS
<1> DEFINE c == editor.config
           N(id) == Cardinality({p \in Port : plugged[p] = id})
<1>1. c \in Config /\ plugged \in [Port -> UsbId \cup {None}]
  BY DEF TypeOK
<1>2. \A id : (\E p \in Port : plugged[p] = id /\ ~TakesInstance(plugged, c, p)) <=> Total(c, id) < N(id)
  BY <1>1, LeftIffMore
<1>3. CoverageIsTrue
  <2>1. \A p \in Port : Action(plugged, {}, c, p) = "add" <=> ~TakesInstance(plugged, c, p)
    BY DEF Action
  <2>2. \A id : Gains(plugged, c, id) <=> Total(c, id) < N(id)
    <3>1. \A id : N(id) \in Nat /\ Total(c, id) \in Nat
      <4> TAKE id
      <4> DEFINE S == {p \in Port : plugged[p] = id}
      <4>1. S \in SUBSET Port
        OBVIOUS
      <4>2. Cardinality(S) \in Nat
        <5> HIDE DEF S
        <5> QED BY <4>1, PortsType
      <4> QED BY <1>1, <4>2, TotalType
    <3>2. \A id : Gains(plugged, c, id) <=> N(id) > Total(c, id)
      BY DEF Gains
    <3> HIDE DEF N, c
    <3> QED BY <3>1, <3>2
  <2> HIDE DEF N
  <2> QED BY <1>2, <2>1, <2>2, Zenon DEF CoverageIsTrue
<1>4. ClickCovers
  <2> SUFFICES ASSUME NEW p \in Offered(plugged, allowed, c)
               PROVE  Total(ListCoverOne(c, plugged[p], Instances(plugged)[plugged[p]]), plugged[p])
                        = Total(c, plugged[p]) + 1
    BY DEF ClickCovers
  <2>1. p \in Port /\ plugged[p] # None /\ plugged[p] \in UsbId /\ ~TakesInstance(plugged, c, p)
    BY <1>1 DEF Offered, Action
  <2>2. Total(c, plugged[p]) < N(plugged[p])
    <3> HIDE DEF N, c
    <3> QED BY <1>2, <2>1
  <2>3. Instances(plugged)[plugged[p]] = N(plugged[p])
    BY <2>1 DEF Instances
  <2>4. N(plugged[p]) \in Nat /\ Total(c, plugged[p]) \in Nat /\ plugged[p] \in Spelling
    <3>1. Instances(plugged)[plugged[p]] \in Nat
      BY <2>1, InstancesType
    <3> QED BY <1>1, <2>1, <2>3, <3>1, TotalType, SettingsAssumption
  <2> HIDE DEF N, c
  <2>5. N(plugged[p]) > Total(c, plugged[p])
    BY <2>2, <2>4
  <2> QED BY <1>1, <2>3, <2>4, <2>5, CoversOne
<1> QED BY <1>3, <1>4

(* In every state the devices panel says "in the whitelist" of exactly the *)
(* devices the daemon would admit, and each of its rows, fresh, covers one *)
(* device more.                                                            *)
THEOREM CoverageCorrect == Spec => [](CoverageIsTrue /\ ClickCovers)
BY PanelIsRight, SettingsTypeCorrect, PTL

(* The files of a person who lists an identity once.                       *)
SingleEntries == \A d \in Disks : \A path \in Path : d[path] # None => Once(d[path])

SingleInv ==
  /\ Once(editor.config)
  /\ \A path \in Path : disk[path] # None => Once(disk[path])
  /\ \A adds \in offers.expansions : Folded(adds)

LEMMA SingleInit ==
  ASSUME SingleEntries
  PROVE  Init => SingleInv
<1>1. Init => /\ editor.config = Defaults /\ offers.expansions = {}
              /\ \A path \in Path : disk[path] # None => Once(disk[path])
  BY DEF Init, SingleEntries
<1> QED BY <1>1, DefaultsType DEF SingleInv

LEMMA SingleStep ==
  ASSUME SingleEntries
  PROVE  TypeOK /\ PasteInv /\ SingleInv /\ [Next]_vars => SingleInv'
<1> SUFFICES ASSUME TypeOK, PasteInv, SingleInv, [Next]_vars PROVE SingleInv'
  OBVIOUS
<1>a. \A c, d : c.devices = d.devices => (Once(c) <=> Once(d))
  BY DEF Once
<1>1. CASE TypeEntry \/ RemoveEntry \/ EditField \/ ClickAdd \/ ClickExpand \/ ClickViolation
  <2>1. PICK d \in Config : Edit(d) /\ wanted' \subseteq UsbId /\ Once(d)
    BY <1>1, Editing DEF SingleInv
  <2>2. editor'.config = d
    BY <2>1, EditTypes
  <2>3. UNCHANGED <<disk, offers>>
    BY <2>1 DEF Edit
  <2> QED BY <2>1, <2>2, <2>3 DEF SingleInv
<1>2. CASE UpdateWindow
  <2>1. disk' = disk /\ daemon.path \in Path /\ disk \in [Path -> Config \cup {None}]
    BY <1>2 DEF UpdateWindow, TypeOK
  <2>2. Once(editor'.config)
    <3>1. CASE editor' = Load(daemon.path)
      <4>1. CASE Load(daemon.path).read
        BY <2>1, <3>1, <4>1, <1>a, LoadType DEF SingleInv
      <4>2. CASE ~Load(daemon.path).read
        BY <2>1, <3>1, <4>2, LoadType, DefaultsType
      <4> QED BY <4>1, <4>2
    <3>2. CASE editor'.config = editor.config
      BY <3>2 DEF SingleInv
    <3> QED BY <1>2, <3>1, <3>2, Opening
  <2>3. \A adds \in offers'.expansions : Folded(adds)
    BY <1>2, UpdateTypes DEF SingleInv
  <2> QED BY <2>1, <2>2, <2>3 DEF SingleInv
<1>3. CASE Paste
  <2>1. UNCHANGED <<editor, offers>>
    BY <1>3 DEF Paste
  <2>2. Once(disk'[Target])
    BY <1>3, <1>a, Pasting DEF SingleInv
  <2>3. \A path \in Path : disk'[path] # None => Once(disk'[path])
    BY <1>3, <2>2, Pasting DEF SingleInv
  <2> QED BY <2>1, <2>3 DEF SingleInv
<1>4. CASE RootEdits
  <2>1. PICK path \in Path, d \in Disks : disk' = [disk EXCEPT ![path] = d[path]]
    BY <1>4 DEF RootEdits
  <2>2. UNCHANGED <<editor, offers>> /\ disk \in [Path -> Config \cup {None}]
    BY <1>4 DEF RootEdits, TypeOK
  <2>3. \A p \in Path : disk'[p] = IF p = path THEN d[path] ELSE disk[p]
    BY <2>1, <2>2
  <2>4. \A p \in Path : disk'[p] # None => Once(disk'[p])
    BY <2>3 DEF SingleInv, SingleEntries
  <2> QED BY <2>2, <2>4 DEF SingleInv
<1>5. CASE DaemonLoads \/ PlugDevice \/ UNCHANGED vars
  <2>1. UNCHANGED <<editor, disk, offers>>
    BY <1>5 DEF DaemonLoads, PlugDevice, vars
  <2> QED BY <2>1 DEF SingleInv
<1> QED BY <1>1, <1>2, <1>3, <1>4, <1>5 DEF Next

(* Of files that list an identity once: a row of either panel, however     *)
(* long ago it was drawn, covers the device it was for and no other.       *)
THEOREM CoverCorrect ==
  ASSUME SingleEntries
  PROVE  Spec => []CoverIsRight
<1>1. TypeOK /\ SingleInv => CoverNeverExceeds
  <2> SUFFICES ASSUME TypeOK, SingleInv PROVE CoverNeverExceeds
    OBVIOUS
  <2>1. editor.config \in Config /\ Once(editor.config) /\ UsbId \subseteq Spelling
    BY SettingsAssumption DEF TypeOK, SingleInv
  <2>2. \A r \in offers.adds : r.id \in UsbId /\ r.present \in Nat \ {0}
    BY DEF TypeOK, Offer
  <2>3. rows.shown # None => \A id \in rows.shown : id \in UsbId /\ rows.present[id] \in Nat \ {0}
    BY DEF TypeOK
  <2> DEFINE drawn == offers.adds \cup {[id |-> id, present |-> rows.present[id]] :
                                          id \in IF rows.shown = None THEN {} ELSE rows.shown}
  <2>4. \A r \in drawn : r.id \in Spelling /\ r.present \in Nat \ {0}
    BY <2>1, <2>2, <2>3
  <2>5. \A r \in drawn : Total(ListCoverOne(editor.config, r.id, r.present), r.id)
                           <= Larger(Total(editor.config, r.id), r.present)
    <3> HIDE DEF drawn
    <3> QED BY <2>1, <2>4, CoverBound
  <2> QED BY <2>5 DEF CoverNeverExceeds
<1>2. TypeOK /\ SingleInv => CoverIsRight
  BY <1>1, PanelIsRight DEF CoverIsRight
<1>3. Spec => []PasteInv
  BY PasteInit, PasteStep, SettingsTypeCorrect, PTL DEF Spec
<1>4. Spec => []SingleInv
  BY <1>3, SingleInit, SingleStep, SettingsTypeCorrect, PTL DEF Spec
<1> QED BY <1>2, <1>4, SettingsTypeCorrect, PTL

===========================================================================
