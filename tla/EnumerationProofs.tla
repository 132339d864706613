-------------------------- MODULE EnumerationProofs --------------------------
(***************************************************************************)
(* The walk of a bus, for any number of entries, any contents and any      *)
(* number of events under it: what was there all through is in the         *)
(* reading, a reading never says the opposite of what stayed so, and a     *)
(* machine that nothing happened to is quiet.                              *)
(***************************************************************************)
EXTENDS EnumerationProperties, FiniteSetTheorems, SequenceTheorems, TLAPS

(* What a read can return.                                                 *)
Value ==
  {None} \cup UNION {UNION {{c.values[i] : i \in DOMAIN c.values} : c \in Content(p[1], p[2])} :
                       p \in Walked \X Entry}

RowType == [entry : Entry, values : Seq(Value)]

TypeOK ==
  /\ bus \in Walked
  /\ DOMAIN hw = Entry
  /\ \A e \in Entry : hw[e] # None => hw[e] \in Content(bus, e)
  /\ hw = [e \in Entry |-> hw[e]]
  /\ denied \subseteq Entry /\ purpose \in Purpose \cup {None}
  /\ todo \subseteq Entry /\ at \in Entry \cup {None}
  /\ got \in Seq(Value) /\ found \in Seq(RowType)
  /\ disturbed \in [{"walk", "baseline", "list"} -> SUBSET Entry]
  /\ purpose = "list" => bus \in IdBuses \ {"pci"}
  /\ purpose = "baseline" => bus # "lock"
  /\ at # None => Len(got) < Attributes /\ purpose # None

LEMMA AttributesType ==
  ASSUME TypeOK
  PROVE  Attributes \in Nat /\ Required \in Nat
BY DEF Attributes, Required

(* The values of what an entry shows, as many as a walk may ask for.       *)
LEMMA ShownValues ==
  ASSUME TypeOK, NEW e \in Entry, hw[e] # None
  PROVE  /\ hw[e] \in Content(bus, e)
         /\ hw[e].values \in Seq(Value)
         /\ Attributes <= Len(hw[e].values)
<1> DEFINE c == hw[e]
           S == {c.values[i] : i \in DOMAIN c.values}
<1>1. bus \in Walked /\ c \in Content(bus, e) /\ Walked \subseteq BusName
  BY WalkAssumption DEF TypeOK
<1>2. /\ c.values \in Seq(S)
      /\ Len(c.values) >= Files(bus)
  BY <1>1, ContentAssumption
<1>3. \A i \in DOMAIN c.values : c.values[i] \in Value
  <2> SUFFICES ASSUME NEW i \in DOMAIN c.values
               PROVE  c.values[i] \in Value
    OBVIOUS
  <2>1. <<bus, e>> \in Walked \X Entry /\ <<bus, e>>[1] = bus /\ <<bus, e>>[2] = e
    BY <1>1
  <2>2. c.values[i] \in UNION {{d.values[j] : j \in DOMAIN d.values} : d \in Content(bus, e)}
    BY <1>1
  <2> QED BY <2>1, <2>2 DEF Value
<1>4. S \subseteq Value
  BY <1>3
<1> HIDE DEF c, S
<1>5. c.values \in Seq(Value)
  BY <1>2, <1>4
<1>6. Len(c.values) \in Nat
  BY <1>5
<1>7. Attributes <= Len(c.values)
  BY <1>1, <1>2, <1>6 DEF TypeOK, Attributes, Required, Files, BusName, IdBuses, SysfsIds, LinkBuses
<1> QED BY <1>1, <1>5, <1>7 DEF c

(* What is asked of an entry does not change under the walk.               *)
LEMMA WalkIsFixed ==
  ASSUME UNCHANGED <<bus, purpose>>
  PROVE  /\ Attributes' = Attributes
         /\ \A i, v : Wanted(i, v)' <=> Wanted(i, v)
         /\ \A s : Enough(s)' <=> Enough(s)
         /\ \A s : Valid(s)' <=> Valid(s)
         /\ \A s : Snapshot(s)' = Snapshot(s)
BY DEF Attributes, Required, Wanted, Enough, Valid, Snapshot, Counts, UsbIdOf, CardOf

LEMMA TakeTypes ==
  ASSUME TypeOK, at # None, answer = None, NEW value \in Value, Take(value),
         UNCHANGED <<bus, hw, denied, purpose, todo>>,
         disturbed' \in [{"walk", "baseline", "list"} -> SUBSET Entry]
  PROVE  TypeOK'
<1> DEFINE values == Append(got, value)
<1>1. at \in Entry /\ Len(got) \in Nat /\ Attributes \in Nat /\ Len(got) < Attributes
  BY AttributesType DEF TypeOK
<1>2. values \in Seq(Value) /\ Len(values) = Len(got) + 1
  BY DEF TypeOK
<1>3. got' = values
  BY DEF Take
<1>4. found' \in Seq(RowType) /\ at' \in Entry \cup {None}
  <2>1. Row(at, values) \in RowType
    BY <1>1, <1>2 DEF Row, RowType
  <2>2. found' = found \/ found' = Append(found, Row(at, values))
    BY DEF Take
  <2>3. at' = at \/ at' = None
    BY DEF Take
  <2> QED BY <2>1, <2>2, <2>3 DEF TypeOK
<1>5. at' # None => Len(got') < Attributes'
  <2>1. at' # None => ~Enough(values)
    BY <1>3 DEF Take
  <2>2. ~Enough(values) => Len(values) # Attributes
    BY DEF Enough
  <2> QED BY <1>1, <1>2, <1>3, <2>1, <2>2, WalkIsFixed
<1> QED BY <1>1, <1>2, <1>3, <1>4, <1>5 DEF TypeOK

LEMMA DisturbType ==
  ASSUME TypeOK, NEW which \in SUBSET Entry
  PROVE  /\ Disturb(which) \in [{"walk", "baseline", "list"} -> SUBSET Entry]
         /\ \A k \in {"walk", "baseline", "list"} : Disturb(which)[k] = disturbed[k] \cup which
BY DEF TypeOK, Disturb

LEMMA KernelTypes ==
  ASSUME TypeOK, Kernel
  PROVE  TypeOK'
<1> PICK e \in Entry : Plug(e) \/ Unplug(e) \/ Chmod(e)
  BY DEF Kernel
<1>1. UNCHANGED <<bus, purpose, todo, at, got, found>> /\ Attributes' = Attributes
  BY WalkIsFixed DEF Plug, Unplug, Chmod, walk
<1>2. disturbed' \in [{"walk", "baseline", "list"} -> SUBSET Entry]
  BY DisturbType DEF Plug, Unplug, Chmod, TypeOK
<1>3. denied' \subseteq Entry
  BY DEF Plug, Unplug, Chmod, TypeOK
<1>4. /\ DOMAIN hw' = Entry /\ hw' = [f \in Entry |-> hw'[f]]
      /\ \A f \in Entry : hw'[f] # None => hw'[f] \in Content(bus, f)
  BY DEF Plug, Unplug, Chmod, TypeOK
<1> QED BY <1>1, <1>2, <1>3, <1>4 DEF TypeOK

LEMMA OpenTypes ==
  ASSUME TypeOK, NEW p \in Purpose, Open(p) \/ OpenFails(p)
  PROVE  TypeOK'
<1>1. /\ UNCHANGED <<bus, hw, denied>> /\ purpose' = p
      /\ at' = None /\ got' = <<>> /\ found' = <<>>
      /\ p = "list" => bus \in IdBuses \ {"pci"}
      /\ p = "baseline" => bus # "lock"
  BY DEF Open, OpenFails, Begins
<1>2. todo' \subseteq Entry
  BY DEF Open, OpenFails, Shown
<1>3. disturbed' \in [{"walk", "baseline", "list"} -> SUBSET Entry]
  BY DisturbType DEF Open, OpenFails, TypeOK
<1>4. got' \in Seq(Value) /\ found' \in Seq(RowType)
  BY <1>1
<1> QED BY <1>1, <1>2, <1>3, <1>4 DEF TypeOK

LEMMA VisitTypes ==
  ASSUME TypeOK, NEW e \in Entry, Visit(e)
  PROVE  TypeOK'
<1>1. /\ UNCHANGED <<bus, hw, denied, purpose, disturbed>>
      /\ todo' = todo \ {e} /\ got' = <<>> /\ purpose # None
  BY DEF Visit, history
<1>2. /\ at' \in {None, e} /\ found' \in {found, Append(found, Row(e, <<>>))}
      /\ at' # None => Attributes # 0
  <2>1. CASE SkippedByName(e)
    BY <2>1 DEF Visit
  <2>2. CASE ~SkippedByName(e) /\ Attributes = 0
    BY <2>2 DEF Visit
  <2>3. CASE ~SkippedByName(e) /\ Attributes # 0
    BY <2>3 DEF Visit
  <2> QED BY <2>1, <2>2, <2>3
<1>3. Row(e, <<>>) \in RowType
  BY DEF Row, RowType
<1>4. got' \in Seq(Value) /\ found' \in Seq(RowType)
  BY <1>1, <1>2, <1>3 DEF TypeOK
<1>5. at' # None => Len(got') < Attributes'
  BY <1>1, <1>2, WalkIsFixed, AttributesType
<1> QED BY <1>1, <1>2, <1>4, <1>5 DEF TypeOK

(* Reading on: the value is the next of the entry, or None.                *)
LEMMA NextValue ==
  ASSUME TypeOK, at # None, hw[at] # None
  PROVE  /\ Len(got) + 1 \in 1..Len(hw[at].values)
         /\ hw[at].values[Len(got) + 1] \in Value
<1>1. at \in Entry /\ Len(got) \in Nat /\ Len(got) < Attributes
  BY DEF TypeOK
<1> QED BY <1>1, ShownValues, AttributesType

LEMMA ReadTypes ==
  ASSUME TypeOK, ReadAttribute \/ ReadFails \/ ReadRefused
  PROVE  TypeOK'
<1>1. at # None /\ answer = None
  BY WalkAssumption DEF ReadAttribute, ReadFails, ReadRefused, TypeOK
<1>2. UNCHANGED <<bus, hw, denied, purpose, todo>>
  BY DEF ReadAttribute, ReadFails, ReadRefused
<1>3. disturbed' \in [{"walk", "baseline", "list"} -> SUBSET Entry]
  <2>1. {at} \subseteq Entry
    BY <1>1 DEF TypeOK
  <2> QED BY <2>1, DisturbType DEF ReadAttribute, ReadFails, ReadRefused, TypeOK, history
<1>4. None \in Value
  BY DEF Value
<1>5. CASE UNCHANGED <<at, got, found>>
  BY <1>2, <1>3, <1>5, WalkIsFixed DEF TypeOK
<1>6. CASE \E value \in Value : Take(value)
  BY <1>1, <1>2, <1>3, <1>6, TakeTypes
<1> QED BY <1>1, <1>4, <1>5, <1>6, NextValue DEF ReadAttribute, ReadFails, ReadRefused

LEMMA DeliverTypes ==
  ASSUME TypeOK, Deliver
  PROVE  TypeOK'
<1>1. /\ UNCHANGED <<bus, hw, denied>>
      /\ purpose' = None /\ at' = None /\ got' = <<>> /\ found' = <<>> /\ todo' = {}
  BY DEF Deliver
<1>2. disturbed' \in [{"walk", "baseline", "list"} -> SUBSET Entry]
  BY DEF Deliver, TypeOK
<1>3. got' \in Seq(Value) /\ found' \in Seq(RowType)
  BY <1>1
<1>4. None # "list" /\ None # "baseline"
  BY WalkAssumption DEF Purpose
<1> QED BY <1>1, <1>2, <1>3, <1>4 DEF TypeOK

LEMMA TypesInit ==
  ASSUME Init
  PROVE  TypeOK
<1>1. /\ got \in Seq(Value) /\ found \in Seq(RowType)
      /\ purpose = None /\ at = None /\ todo = {}
  BY DEF Init
<1>2. None # "list" /\ None # "baseline"
  BY WalkAssumption DEF Purpose
<1>3. /\ DOMAIN hw = Entry /\ hw = [e \in Entry |-> hw[e]]
      /\ \A e \in Entry : hw[e] # None => hw[e] \in Content(bus, e)
  BY DEF Init
<1> QED BY <1>1, <1>2, <1>3 DEF Init, TypeOK

LEMMA TypesStep ==
  ASSUME TypeOK, [Next]_vars
  PROVE  TypeOK'
<1>1. ASSUME Finish PROVE TypeOK'
  BY <1>1, WalkIsFixed DEF TypeOK, Finish, history
<1>2. CASE UNCHANGED vars
  BY <1>2, WalkIsFixed DEF TypeOK, vars, walk, history
<1> QED BY <1>1, <1>2, KernelTypes, OpenTypes, VisitTypes, ReadTypes, DeliverTypes DEF Next, Walker

(* Types, for every bus, directory and contents; and no walk asks an entry *)
(* for more files than it has: the enumerate functions of plugkill-core.   *)
THEOREM WalkTypeCorrect == Spec => []TypeOK
BY TypesInit, TypesStep, PTL DEF Spec

---------------------------------------------------------------------------
(* The walk so far.  An entry is untouched if nothing happened to it since *)
(* the walk began, and was not misread.                                    *)
Untouched == Entry \ disturbed["walk"]

Agrees(e, values) ==
  /\ hw[e] # None /\ ~SkippedByName(e)
  /\ \A i \in 1..Len(values) : values[i] = hw[e].values[i]

AllWanted(values) == \A i \in 1..Len(values) : Wanted(i, values[i])

Dropped(e) ==
  \/ SkippedByName(e)
  \/ \E i \in 1..Attributes : ~Wanted(i, hw[e].values[i])
  \/ ~Valid(hw[e].values)

Listed(e) == \E i \in 1..Len(found) : found[i].entry = e

(* What was kept was read to its end, is of an entry that the walk is past *)
(* and, if that is untouched, is what the entry shows.                     *)
KeptWell(row) ==
  /\ row.entry \notin todo /\ row.entry # at
  /\ AllWanted(row.values) /\ Enough(row.values) /\ Valid(row.values)
  /\ Len(row.values) <= Attributes
  /\ row.entry \in Untouched => Agrees(row.entry, row.values)

RowsInv == \A i \in 1..Len(found) : KeptWell(found[i])

(* No entry is kept twice.                                                 *)
OnceInv == \A i, j \in 1..Len(found) : found[i].entry = found[j].entry => i = j

(* What is being read was wanted so far, and is not read to its end.       *)
AtInv ==
  at # None =>
    /\ at \notin todo
    /\ AllWanted(got) /\ ~Enough(got)
    /\ at \in Untouched => Agrees(at, got)

(* An untouched entry is still to come, being read, kept, or left out for  *)
(* what it is.                                                             *)
Accounted(e) == e \in todo \/ e = at \/ Listed(e) \/ Dropped(e)

SeenInv ==
  purpose # None /\ answer # Err =>
    \A e \in Untouched : hw[e] # None => Accounted(e)

TodoInv ==
  /\ \A e \in todo : e \in Untouched => hw[e] # None
  /\ purpose = None => answer = None /\ found = <<>>

(* An answer is the snapshot of a whole walk, or was settled by one entry. *)
Whole == todo = {} /\ at = None /\ answer = Snapshot(found)
EarlyAc     == bus = "power" /\ answer = "Ac" /\ \E r \in Rows(found) : OnMains(r.values)
EarlyLocked == bus = "lock" /\ answer = "locked" /\ \E r \in Rows(found) : LockedOne(r.values)

AnswerInv == Told => Whole \/ EarlyAc \/ EarlyLocked

WalkInv == RowsInv /\ OnceInv /\ AtInv /\ SeenInv /\ TodoInv /\ AnswerInv

(* What is made of an entry depends on the walk and on what it shows.      *)
LEMMA EntryIsFixed ==
  ASSUME UNCHANGED <<bus, purpose>>
  PROVE  /\ \A s : AllWanted(s)' <=> AllWanted(s)
         /\ \A e : hw'[e] = hw[e] => /\ SkippedByName(e)' <=> SkippedByName(e)
                                     /\ \A s : Agrees(e, s)' <=> Agrees(e, s)
                                     /\ Dropped(e)' <=> Dropped(e)
<1>1. \A s : AllWanted(s)' <=> AllWanted(s)
  BY WalkIsFixed DEF AllWanted
<1>2. ASSUME NEW e, hw'[e] = hw[e]
      PROVE  SkippedByName(e)' <=> SkippedByName(e)
  BY <1>2 DEF SkippedByName
<1>3. ASSUME NEW e, hw'[e] = hw[e], NEW s
      PROVE  Agrees(e, s)' <=> Agrees(e, s)
  BY <1>2, <1>3 DEF Agrees
<1>4. ASSUME NEW e, hw'[e] = hw[e]
      PROVE  Dropped(e)' <=> Dropped(e)
  BY <1>2, <1>4, WalkIsFixed DEF Dropped
<1> QED BY <1>1, <1>2, <1>3, <1>4

LEMMA KernelWalks ==
  ASSUME TypeOK, WalkInv, Kernel
  PROVE  WalkInv'
<1> PICK f \in Entry : Plug(f) \/ Unplug(f) \/ Chmod(f)
  BY DEF Kernel
<1>1. UNCHANGED <<bus, purpose, todo, at, got, found, answer>>
  BY DEF Plug, Unplug, Chmod, walk
<1>2. \A e \in Untouched' : e \in Untouched /\ hw'[e] = hw[e]
  BY DisturbType DEF Plug, Unplug, Chmod, TypeOK, Untouched
<1>3. RowsInv'
  <2> SUFFICES ASSUME NEW i \in 1..Len(found)
               PROVE  KeptWell(found[i])'
    BY <1>1 DEF RowsInv
  <2>1. KeptWell(found[i])
    BY DEF WalkInv, RowsInv
  <2> QED BY <1>1, <1>2, <2>1, EntryIsFixed, WalkIsFixed DEF KeptWell
<1>4. AtInv'
  BY <1>1, <1>2, EntryIsFixed, WalkIsFixed DEF WalkInv, AtInv
<1>5. SeenInv'
  BY <1>1, <1>2, EntryIsFixed DEF WalkInv, SeenInv, Accounted, Listed
<1>6. TodoInv'
  BY <1>1, <1>2 DEF WalkInv, TodoInv
<1>7. AnswerInv'
  BY <1>1, WalkIsFixed DEF WalkInv, AnswerInv, Whole, EarlyAc, EarlyLocked, Told
<1>8. OnceInv'
  BY <1>1 DEF WalkInv, OnceInv
<1> QED BY <1>3, <1>4, <1>5, <1>6, <1>7, <1>8 DEF WalkInv

LEMMA OpenWalks ==
  ASSUME TypeOK, WalkInv, NEW p \in Purpose, Open(p) \/ OpenFails(p)
  PROVE  WalkInv'
<1>1. /\ UNCHANGED <<bus, hw>> /\ purpose' = p /\ p # None
      /\ at' = None /\ found' = <<>> /\ answer' \in {None, Err}
  BY WalkAssumption DEF Open, OpenFails, Begins
<1>2. RowsInv' /\ OnceInv' /\ AtInv' /\ AnswerInv'
  BY <1>1 DEF RowsInv, OnceInv, AtInv, AnswerInv, Told
<1>3. CASE Open(p)
  <2>1. todo' = {e \in Entry : hw[e] # None}
    BY <1>3 DEF Open, Shown
  <2> QED BY <1>1, <1>2, <2>1 DEF WalkInv, SeenInv, TodoInv, Accounted, Untouched
<1>4. CASE OpenFails(p)
  <2>1. todo' = {} /\ (answer' = Err \/ Untouched' = {})
    BY <1>4, DisturbType DEF OpenFails, Untouched
  <2> QED BY <1>1, <1>2, <2>1 DEF WalkInv, SeenInv, TodoInv
<1> QED BY <1>3, <1>4

LEMMA DeliverWalks ==
  ASSUME TypeOK, WalkInv, Deliver
  PROVE  WalkInv'
<1>1. /\ purpose' = None /\ at' = None /\ found' = <<>> /\ answer' = None /\ todo' = {}
  BY DEF Deliver
<1> QED BY <1>1 DEF WalkInv, RowsInv, OnceInv, AtInv, AnswerInv, Told, SeenInv, TodoInv

LEMMA FinishWalks ==
  ASSUME TypeOK, WalkInv, Finish
  PROVE  WalkInv'
<1>1. /\ UNCHANGED <<bus, hw, purpose, todo, at, got, found, disturbed>>
      /\ answer' = Snapshot(found) /\ todo = {} /\ at = None /\ answer = None /\ purpose # None
  BY DEF Finish, history
<1>2. RowsInv' /\ OnceInv' /\ AtInv'
  BY <1>1, EntryIsFixed, WalkIsFixed
  DEF WalkInv, RowsInv, KeptWell, OnceInv, AtInv, Untouched
<1>3. SeenInv' /\ TodoInv'
  <2>1. None # Err
    BY WalkAssumption
  <2> QED BY <1>1, <2>1, EntryIsFixed DEF WalkInv, SeenInv, TodoInv, Accounted, Listed, Untouched
<1>4. AnswerInv'
  BY <1>1, WalkIsFixed DEF AnswerInv, Whole
<1> QED BY <1>2, <1>3, <1>4 DEF WalkInv

(* Keeping one more entry, that was still to come or being read.           *)
LEMMA KeepOne ==
  ASSUME TypeOK, WalkInv, NEW e \in Entry, NEW values \in Seq(Value),
         e \in todo \/ e = at,
         UNCHANGED <<bus, purpose, hw>>, todo' = todo \ {e}, at' = None,
         found' = Append(found, Row(e, values)), Untouched' \subseteq Untouched,
         AllWanted(values), Enough(values), Valid(values), Len(values) <= Attributes,
         e \in Untouched' => Agrees(e, values)
  PROVE  /\ RowsInv' /\ OnceInv'
         /\ \A f \in Entry : Listed(f) => Listed(f)'
         /\ Listed(e)' /\ Row(e, values) \in Rows(found')
<1> DEFINE n == Len(found)
<1>1. /\ n \in Nat /\ Len(found') = n + 1
      /\ \A i \in 1..n : found'[i] = found[i]
      /\ found'[n + 1] = Row(e, values)
  BY DEF TypeOK
<1>2. Row(e, values).entry = e /\ Row(e, values).values = values
  BY DEF Row
<1>3. at # None => at \notin todo
  BY DEF WalkInv, AtInv
<1>4. \A i \in 1..n : KeptWell(found[i]) /\ found[i].entry # e
  BY DEF WalkInv, RowsInv, KeptWell
<1>5. KeptWell(Row(e, values))'
  <2>1. e # None
    BY WalkAssumption
  <2> QED BY <1>2, <2>1, EntryIsFixed, WalkIsFixed DEF KeptWell
<1>6. \A i \in 1..n : KeptWell(found[i])'
  <2> SUFFICES ASSUME NEW i \in 1..n
               PROVE  KeptWell(found[i])'
    OBVIOUS
  <2>1. found[i] = found'[i] /\ found[i] \in RowType
    BY <1>1 DEF TypeOK
  <2>2. found[i].entry # None
    BY <2>1, WalkAssumption DEF RowType
  <2>3. KeptWell(found[i])
    BY <1>4
  <2> HIDE DEF n
  <2> QED BY <1>1, <2>1, <2>2, <2>3, EntryIsFixed, WalkIsFixed DEF KeptWell
<1>7. RowsInv'
  BY <1>1, <1>5, <1>6 DEF RowsInv
<1>8. OnceInv'
  BY <1>1, <1>2, <1>4 DEF WalkInv, OnceInv
<1>9. /\ \A f \in Entry : Listed(f) => Listed(f)'
      /\ Listed(e)' /\ Row(e, values) \in Rows(found')
  BY <1>1, <1>2 DEF Listed, Rows
<1> QED BY <1>7, <1>8, <1>9

(* Leaving one out.                                                        *)
LEMMA LeaveOne ==
  ASSUME TypeOK, WalkInv, NEW e \in Entry, e \in todo \/ e = at,
         UNCHANGED <<bus, purpose, hw, found>>, todo' = todo \ {e}, at' \in {None, e},
         Untouched' \subseteq Untouched
  PROVE  RowsInv' /\ OnceInv'
<1>1. ASSUME NEW i \in 1..Len(found)
      PROVE  KeptWell(found[i])'
  <2>1. KeptWell(found[i]) /\ found[i] \in RowType
    BY DEF WalkInv, RowsInv, TypeOK
  <2>2. found[i].entry # e /\ found[i].entry # None
    BY <2>1, WalkAssumption DEF KeptWell, RowType
  <2> QED BY <2>1, <2>2, EntryIsFixed, WalkIsFixed DEF KeptWell
<1> QED BY <1>1 DEF RowsInv, OnceInv, WalkInv

(* The others are accounted for as before.                                 *)
LEMMA OthersAccounted ==
  ASSUME TypeOK, WalkInv, NEW e \in Entry, e \in todo \/ e = at, at \in {None, e},
         UNCHANGED <<bus, purpose, hw>>, todo' = todo \ {e},
         \A f \in Entry : Listed(f) => Listed(f)', Untouched' \subseteq Untouched,
         purpose # None, answer = None,
         e \in Untouched' /\ hw[e] # None => Accounted(e)'
  PROVE  SeenInv'
<1> SUFFICES ASSUME NEW f \in Untouched', hw[f] # None
             PROVE  Accounted(f)'
  BY DEF SeenInv
<1>1. CASE f = e
  BY <1>1
<1>2. CASE f # e
  <2>1. f \in Entry /\ f \in Untouched /\ None # Err /\ f # at
    BY <1>2, WalkAssumption DEF Untouched
  <2>2. Accounted(f)
    BY <2>1 DEF WalkInv, SeenInv
  <2> QED BY <1>2, <2>1, <2>2, EntryIsFixed DEF Accounted
<1> QED BY <1>1, <1>2

LEMMA VisitWalks ==
  ASSUME TypeOK, WalkInv, NEW e \in Entry, Visit(e)
  PROVE  WalkInv'
<1>1. /\ UNCHANGED <<bus, hw, purpose, answer, disturbed>> /\ got' = <<>>
      /\ todo' = todo \ {e} /\ e \in todo /\ at = None /\ answer = None /\ purpose # None
  BY DEF Visit, history
<1>2. Untouched' = Untouched
  BY <1>1 DEF Untouched
<1>3. TodoInv' /\ AnswerInv'
  BY <1>1, <1>2 DEF WalkInv, TodoInv, AnswerInv, Told
<1>4. CASE SkippedByName(e)
  <2>1. UNCHANGED <<at, found>>
    BY <1>4 DEF Visit
  <2>2. RowsInv' /\ OnceInv' /\ AtInv'
    BY <1>1, <1>2, <2>1, LeaveOne DEF AtInv
  <2>3. Accounted(e)' /\ \A f \in Entry : Listed(f) => Listed(f)'
    BY <1>1, <1>4, <2>1, EntryIsFixed DEF Accounted, Dropped, Listed
  <2> QED BY <1>1, <1>2, <1>3, <2>2, <2>3, OthersAccounted DEF WalkInv
<1>5. CASE ~SkippedByName(e) /\ Attributes = 0
  <2>1. at' = None /\ found' = Append(found, Row(e, <<>>))
    BY <1>1, <1>5 DEF Visit
  <2>2. AllWanted(<<>>) /\ Enough(<<>>) /\ Len(<<>>) <= Attributes
    BY <1>5 DEF AllWanted, Enough
  <2>3. Valid(<<>>)
    BY <1>5 DEF Valid, Attributes, Required
  <2>4. e \in Untouched => Agrees(e, <<>>)
    BY <1>1, <1>5 DEF Agrees, WalkInv, TodoInv
  <2>5. /\ RowsInv' /\ OnceInv'
        /\ \A f \in Entry : Listed(f) => Listed(f)'
        /\ Listed(e)'
    <3>1. <<>> \in Seq(Value) /\ Untouched' \subseteq Untouched
      BY <1>2
    <3>2. e \in todo /\ UNCHANGED <<bus, purpose, hw>> /\ todo' = todo \ {e}
      BY <1>1
    <3>3. e \in Untouched' => Agrees(e, <<>>)
      BY <1>2, <2>4
    <3> QED BY <2>1, <2>2, <2>3, <3>1, <3>2, <3>3, KeepOne
  <2>6. Accounted(e)' /\ AtInv'
    BY <2>1, <2>5 DEF Accounted, AtInv
  <2> QED BY <1>1, <1>2, <1>3, <2>5, <2>6, OthersAccounted DEF WalkInv
<1>6. CASE ~SkippedByName(e) /\ Attributes # 0
  <2>1. at' = e /\ found' = found
    BY <1>6 DEF Visit
  <2>2. RowsInv' /\ OnceInv'
    BY <1>1, <1>2, <2>1, LeaveOne
  <2>3. Accounted(e)' /\ \A f \in Entry : Listed(f) => Listed(f)'
    BY <2>1 DEF Accounted, Listed
  <2>4. AllWanted(<<>>) /\ ~Enough(<<>>)
    BY <1>6 DEF AllWanted, Enough
  <2>5. e \in Untouched => Agrees(e, <<>>)
    BY <1>1, <1>6 DEF Agrees, WalkInv, TodoInv
  <2>6. AtInv'
    BY <1>1, <1>2, <2>1, <2>4, <2>5, EntryIsFixed, WalkIsFixed DEF AtInv
  <2> QED BY <1>1, <1>2, <1>3, <2>2, <2>3, <2>6, OthersAccounted DEF WalkInv
<1> QED BY <1>4, <1>5, <1>6

(* What settles a walk is read in two files, both wanted.                  *)
LEMMA Settles ==
  ASSUME TypeOK, NEW values,
         (bus = "power" /\ OnMains(values)) \/ (bus = "lock" /\ LockedOne(values))
  PROVE  /\ Len(values) = 2 /\ Len(values) = Attributes
         /\ \A value : Wanted(Len(values), value)
         /\ Enough(values) /\ Valid(values)
<1>1. Len(values) = 2
  BY DEF OnMains, LockedOne
<1>2. Attributes = 2
  BY DEF Attributes, Required, SysfsIds
<1> QED BY <1>1, <1>2 DEF Wanted, Enough, Valid

(* Reading one value of an entry; if the entry is untouched it is the one  *)
(* the entry shows next.                                                   *)
LEMMA TakeWalks ==
  ASSUME TypeOK, WalkInv, NEW e \in Entry, e = at, at # None, answer = None,
         NEW value \in Value, Take(value),
         UNCHANGED <<bus, hw, purpose, todo>>, Untouched' \subseteq Untouched,
         e \in Untouched' => value = hw[e].values[Len(got) + 1]
  PROVE  WalkInv'
<1> DEFINE values == Append(got, value)
           n == Len(got)
<1>1. /\ e \notin todo /\ n \in Nat /\ n < Attributes /\ Attributes \in Nat
      /\ AllWanted(got) /\ ~Enough(got) /\ purpose # None
      /\ e \in Untouched => Agrees(e, got)
      /\ None # Err
  BY AttributesType, WalkAssumption DEF TypeOK, WalkInv, AtInv
<1>2. /\ values \in Seq(Value) /\ Len(values) = n + 1 /\ n + 1 \in 1..Attributes
      /\ \A i \in 1..n : values[i] = got[i]
      /\ values[n + 1] = value
  BY <1>1 DEF TypeOK
<1>3. got' = values
  BY DEF Take
<1>4. e \in Untouched' => Agrees(e, values)
  <2>1. 1..Len(values) = 1..n \cup {n + 1}
    BY <1>1, <1>2
  <2> QED BY <1>1, <1>2, <2>1 DEF Agrees
<1>5. e \in Untouched' => \A i \in 1..n + 1 : hw[e].values[i] = values[i]
  BY <1>2, <1>4 DEF Agrees
<1> HIDE DEF values, n
<1>6. TodoInv'
  <2>1. UNCHANGED <<hw, todo, purpose>> /\ purpose # None
    BY <1>1
  <2> QED BY <2>1 DEF WalkInv, TodoInv
<1>7. (bus = "power" /\ OnMains(values)) \/ (bus = "lock" /\ LockedOne(values))
         => Wanted(n + 1, value) /\ Enough(values) /\ Valid(values)
  BY <1>2, Settles
<1>8. \/ answer' = None
      \/ bus = "power" /\ OnMains(values) /\ answer' = "Ac"
      \/ bus = "lock" /\ LockedOne(values) /\ answer' = "locked"
  BY DEF Take, values
<1>9. /\ todo' = todo \ {e} /\ UNCHANGED <<bus, purpose, hw>>
      /\ at \in {None, e} /\ (e \in todo \/ e = at)
  BY <1>1
<1>10. CASE ~Wanted(n + 1, value)
  <2>1. at' = None /\ found' = found
    BY <1>2, <1>10 DEF Take, values
  <2>2. answer' = None
    BY <1>8, <1>10, <1>7
  <2>3. RowsInv' /\ OnceInv'
    BY <1>1, <1>9, <2>1, LeaveOne
  <2>4. e \in Untouched' => Dropped(e)
    BY <1>2, <1>5, <1>10 DEF Dropped
  <2>5. SeenInv'
    <3>1. \A f \in Entry : Listed(f) => Listed(f)'
      BY <2>1 DEF Listed
    <3>2. e \in Untouched' /\ hw[e] # None => Accounted(e)'
      BY <2>4, EntryIsFixed DEF Accounted
    <3> QED BY <1>1, <1>9, <3>1, <3>2, OthersAccounted
  <2>6. AtInv' /\ AnswerInv'
    BY <2>1, <2>2 DEF AtInv, AnswerInv, Told
  <2> QED BY <1>6, <2>3, <2>5, <2>6 DEF WalkInv
<1>11. CASE Wanted(n + 1, value) /\ ~Enough(values)
  <2>1. at' = e /\ found' = found
    BY <1>2, <1>11 DEF Take, values
  <2>2. answer' = None
    BY <1>8, <1>11, <1>7
  <2>3. RowsInv' /\ OnceInv'
    BY <1>1, <1>9, <2>1, LeaveOne
  <2>4. SeenInv'
    <3>1. \A f \in Entry : Listed(f) => Listed(f)'
      BY <2>1 DEF Listed
    <3>2. Accounted(e)'
      BY <2>1 DEF Accounted
    <3> QED BY <1>1, <1>9, <3>1, <3>2, OthersAccounted
  <2>5. AllWanted(values)
    <3>1. 1..Len(values) = 1..n \cup {n + 1}
      BY <1>1, <1>2
    <3> QED BY <1>1, <1>2, <1>11, <3>1 DEF AllWanted, n
  <2>6. AtInv'
    BY <1>1, <1>3, <1>4, <1>11, <2>1, <2>5, EntryIsFixed, WalkIsFixed DEF AtInv
  <2>7. AnswerInv'
    BY <2>2 DEF AnswerInv, Told
  <2> QED BY <1>6, <2>3, <2>4, <2>6, <2>7 DEF WalkInv
<1>12. CASE Wanted(n + 1, value) /\ Enough(values) /\ ~Valid(values)
  <2>1. at' = None /\ found' = found
    BY <1>2, <1>12 DEF Take, values
  <2>2. answer' = None
    BY <1>8, <1>12, <1>7
  <2>3. RowsInv' /\ OnceInv'
    BY <1>1, <1>9, <2>1, LeaveOne
  <2>4. e \in Untouched' => Dropped(e)
    <3>1. bus = "usb" /\ ~(values[1] \in HexId /\ values[2] \in HexId)
      BY <1>12 DEF Valid
    <3>2. Len(values) = Attributes /\ 2 \in 1..Attributes /\ 1 \in 1..Attributes
      BY <1>12, <3>1 DEF Enough, Attributes, Required, SysfsIds
    <3>3. e \in Untouched' => hw[e].values[1] = values[1] /\ hw[e].values[2] = values[2]
      BY <1>2, <1>5, <3>2
    <3> QED BY <3>1, <3>3 DEF Dropped, Valid
  <2>5. SeenInv'
    <3>1. \A f \in Entry : Listed(f) => Listed(f)'
      BY <2>1 DEF Listed
    <3>2. e \in Untouched' /\ hw[e] # None => Accounted(e)'
      BY <2>4, EntryIsFixed DEF Accounted
    <3> QED BY <1>1, <1>9, <3>1, <3>2, OthersAccounted
  <2>6. AtInv' /\ AnswerInv'
    BY <2>1, <2>2 DEF AtInv, AnswerInv, Told
  <2> QED BY <1>6, <2>3, <2>5, <2>6 DEF WalkInv
<1>13. CASE Wanted(n + 1, value) /\ Enough(values) /\ Valid(values)
  <2>1. at' = None /\ found' = Append(found, Row(e, values))
    BY <1>2, <1>13 DEF Take, values
  <2>2. AllWanted(values)
    <3>1. 1..Len(values) = 1..n \cup {n + 1}
      BY <1>1, <1>2
    <3> QED BY <1>1, <1>2, <1>13, <3>1 DEF AllWanted, n
  <2>3. Len(values) <= Attributes
    BY <1>2
  <2>5. /\ RowsInv' /\ OnceInv'
        /\ \A f \in Entry : Listed(f) => Listed(f)'
        /\ Listed(e)' /\ Row(e, values) \in Rows(found')
    BY <1>1, <1>2, <1>4, <1>9, <1>13, <2>1, <2>2, <2>3, KeepOne
  <2>6. SeenInv'
    <3>1. Accounted(e)'
      BY <2>5 DEF Accounted
    <3> QED BY <1>1, <1>9, <2>5, <3>1, OthersAccounted
  <2>7. AtInv'
    BY <2>1 DEF AtInv
  <2>8. AnswerInv'
    <3>1. Row(e, values).values = values
      BY DEF Row
    <3>2. bus' = bus
      OBVIOUS
    <3> QED BY <1>8, <2>5, <3>1, <3>2 DEF AnswerInv, Told, EarlyAc, EarlyLocked
  <2> QED BY <1>6, <2>5, <2>6, <2>7, <2>8 DEF WalkInv
<1> QED BY <1>10, <1>11, <1>12, <1>13

LEMMA ReadWalks ==
  ASSUME TypeOK, WalkInv, ReadAttribute \/ ReadFails \/ ReadRefused
  PROVE  WalkInv'
<1>1. at # None /\ answer = None /\ at \in Entry
  BY WalkAssumption DEF ReadAttribute, ReadFails, ReadRefused, TypeOK
<1> PICK e \in Entry : e = at
  BY <1>1
<1>2. UNCHANGED <<bus, hw, purpose, todo>>
  BY DEF ReadAttribute, ReadFails, ReadRefused
<1>3. None \in Value
  BY DEF Value
<1>4. CASE ReadAttribute
  <2>1. Untouched' = Untouched
    BY <1>4 DEF ReadAttribute, history, Untouched
  <2>2. PICK value \in Value : /\ value = IF hw[e] = None THEN None ELSE hw[e].values[Len(got) + 1]
                               /\ Take(value)
    BY <1>1, <1>3, <1>4, NextValue DEF ReadAttribute
  <2>3. e \in Untouched => hw[e] # None
    BY <1>1 DEF WalkInv, AtInv, Agrees
  <2> QED BY <1>1, <1>2, <2>1, <2>2, <2>3, TakeWalks
<1>5. CASE disturbed' = Disturb({at}) /\ Take(None)
  <2>1. Untouched' \subseteq Untouched /\ e \notin Untouched'
    <3>1. {at} \in SUBSET Entry
      BY <1>1
    <3> QED BY <1>5, <3>1, DisturbType DEF Untouched
  <2> QED BY <1>1, <1>2, <1>3, <1>5, <2>1, TakeWalks
<1>6. CASE ReadRefused /\ Refuses
  <2>1. UNCHANGED <<at, got, found, disturbed>> /\ answer' = Err
    BY <1>6 DEF ReadRefused, Refuses
  <2>2. RowsInv' /\ OnceInv' /\ AtInv'
    BY <1>2, <2>1, EntryIsFixed, WalkIsFixed
    DEF WalkInv, RowsInv, KeptWell, OnceInv, AtInv, Untouched
  <2>3. SeenInv' /\ AnswerInv'
    BY <2>1 DEF SeenInv, AnswerInv, Told
  <2>4. TodoInv'
    <3>1. purpose # None
      BY <1>1 DEF TypeOK
    <3> QED BY <1>2, <2>1, <3>1 DEF WalkInv, TodoInv, Untouched
  <2> QED BY <2>2, <2>3, <2>4 DEF WalkInv
<1>7. CASE ReadRefused /\ ~Refuses
  BY <1>5, <1>7 DEF ReadRefused, Refuses
<1> QED BY <1>4, <1>5, <1>6, <1>7 DEF ReadFails

LEMMA WalkInit ==
  ASSUME Init
  PROVE  WalkInv
BY DEF Init, WalkInv, RowsInv, OnceInv, AtInv, SeenInv, TodoInv, AnswerInv, Told

LEMMA WalkStep ==
  ASSUME TypeOK, WalkInv, [Next]_vars
  PROVE  WalkInv'
<1>1. CASE UNCHANGED vars
  <2>1. UNCHANGED <<bus, hw, purpose, todo, at, got, found, answer, disturbed>>
    BY <1>1 DEF vars, walk, history
  <2>2. Untouched' = Untouched
    BY <2>1 DEF Untouched
  <2>3. RowsInv' /\ OnceInv' /\ AtInv'
    BY <2>1, <2>2, EntryIsFixed, WalkIsFixed DEF WalkInv, RowsInv, KeptWell, OnceInv, AtInv
  <2>4. SeenInv' /\ TodoInv'
    BY <2>1, <2>2, EntryIsFixed DEF WalkInv, SeenInv, TodoInv, Accounted, Listed
  <2>5. AnswerInv'
    BY <2>1, WalkIsFixed DEF WalkInv, AnswerInv, Whole, EarlyAc, EarlyLocked, Told
  <2> QED BY <2>3, <2>4, <2>5 DEF WalkInv
<1> QED BY <1>1, KernelWalks, OpenWalks, VisitWalks, ReadWalks, FinishWalks, DeliverWalks
        DEF Next, Walker

LEMMA WalkCorrect == Spec => [](TypeOK /\ WalkInv)
<1>1. Init => TypeOK /\ WalkInv
  BY TypesInit, WalkInit
<1>2. TypeOK /\ WalkInv /\ [Next]_vars => (TypeOK /\ WalkInv)'
  BY TypesStep, WalkStep
<1> QED BY <1>1, <1>2, PTL DEF Spec

---------------------------------------------------------------------------
(* What a reading says of the entries that stayed.                         *)

LEMMA RowsKept ==
  ASSUME TypeOK, WalkInv, NEW row \in Rows(found)
  PROVE  /\ row \in RowType /\ row.entry \in Entry /\ row.values \in Seq(Value)
         /\ Len(row.values) \in Nat
         /\ AllWanted(row.values) /\ Enough(row.values) /\ Valid(row.values)
         /\ row.entry \in Untouched => Agrees(row.entry, row.values)
<1> PICK i \in 1..Len(found) : row = found[i]
  BY DEF Rows
<1>1. KeptWell(row)
  BY DEF WalkInv, RowsInv
<1>2. row \in RowType
  BY DEF TypeOK
<1> QED BY <1>1, <1>2 DEF KeptWell, RowType

(* An untouched entry that is not left out for what it is, is in the list. *)
LEMMA StayedIsKept ==
  ASSUME TypeOK, WalkInv, Told, Whole, NEW e \in Untouched, hw[e] # None, ~Dropped(e)
  PROVE  \E row \in Rows(found) : row.entry = e /\ Agrees(e, row.values)
<1>1. purpose # None /\ answer # Err /\ e # None
  BY WalkAssumption DEF WalkInv, TodoInv, Told, Untouched
<1>2. Listed(e)
  BY <1>1 DEF WalkInv, SeenInv, Accounted, Whole
<1>3. PICK i \in 1..Len(found) : found[i].entry = e
  BY <1>2 DEF Listed
<1>4. found[i] \in Rows(found)
  BY DEF Rows
<1> QED BY <1>3, <1>4, RowsKept

(* What an entry is, in the words of the values it shows.                  *)
LEMMA ContentOf ==
  ASSUME TypeOK, NEW e \in Entry, hw[e] # None
  PROVE  /\ e \notin Part /\ bus \notin {"pci", "display"} => hw[e].id = IdOf(bus, e, hw[e].values)
         /\ bus = "usb" /\ e \in Part => hw[e].values[1] = None \/ hw[e].values[2] = None
         /\ bus \in {"usb.bsd", "network.bsd", "power", "lock"} => e \notin Part
         /\ bus = "network.bsd" => hw[e].values[1] # None
<1>1. hw[e] \in Content(bus, e) /\ bus \in Walked
  BY ShownValues DEF TypeOK
<1> QED BY <1>1, ContentAssumption

LEMMA TwoValues ==
  ASSUME NEW s \in Seq(Value), Len(s) = 2
  PROVE  s = <<s[1], s[2]>>
OBVIOUS

LEMMA SteadyIsUntouched ==
  ASSUME TypeOK, NEW e \in Steady
  PROVE  e \in Entry /\ e \in Untouched /\ hw[e] # None /\ e \notin Part
BY DEF Steady, Shown, Untouched

LEMMA NoneIsNoText == \A s \in Word \cup HexId \cup Entry : s # None
BY WalkAssumption

(* A supply that fed the machine all through a whole walk is found to.     *)
LEMMA FeederIsFound ==
  ASSUME TypeOK, WalkInv, Told, Whole, bus = "power", NEW e \in Steady, hw[e].id = "feeds"
  PROVE  \E row \in Rows(found) : OnMains(row.values)
<1>1. e \in Entry /\ e \in Untouched /\ hw[e] # None /\ e \notin Part
  BY SteadyIsUntouched
<1> DEFINE v == hw[e].values
<1>2. OnMains(<<v[1], v[2]>>)
  <2>1. hw[e].id = IdOf("power", e, v)
    BY <1>1, ContentOf
  <2>2. "feeds" # None
    BY NoneIsNoText DEF Word
  <2> QED BY <2>1, <2>2 DEF OnMains, IdOf, LinkBuses
<1>3. v[1] \in {"Mains", "Battery"} /\ v[1] # None
  BY <1>2, NoneIsNoText DEF OnMains, Word
<1>4. Attributes = 2
  BY DEF Attributes, Required, SysfsIds
<1>5. ~Dropped(e)
  BY <1>3, <1>4 DEF Dropped, SkippedByName, Wanted, Valid
<1>6. PICK row \in Rows(found) : row.entry = e /\ Agrees(e, row.values)
  BY <1>1, <1>5, StayedIsKept
<1>7. Len(row.values) = 2
  <2>1. Enough(row.values) /\ Len(row.values) \in Nat
    BY RowsKept
  <2>2. Len(row.values) = 1 => row.values[1] = v[1]
    BY <1>6 DEF Agrees
  <2> QED BY <1>3, <1>4, <2>1, <2>2 DEF Enough
<1>8. row.values = <<v[1], v[2]>>
  BY <1>6, <1>7, RowsKept, TwoValues DEF Agrees
<1> QED BY <1>2, <1>8

(* And a supply that is found to feed it does, unless it was touched.      *)
LEMMA FoundFeeds ==
  ASSUME TypeOK, WalkInv, bus = "power", NEW row \in Rows(found), OnMains(row.values)
  PROVE  SteadyWith("feeds") # {} \/ disturbed["walk"] # {}
<1>1. row.entry \in Entry /\ row.values \in Seq(Value) /\ Len(row.values) = 2
  BY RowsKept DEF OnMains
<1>2. CASE row.entry \in Untouched
  <2> DEFINE e == row.entry
             v == hw[e].values
  <2>1. Agrees(e, row.values)
    BY <1>2, RowsKept
  <2>2. row.values = <<v[1], v[2]>> /\ hw[e] # None
    BY <1>1, <2>1, TwoValues DEF Agrees
  <2>3. e \notin Part /\ hw[e].id = IdOf("power", e, v)
    BY <1>1, <2>2, ContentOf
  <2>4. hw[e].id = "feeds"
    BY <2>2, <2>3 DEF OnMains, IdOf, LinkBuses
  <2>5. e \in Steady
    BY <1>1, <1>2, <2>2, <2>3 DEF Steady, Shown, Untouched
  <2> QED BY <2>4, <2>5 DEF SteadyWith
<1>3. CASE row.entry \notin Untouched
  BY <1>1, <1>3 DEF Untouched
<1> QED BY <1>2, <1>3


(* A graphical session that stayed is in a whole list, as it shows.        *)
LEMMA SessionIsFound ==
  ASSUME TypeOK, WalkInv, Told, Whole, bus = "lock", NEW e \in Steady,
         hw[e].id \in {"locked", "unlocked"}
  PROVE  \E row \in Rows(found) : /\ row.entry = e
                                  /\ hw[e].id = "locked" => LockedOne(row.values)
<1>1. e \in Entry /\ e \in Untouched /\ hw[e] # None /\ e \notin Part
  BY SteadyIsUntouched
<1> DEFINE v == hw[e].values
<1>2. /\ v[1] = "graphical"
      /\ hw[e].id = "locked" => v[2] = "locked"
  <2>1. hw[e].id = IdOf("lock", e, v)
    BY <1>1, ContentOf
  <2>2. "locked" # None /\ "unlocked" # None
    BY NoneIsNoText DEF Word
  <2> QED BY <2>1, <2>2 DEF IdOf, LinkBuses
<1>3. Attributes = 2
  BY DEF Attributes, Required, SysfsIds
<1>4. ~Dropped(e)
  BY <1>2, <1>3 DEF Dropped, SkippedByName, Wanted, Valid
<1>5. PICK row \in Rows(found) : row.entry = e /\ Agrees(e, row.values)
  BY <1>1, <1>4, StayedIsKept
<1>6. Len(row.values) = 2
  BY <1>3, RowsKept DEF Enough
<1>7. row.values = <<v[1], v[2]>>
  BY <1>5, <1>6, RowsKept, TwoValues DEF Agrees
<1> QED BY <1>2, <1>5, <1>7 DEF LockedOne

LEMMA FoundLocked ==
  ASSUME TypeOK, WalkInv, bus = "lock", NEW row \in Rows(found), LockedOne(row.values)
  PROVE  SteadyWith("locked") # {} \/ disturbed["walk"] # {}
<1>1. row.entry \in Entry /\ row.values \in Seq(Value) /\ Len(row.values) = 2
  BY RowsKept DEF LockedOne
<1>2. CASE row.entry \in Untouched
  <2> DEFINE e == row.entry
             v == hw[e].values
  <2>1. Agrees(e, row.values)
    BY <1>2, RowsKept
  <2>2. v[1] = "graphical" /\ v[2] = "locked" /\ hw[e] # None
    BY <1>1, <2>1 DEF Agrees, LockedOne
  <2>3. e \notin Part /\ hw[e].id = IdOf("lock", e, v)
    BY <1>1, <2>2, ContentOf
  <2>4. hw[e].id = "locked"
    BY <2>2, <2>3 DEF IdOf, LinkBuses
  <2>5. e \in Steady
    BY <1>1, <1>2, <2>2, <2>3 DEF Steady, Shown, Untouched
  <2> QED BY <2>4, <2>5 DEF SteadyWith
<1>3. CASE row.entry \notin Untouched
  BY <1>1, <1>3 DEF Untouched
<1> QED BY <1>2, <1>3

(* An interface that stayed is in the list once, with the state it shows.  *)
LEMMA LinkIsTold ==
  ASSUME TypeOK, WalkInv, Told, Whole, bus \in LinkBuses, NEW e \in Steady
  PROVE  e \in DOMAIN answer /\ answer[e] = hw[e].id
<1>1. e \in Entry /\ e \in Untouched /\ hw[e] # None /\ e \notin Part
  BY SteadyIsUntouched
<1>2. hw[e].id = LinkOf(hw[e].values[1])
  BY <1>1, ContentOf DEF IdOf, LinkBuses
<1>3. Attributes = 1
  BY DEF Attributes, Required, SysfsIds, LinkBuses
<1>4. ~Dropped(e)
  BY <1>1, <1>3, ContentOf DEF Dropped, SkippedByName, Wanted, Valid, LinkBuses
<1>5. PICK row \in Rows(found) : row.entry = e /\ Agrees(e, row.values)
  BY <1>1, <1>4, StayedIsKept
<1> DEFINE told == CHOOSE r \in Rows(found) : r.entry = e
<1>6. told \in Rows(found) /\ told.entry = e
  BY <1>5
<1> HIDE DEF told
<1>7. told.values[1] = hw[e].values[1]
  <2>1. Agrees(e, told.values) /\ Enough(told.values) /\ Len(told.values) \in Nat
    BY <1>1, <1>6, RowsKept
  <2>2. Len(told.values) = 1
    BY <1>3, <2>1 DEF Enough, LinkBuses
  <2> QED BY <2>1, <2>2 DEF Agrees
<1>8. answer = [f \in {r.entry : r \in Rows(found)} |->
                  LinkOf((CHOOSE r \in Rows(found) : r.entry = f).values[1])]
  BY DEF Whole, Snapshot, UsbBuses, CardBuses, LinkBuses
<1>9. e \in {r.entry : r \in Rows(found)}
  BY <1>5
<1>10. answer[e] = LinkOf(told.values[1])
  BY <1>8, <1>9 DEF told
<1> QED BY <1>2, <1>7, <1>8, <1>9, <1>10

(* Power and sessions, from the rows.                                      *)
LEMMA ReadingIsRight ==
  ASSUME TypeOK, WalkInv
  PROVE  ReadingIsTrue
<1> SUFFICES ASSUME Told PROVE ReadingIsTrue
  BY DEF ReadingIsTrue
<1>1. Whole \/ EarlyAc \/ EarlyLocked
  BY DEF WalkInv, AnswerInv
<1>2. ASSUME bus = "power"
      PROVE  /\ answer \in {"Ac", "Battery", "Unknown"}
             /\ answer = "Ac" => SteadyWith("feeds") # {} \/ disturbed["walk"] # {}
             /\ answer # "Ac" => SteadyWith("feeds") = {}
  <2>1. /\ answer \in {"Ac", "Battery", "Unknown"}
        /\ answer = "Ac" => \E row \in Rows(found) : OnMains(row.values)
        /\ answer # "Ac" => Whole /\ ~\E row \in Rows(found) : OnMains(row.values)
    BY <1>1, <1>2 DEF Whole, EarlyAc, EarlyLocked, Snapshot, PowerOf, UsbBuses, CardBuses, LinkBuses
  <2>2. answer # "Ac" => SteadyWith("feeds") = {}
    BY <1>2, <2>1, FeederIsFound DEF SteadyWith
  <2> QED BY <1>2, <2>1, <2>2, FoundFeeds
<1>3. ASSUME bus = "lock"
      PROVE  /\ answer \in {"locked", "unlocked", "Unknown"}
             /\ answer = "locked" => SteadyWith("locked") # {} \/ disturbed["walk"] # {}
             /\ answer # "locked" => SteadyWith("locked") = {}
             /\ answer = "Unknown" => SteadyWith("unlocked") = {}
  <2>1. /\ answer \in {"locked", "unlocked", "Unknown"}
        /\ answer = "locked" => \E row \in Rows(found) : LockedOne(row.values)
        /\ answer # "locked" => Whole /\ ~\E row \in Rows(found) : LockedOne(row.values)
        /\ answer = "Unknown" => Whole /\ Rows(found) = {}
    BY <1>1, <1>3 DEF Whole, EarlyAc, EarlyLocked, Snapshot, LockOf, UsbBuses, CardBuses, LinkBuses
  <2>2. answer # "locked" => SteadyWith("locked") = {}
    BY <1>3, <2>1, SessionIsFound DEF SteadyWith
  <2>3. answer = "Unknown" => SteadyWith("unlocked") = {}
    BY <1>3, <2>1, SessionIsFound DEF SteadyWith
  <2> QED BY <1>3, <2>1, <2>2, <2>3, FoundLocked
<1>4. ASSUME bus \in LinkBuses
      PROVE  \A e \in Steady : e \in DOMAIN answer /\ answer[e] = hw[e].id
  <2>1. Whole
    BY <1>1, <1>4 DEF EarlyAc, EarlyLocked, LinkBuses
  <2> QED BY <1>4, <2>1, LinkIsTold
<1>5. bus = "power" /\ answer = "Unknown" => \A e \in Steady : hw[e].id # "feeds"
  BY <1>2 DEF SteadyWith
<1> QED BY <1>2, <1>3, <1>4, <1>5 DEF ReadingIsTrue

(* A reading never says the opposite of what stayed so all through it,     *)
(* whatever happens to the rest: get_power_state, the lock query and       *)
(* enumerate_network.                                                      *)
THEOREM ReadingCorrect == Spec => []ReadingIsTrue
<1>1. TypeOK /\ WalkInv => ReadingIsTrue
  BY ReadingIsRight
<1> QED BY <1>1, WalkCorrect, PTL

---------------------------------------------------------------------------
(* What a snapshot of devices holds.                                       *)

LEMMA InjectionBound ==
  ASSUME NEW S, NEW T, IsFiniteSet(T), NEW f \in [S -> T],
         \A x, y \in S : f[x] = f[y] => x = y
  PROVE  /\ IsFiniteSet(S) /\ IsFiniteSet(T)
         /\ Cardinality(S) \in Nat /\ Cardinality(T) \in Nat
         /\ Cardinality(S) <= Cardinality(T)
<1>1. f \in Injection(S, T)
  BY DEF Injection, IsInjective
<1> QED BY <1>1, FS_Injection, FS_CardinalityType

(* The rows of a USB id, and their entries: one each.                      *)
RowsOf(d)    == {i \in 1..Len(found) : UsbIdOf(found[i].values) = d}
EntriesOf(d) == {e \in Entry : \E i \in RowsOf(d) : found[i].entry = e}

LEMMA OneEach ==
  ASSUME TypeOK, WalkInv, NEW d
  PROVE  Cardinality(RowsOf(d)) = Cardinality(EntriesOf(d))
<1>1. /\ IsFiniteSet(EntriesOf(d))
      /\ \A i \in RowsOf(d) : found[i].entry \in EntriesOf(d)
      /\ \A i, j \in RowsOf(d) : found[i].entry = found[j].entry => i = j
  <2>1. EntriesOf(d) \in SUBSET Entry
    BY DEF EntriesOf
  <2>2. \A i \in 1..Len(found) : found[i].entry \in Entry
    <3>1. \A i \in 1..Len(found) : found[i] \in RowType
      BY DEF TypeOK
    <3> QED BY <3>1 DEF RowType
  <2> QED BY <2>1, <2>2, FS_Subset, WalkAssumption DEF EntriesOf, RowsOf, WalkInv, OnceInv
<1> DEFINE f == [i \in RowsOf(d) |-> found[i].entry]
           g == [e \in EntriesOf(d) |-> CHOOSE i \in RowsOf(d) : found[i].entry = e]
<1>2. f \in [RowsOf(d) -> EntriesOf(d)] /\ \A i, j \in RowsOf(d) : f[i] = f[j] => i = j
  BY <1>1
<1>3. g \in [EntriesOf(d) -> RowsOf(d)] /\ \A e \in EntriesOf(d) : found[g[e]].entry = e
  BY DEF EntriesOf
<1>4. \A x, y \in EntriesOf(d) : g[x] = g[y] => x = y
  BY <1>3
<1> HIDE DEF f, g
<1>5. /\ IsFiniteSet(RowsOf(d)) /\ Cardinality(RowsOf(d)) \in Nat
      /\ Cardinality(EntriesOf(d)) \in Nat
      /\ Cardinality(RowsOf(d)) <= Cardinality(EntriesOf(d))
  BY <1>1, <1>2, InjectionBound
<1>6. Cardinality(EntriesOf(d)) <= Cardinality(RowsOf(d))
  BY <1>3, <1>4, <1>5, InjectionBound
<1> QED BY <1>5, <1>6

(* A USB device that stayed is in a whole list.                            *)
LEMMA UsbIsKept ==
  ASSUME TypeOK, WalkInv, Told, Whole, bus \in UsbBuses, NEW d \in UsbId, NEW e \in SteadyWith(d)
  PROVE  e \in EntriesOf(d)
<1> DEFINE v == hw[e].values
<1>1. /\ e \in Entry /\ e \in Untouched /\ hw[e] # None /\ e \notin Part
      /\ hw[e].id = d /\ d # None
  BY SteadyIsUntouched, IdentityAssumption DEF SteadyWith
<1>2. d = IdOf(bus, e, v)
  BY <1>1, ContentOf DEF UsbBuses
<1>3. CASE bus = "usb"
  <2>1. v[1] \in HexId /\ v[2] \in HexId /\ d = <<v[1], v[2]>>
    BY <1>1, <1>2, <1>3 DEF IdOf, LinkBuses
  <2>2. v[1] # None /\ v[2] # None
    BY <2>1, NoneIsNoText
  <2>3. ~Dropped(e)
    BY <1>1, <1>3, <2>1, <2>2 DEF Dropped, SkippedByName, Wanted, Valid, Required
  <2>4. PICK row \in Rows(found) : row.entry = e /\ Agrees(e, row.values)
    BY <1>1, <2>3, StayedIsKept
  <2>5. Len(row.values) \in Nat /\ Len(row.values) >= 2
    BY <1>3, <2>4, RowsKept DEF Enough, Attributes, Required, SysfsIds
  <2>6. UsbIdOf(row.values) = d
    BY <1>3, <2>1, <2>4, <2>5 DEF UsbIdOf, Agrees
  <2> QED BY <1>1, <2>4, <2>6 DEF Rows, EntriesOf, RowsOf
<1>4. CASE bus = "usb.bsd"
  <2>1. d = v[1]
    BY <1>2, <1>4 DEF IdOf, LinkBuses
  <2>2. ~Dropped(e)
    BY <1>1, <1>4, <2>1 DEF Dropped, SkippedByName, Wanted, Valid, Attributes, Required, SysfsIds
  <2>3. PICK row \in Rows(found) : row.entry = e /\ Agrees(e, row.values)
    BY <1>1, <2>2, StayedIsKept
  <2>4. Len(row.values) = 1
    BY <1>4, <2>3, RowsKept DEF Enough, Attributes, Required, SysfsIds
  <2>5. UsbIdOf(row.values) = d
    BY <1>4, <2>1, <2>3, <2>4 DEF UsbIdOf, Agrees
  <2> QED BY <1>1, <2>3, <2>5 DEF Rows, EntriesOf, RowsOf
<1> QED BY <1>3, <1>4 DEF UsbBuses

(* And what is there besides was touched.                                  *)
LEMMA UsbIsThere ==
  ASSUME TypeOK, WalkInv, bus \in UsbBuses, NEW d \in UsbId,
         NEW e \in EntriesOf(d), e \in Untouched
  PROVE  e \in SteadyWith(d)
<1> PICK row \in Rows(found) : row.entry = e /\ UsbIdOf(row.values) = d
  BY DEF EntriesOf, RowsOf, Rows
<1> DEFINE v == hw[e].values
<1>1. /\ e \in Entry /\ Agrees(e, row.values) /\ hw[e] # None
      /\ Enough(row.values) /\ Valid(row.values) /\ Len(row.values) \in Nat
  BY RowsKept DEF Agrees
<1>2. CASE bus = "usb"
  <2>1. Len(row.values) >= 2
    BY <1>1, <1>2 DEF Enough, Attributes, Required, SysfsIds
  <2>2. v[1] = row.values[1] /\ v[2] = row.values[2]
    BY <1>1, <2>1 DEF Agrees
  <2>3. v[1] \in HexId /\ v[2] \in HexId /\ d = <<v[1], v[2]>>
    BY <1>1, <1>2, <2>2 DEF Valid, UsbIdOf
  <2>4. e \notin Part
    BY <1>1, <1>2, <2>3, ContentOf, NoneIsNoText
  <2>5. hw[e].id = d
    BY <1>1, <1>2, <2>3, <2>4, ContentOf DEF IdOf, LinkBuses
  <2> QED BY <1>1, <2>4, <2>5 DEF SteadyWith, Steady, Shown, Untouched
<1>3. CASE bus = "usb.bsd"
  <2>1. Len(row.values) = 1
    BY <1>1, <1>3 DEF Enough, Attributes, Required, SysfsIds
  <2>2. v[1] = d
    BY <1>1, <1>3, <2>1 DEF Agrees, UsbIdOf
  <2>3. e \notin Part /\ hw[e].id = IdOf("usb.bsd", e, v)
    BY <1>1, <1>3, ContentOf
  <2>4. hw[e].id = d
    BY <2>2, <2>3 DEF IdOf, LinkBuses
  <2> QED BY <1>1, <2>3, <2>4 DEF SteadyWith, Steady, Shown, Untouched
<1> QED BY <1>2, <1>3 DEF UsbBuses

LEMMA UsbIsCounted ==
  ASSUME TypeOK, WalkInv, Told, Whole, bus \in UsbBuses, NEW d \in UsbId
  PROVE  LET n == Cardinality(SteadyWith(d))
         IN  answer[d] \in n..(n + Cardinality(disturbed["walk"]))
<1> DEFINE kept == EntriesOf(d)
           steady == SteadyWith(d)
           touched == disturbed["walk"]
<1>1. kept \subseteq Entry /\ steady \subseteq Entry /\ touched \subseteq Entry
  BY SteadyIsUntouched DEF EntriesOf, SteadyWith, TypeOK
<1>2. steady \subseteq kept
  BY UsbIsKept
<1>3. kept \subseteq steady \cup touched
  BY <1>1, UsbIsThere DEF Untouched
<1>4. answer[d] = Cardinality(kept)
  <2>1. answer = Counts(found)
    BY DEF Whole, Snapshot, UsbBuses, CardBuses, LinkBuses
  <2>2. answer[d] = Cardinality(RowsOf(d))
    BY <2>1 DEF Counts, RowsOf
  <2> QED BY <2>2, OneEach
<1> HIDE DEF kept, steady, touched
<1>5. IsFiniteSet(kept) /\ IsFiniteSet(steady) /\ IsFiniteSet(touched)
  BY <1>1, FS_Subset, WalkAssumption
<1>6. /\ Cardinality(steady) <= Cardinality(kept)
      /\ Cardinality(kept) <= Cardinality(steady \cup touched)
      /\ IsFiniteSet(steady \cup touched)
  BY <1>2, <1>3, <1>5, FS_Subset, FS_Union
<1>7. Cardinality(steady \cup touched) <= Cardinality(steady) + Cardinality(touched)
  <2>1. /\ Cardinality(steady \cap touched) \in Nat
        /\ Cardinality(steady) \in Nat /\ Cardinality(touched) \in Nat
    BY <1>5, FS_Intersection, FS_CardinalityType
  <2>2. Cardinality(steady \cup touched)
          = Cardinality(steady) + Cardinality(touched) - Cardinality(steady \cap touched)
    BY <1>5, FS_Union
  <2> QED BY <2>1, <2>2
<1>8. /\ Cardinality(steady) \in Nat /\ Cardinality(kept) \in Nat /\ Cardinality(touched) \in Nat
      /\ Cardinality(steady \cup touched) \in Nat
  BY <1>5, <1>6, FS_CardinalityType
<1>9. Cardinality(kept) \in Cardinality(steady)..(Cardinality(steady) + Cardinality(touched))
  BY <1>6, <1>7, <1>8
<1> QED BY <1>4, <1>9 DEF steady, touched


(* Cards and Thunderbolt devices are known by one key, or another.         *)
SetBuses  == {"thunderbolt", "sdcard", "sdcard.bsd"}
KeyOf(row) == IF bus = "thunderbolt" THEN row.values[1] ELSE CardOf(row)

LEMMA KeyShown ==
  ASSUME TypeOK, WalkInv, bus \in SetBuses, NEW row \in Rows(found), row.entry \in Untouched
  PROVE  /\ row.entry \in Steady
         /\ hw[row.entry].id = KeyOf(row) /\ KeyOf(row) # None
<1> DEFINE e == row.entry
           v == hw[e].values
<1>1. /\ e \in Entry /\ Agrees(e, row.values) /\ hw[e] # None
      /\ Enough(row.values) /\ AllWanted(row.values) /\ Len(row.values) \in Nat
      /\ ~SkippedByName(e)
  BY RowsKept DEF Agrees
<1>2. e \notin Part /\ e \in Steady
  BY <1>1 DEF SkippedByName, SetBuses, Steady, Shown, Untouched
<1>3. hw[e].id = IdOf(bus, e, v)
  BY <1>1, <1>2, ContentOf DEF SetBuses
<1> HIDE DEF e
<1>4. CASE bus = "thunderbolt"
  <2>1. Len(row.values) >= 1
    BY <1>1, <1>4 DEF Enough, Attributes, Required, SysfsIds
  <2>2. v[1] = row.values[1] /\ Wanted(1, row.values[1])
    BY <1>1, <2>1 DEF Agrees, AllWanted
  <2>3. v[1] # None /\ v[1] # "empty"
    BY <1>4, <2>2 DEF Wanted, Required
  <2> QED BY <1>2, <1>3, <1>4, <2>2, <2>3 DEF IdOf, LinkBuses, KeyOf, e
<1>5. CASE bus = "sdcard"
  <2>1. Len(row.values) >= 2
    BY <1>1, <1>5 DEF Enough, Attributes, Required, SysfsIds
  <2>2. /\ v[1] = row.values[1] /\ Wanted(1, row.values[1])
        /\ v[2] = row.values[2] /\ Wanted(2, row.values[2])
    BY <1>1, <2>1 DEF Agrees, AllWanted
  <2>3. v[1] # None /\ v[2] # None /\ v[2] # "empty"
    BY <1>5, <2>2 DEF Wanted, Required
  <2> QED BY <1>2, <1>3, <1>5, <2>2, <2>3 DEF IdOf, LinkBuses, KeyOf, CardOf, e
<1>6. CASE bus = "sdcard.bsd"
  <2>1. Len(row.values) = 1
    BY <1>1, <1>6 DEF Enough, Attributes, Required, SysfsIds
  <2>2. v[1] = row.values[1]
    BY <1>1, <2>1 DEF Agrees
  <2>3. e # None
    BY <1>1, NoneIsNoText
  <2> QED BY <1>2, <1>3, <1>6, <2>2, <2>3 DEF IdOf, LinkBuses, KeyOf, CardOf, e
<1> QED BY <1>4, <1>5, <1>6 DEF SetBuses

(* One that stayed has its key in a whole list.                            *)
LEMMA KeyIsKept ==
  ASSUME TypeOK, WalkInv, Told, Whole, bus \in SetBuses, NEW e \in Steady, hw[e].id # None
  PROVE  \E row \in Rows(found) : KeyOf(row) = hw[e].id
<1> DEFINE v == hw[e].values
<1>1. e \in Entry /\ e \in Untouched /\ hw[e] # None /\ e \notin Part
  BY SteadyIsUntouched
<1>2. hw[e].id = IdOf(bus, e, v)
  BY <1>1, ContentOf DEF SetBuses
<1>3. ~Dropped(e)
  <2>1. ~SkippedByName(e) /\ Valid(v)
    BY <1>1 DEF SkippedByName, Valid, SetBuses
  <2>2. CASE bus = "thunderbolt"
    <3>1. v[1] # None /\ v[1] # "empty"
      BY <1>2, <2>2 DEF IdOf, LinkBuses
    <3> QED BY <2>1, <2>2, <3>1, AttributesType DEF Dropped, Wanted, Required
  <2>3. CASE bus = "sdcard"
    <3>1. v[1] # None /\ v[2] # None /\ v[2] # "empty"
      BY <1>2, <2>3 DEF IdOf, LinkBuses
    <3> QED BY <2>1, <2>3, <3>1, AttributesType DEF Dropped, Wanted, Required
  <2>4. CASE bus = "sdcard.bsd"
    BY <2>1, <2>4 DEF Dropped, Wanted
  <2> QED BY <2>2, <2>3, <2>4 DEF SetBuses
<1>4. PICK row \in Rows(found) : row.entry = e
  BY <1>1, <1>3, StayedIsKept
<1> QED BY <1>1, <1>4, KeyShown

LEMMA KeysAreSeen ==
  ASSUME TypeOK, WalkInv, Told, Whole, bus \in SetBuses
  PROVE  LET ids == {hw[e].id : e \in Steady} \ {None}
         IN  /\ ids \subseteq answer
             /\ Cardinality(answer \ ids) <= Cardinality(disturbed["walk"])
<1> DEFINE ids == {hw[e].id : e \in Steady} \ {None}
           extra == answer \ ids
           touched == disturbed["walk"]
<1>1. answer = {KeyOf(r) : r \in Rows(found)}
  BY DEF Whole, Snapshot, KeyOf, SetBuses, UsbBuses, CardBuses, LinkBuses
<1>2. ids \subseteq answer
  BY <1>1, KeyIsKept
<1>3. \A x \in extra : \E e \in touched : \E r \in Rows(found) : KeyOf(r) = x /\ r.entry = e
  <2> SUFFICES ASSUME NEW x \in extra
               PROVE  \E e \in touched : \E r \in Rows(found) : KeyOf(r) = x /\ r.entry = e
    OBVIOUS
  <2>1. PICK r \in Rows(found) : KeyOf(r) = x
    BY <1>1
  <2>2. r.entry \notin Untouched
    BY <2>1, KeyShown
  <2>3. r.entry \in touched
    BY <2>2, RowsKept DEF Untouched
  <2> QED BY <2>1, <2>3
<1>4. \A r, q \in Rows(found) : r.entry = q.entry => r = q
  BY DEF Rows, WalkInv, OnceInv
<1> DEFINE f == [x \in extra |->
                   CHOOSE e \in touched : \E r \in Rows(found) : KeyOf(r) = x /\ r.entry = e]
<1>5. /\ f \in [extra -> touched]
      /\ \A x \in extra : \E r \in Rows(found) : KeyOf(r) = x /\ r.entry = f[x]
  BY <1>3
<1>6. \A x, y \in extra : f[x] = f[y] => x = y
  BY <1>4, <1>5
<1>7. IsFiniteSet(touched)
  <2>1. touched \in SUBSET Entry
    BY DEF TypeOK
  <2> QED BY <2>1, FS_Subset, WalkAssumption
<1> HIDE DEF f, extra, touched
<1>8. Cardinality(extra) <= Cardinality(touched)
  BY <1>5, <1>6, <1>7, InjectionBound
<1> QED BY <1>2, <1>8 DEF extra, touched

(* Every device that was plugged in for the whole of a walk is in its      *)
(* snapshot, whatever is plugged, pulled or refused meanwhile; what is     *)
(* there besides was touched: enumerate_devices, enumerate_thunderbolt and *)
(* enumerate_sd_cards.                                                     *)
THEOREM SteadyCorrect == Spec => []SteadyIsSeen
<1>1. TypeOK /\ WalkInv => SteadyIsSeen
  <2> SUFFICES ASSUME TypeOK, WalkInv, Told PROVE SteadyIsSeen
    BY DEF SteadyIsSeen
  <2>1. bus \notin {"power", "lock"} => Whole
    BY DEF WalkInv, AnswerInv, EarlyAc, EarlyLocked
  <2> QED BY <2>1, UsbIsCounted, KeysAreSeen DEF SteadyIsSeen, SetBuses, UsbBuses
<1> QED BY <1>1, WalkCorrect, PTL

---------------------------------------------------------------------------
(* A machine nothing happens to.                                           *)

Devices == Shown \ Part
PortAt(e) == PortOf(Row(e, hw[e].values))

(* A snapshot fits the machine if it says what is there now, and nothing   *)
(* else: of a supply only whether it feeds the machine, and of sessions    *)
(* nothing, since no check compares them.                                  *)
Fits(s) ==
  /\ bus \in UsbBuses => s = [d \in UsbId |-> Cardinality({e \in Devices : hw[e].id = d})]
  /\ bus \in SetBuses => s = {hw[e].id : e \in Devices} \ {None}
  /\ bus = "pci" => s = Shown \ Ignored
  /\ bus = "display" => /\ Rows(s) = {PortAt(e) : e \in Devices}
                        /\ \A i, j \in 1..Len(s) : s[i].name = s[j].name => i = j
  /\ bus \in LinkBuses => s = [e \in Devices |-> hw[e].id]
  /\ bus = "power" => (s = "Ac" <=> \E e \in Devices : hw[e].id = "feeds")

(* The connectors of one machine have different names.                     *)
DistinctNames == \A e, f \in Entry \ Part : NameOf[e] = NameOf[f] => e = f

(* What a whole walk of it returns.                                        *)
LEMMA UntouchedRows ==
  ASSUME TypeOK, WalkInv, disturbed["walk"] = {}
  PROVE  /\ Untouched = Entry /\ Steady = Devices
         /\ \A row \in Rows(found) : Agrees(row.entry, row.values)
<1>1. Untouched = Entry
  BY DEF Untouched
<1>2. Steady = Devices
  BY DEF Steady, Devices, Shown
<1> QED BY <1>1, <1>2, RowsKept

LEMMA UsbFits ==
  ASSUME TypeOK, WalkInv, Told, Whole, disturbed["walk"] = {}, bus \in UsbBuses
  PROVE  answer = [d \in UsbId |-> Cardinality({e \in Devices : hw[e].id = d})]
<1>1. answer = [d \in UsbId |-> Cardinality(RowsOf(d))]
  BY DEF Whole, Snapshot, UsbBuses, CardBuses, LinkBuses, Counts, RowsOf
<1>2. ASSUME NEW d \in UsbId
      PROVE  Cardinality(RowsOf(d)) = Cardinality({e \in Devices : hw[e].id = d})
  <2>1. EntriesOf(d) = SteadyWith(d)
    <3>1. EntriesOf(d) \subseteq Untouched
      BY UntouchedRows DEF EntriesOf
    <3> QED BY <3>1, UsbIsKept, UsbIsThere
  <2>2. SteadyWith(d) = {e \in Devices : hw[e].id = d}
    BY UntouchedRows DEF SteadyWith
  <2> QED BY <2>1, <2>2, OneEach
<1> QED BY <1>1, <1>2

LEMMA SetFits ==
  ASSUME TypeOK, WalkInv, Told, Whole, disturbed["walk"] = {}, bus \in SetBuses
  PROVE  answer = {hw[e].id : e \in Devices} \ {None}
<1>1. answer = {KeyOf(r) : r \in Rows(found)}
  BY DEF Whole, Snapshot, KeyOf, SetBuses, UsbBuses, CardBuses, LinkBuses
<1>2. \A r \in Rows(found) : r.entry \in Devices /\ hw[r.entry].id = KeyOf(r) /\ KeyOf(r) # None
  BY KeyShown, RowsKept, UntouchedRows
<1>3. \A e \in Devices : hw[e].id # None => \E r \in Rows(found) : KeyOf(r) = hw[e].id
  BY KeyIsKept, UntouchedRows
<1> QED BY <1>1, <1>2, <1>3

LEMMA PciFits ==
  ASSUME TypeOK, WalkInv, Told, Whole, disturbed["walk"] = {}, bus = "pci"
  PROVE  answer = Shown \ Ignored
<1>1. answer = {r.entry : r \in Rows(found)}
  BY DEF Whole, Snapshot, UsbBuses, CardBuses, LinkBuses
<1>2. \A r \in Rows(found) : r.entry \in Shown \ Ignored
  BY RowsKept, UntouchedRows DEF Agrees, SkippedByName, Shown
<1>3. ASSUME NEW e \in Shown \ Ignored
      PROVE  \E r \in Rows(found) : r.entry = e
  <2>1. e \in Untouched /\ hw[e] # None
    BY UntouchedRows DEF Shown
  <2>2. purpose # "list"
    BY <1>3 DEF TypeOK
  <2>3. ~Dropped(e)
    BY <2>2 DEF Dropped, SkippedByName, Valid, Attributes, Required
  <2> QED BY <2>1, <2>3, StayedIsKept
<1> QED BY <1>1, <1>2, <1>3

LEMMA LinksFit ==
  ASSUME TypeOK, WalkInv, Told, Whole, disturbed["walk"] = {}, bus \in LinkBuses
  PROVE  answer = [e \in Devices |-> hw[e].id]
<1>1. answer = [f \in {r.entry : r \in Rows(found)} |->
                  LinkOf((CHOOSE r \in Rows(found) : r.entry = f).values[1])]
  BY DEF Whole, Snapshot, UsbBuses, CardBuses, LinkBuses
<1>2. \A e \in Devices : e \in DOMAIN answer /\ answer[e] = hw[e].id
  BY LinkIsTold, UntouchedRows
<1>3. \A r \in Rows(found) : r.entry \in Devices
  <2> SUFFICES ASSUME NEW r \in Rows(found)
               PROVE  r.entry \in Devices
    OBVIOUS
  <2>1. r.entry \in Entry /\ hw[r.entry] # None /\ ~SkippedByName(r.entry)
    BY RowsKept, UntouchedRows DEF Agrees
  <2>2. r.entry \notin Part
    BY <2>1, ContentOf DEF SkippedByName, LinkBuses
  <2> QED BY <2>1, <2>2 DEF Devices, Shown
<1>4. DOMAIN answer = Devices
  <2>1. DOMAIN answer = {r.entry : r \in Rows(found)}
    BY <1>1
  <2>2. Devices \subseteq DOMAIN answer
    BY <1>2
  <2> QED BY <1>3, <2>1, <2>2
<1>5. answer = [e \in DOMAIN answer |-> answer[e]]
  BY <1>1
<1> QED BY <1>2, <1>4, <1>5

LEMMA PortsFit ==
  ASSUME TypeOK, WalkInv, Told, Whole, disturbed["walk"] = {}, bus = "display", DistinctNames
  PROVE  /\ Rows(answer) = {PortAt(e) : e \in Devices}
         /\ \A i, j \in 1..Len(answer) : answer[i].name = answer[j].name => i = j
<1>1. answer = [i \in 1..Len(found) |-> PortOf(found[i])]
  BY DEF Whole, Snapshot, UsbBuses, CardBuses, LinkBuses
<1>2. Len(found) \in Nat /\ Len(answer) = Len(found)
  <2>1. Len(found) \in Nat
    BY DEF TypeOK
  <2> QED BY <1>1, <2>1
<1>3. \A r \in Rows(found) : r.entry \in Devices /\ PortOf(r) = PortAt(r.entry)
  <2> SUFFICES ASSUME NEW r \in Rows(found)
               PROVE  r.entry \in Devices /\ PortOf(r) = PortAt(r.entry)
    OBVIOUS
  <2>1. /\ r.entry \in Entry /\ Agrees(r.entry, r.values) /\ Enough(r.values)
        /\ Len(r.values) \in Nat
    BY RowsKept, UntouchedRows
  <2>2. r.entry \in Devices
    BY <2>1 DEF Agrees, SkippedByName, Devices, Shown
  <2>3. Attributes = 2
    BY DEF Attributes, Required, SysfsIds
  <2>4. Len(r.values) = 2 \/ (Len(r.values) = 1 /\ r.values[1] # "connected")
    BY <2>1, <2>3 DEF Enough
  <2>5. /\ r.values[1] = hw[r.entry].values[1]
        /\ r.values[1] = "connected" => r.values[2] = hw[r.entry].values[2]
    BY <2>1, <2>4 DEF Agrees
  <2> QED BY <2>2, <2>5 DEF PortOf, PortAt, Row
<1>4. ASSUME NEW e \in Devices
      PROVE  \E r \in Rows(found) : r.entry = e
  <2>1. e \in Untouched /\ hw[e] # None /\ e \notin Part
    BY UntouchedRows DEF Devices, Shown
  <2>2. ~Dropped(e)
    BY <2>1 DEF Dropped, SkippedByName, Valid, Wanted
  <2> QED BY <2>1, <2>2, StayedIsKept
<1>5. Rows(answer) = {PortOf(r) : r \in Rows(found)}
  BY <1>1, <1>2 DEF Rows
<1>6. Rows(answer) = {PortAt(e) : e \in Devices}
  BY <1>3, <1>4, <1>5
<1>7. ASSUME NEW i \in 1..Len(answer), NEW j \in 1..Len(answer), answer[i].name = answer[j].name
      PROVE  i = j
  <2>1. found[i] \in Rows(found) /\ found[j] \in Rows(found)
    BY <1>2 DEF Rows
  <2>2. NameOf[found[i].entry] = NameOf[found[j].entry]
    BY <1>1, <1>2, <1>7 DEF PortOf
  <2>3. found[i].entry \in Entry \ Part /\ found[j].entry \in Entry \ Part
    BY <1>3, <2>1 DEF Devices, Shown
  <2>4. found[i].entry = found[j].entry
    BY <2>2, <2>3 DEF DistinctNames
  <2> QED BY <1>2, <2>4 DEF WalkInv, OnceInv
<1> QED BY <1>6, <1>7

LEMMA AnswerFits ==
  ASSUME TypeOK, WalkInv, Told, disturbed["walk"] = {}, "display" \in Walked => DistinctNames
  PROVE  Fits(answer)
<1>1. bus \notin {"power", "lock"} => Whole
  BY DEF WalkInv, AnswerInv, EarlyAc, EarlyLocked
<1>2. ASSUME bus = "power"
      PROVE  answer = "Ac" <=> \E e \in Devices : hw[e].id = "feeds"
  <2>1. SteadyWith("feeds") = {e \in Devices : hw[e].id = "feeds"}
    BY UntouchedRows DEF SteadyWith
  <2>2. ReadingIsTrue /\ "Ac" # "Battery"
    BY ReadingIsRight
  <2>3. answer = "Ac" => SteadyWith("feeds") # {}
    BY <1>2, <2>2 DEF ReadingIsTrue
  <2>4. answer # "Ac" => SteadyWith("feeds") = {}
    <3>1. Steady = Devices
      BY UntouchedRows
    <3> QED BY <1>2, <2>1, <2>2, <3>1 DEF ReadingIsTrue
  <2> QED BY <2>1, <2>3, <2>4
<1>3. bus = "display" => DistinctNames
  BY DEF TypeOK
<1>4. bus \in UsbBuses \cup SetBuses \cup LinkBuses \cup {"pci", "display"} => Whole
  BY <1>1 DEF UsbBuses, SetBuses, LinkBuses
<1> QED BY <1>2, <1>3, <1>4, UsbFits, SetFits, PciFits, LinksFit, PortsFit DEF Fits

(* Nothing is gained over a snapshot that is the same, or that the         *)
(* whitelist covers; and nothing is lost against the same.                 *)
LEMMA NothingGained ==
  ASSUME NEW current, NEW before, NEW white,
         \A d \in UsbId : current[d] \in Nat /\ before[d] \in Nat /\ white[d] \in Nat,
         current = before \/ current = white
  PROVE  UsbGains(current, before, white) = {}
<1> DEFINE unknown == {d \in UsbId : current[d] > 0 /\ before[d] = 0 /\ white[d] = 0}
           tooMany == {d \in UsbId : current[d] > before[d] + white[d]}
<1>1. unknown = {}
  OBVIOUS
<1>2. tooMany = {}
  <2> SUFFICES ASSUME NEW d \in UsbId PROVE ~(current[d] > before[d] + white[d])
    OBVIOUS
  <2>1. current[d] \in Nat /\ before[d] \in Nat /\ white[d] \in Nat
    OBVIOUS
  <2>2. current[d] = before[d] \/ current[d] = white[d]
    OBVIOUS
  <2> QED BY <2>1, <2>2
<1> QED BY <1>1, <1>2 DEF UsbGains

LEMMA NothingLost ==
  ASSUME NEW current, \A d \in UsbId : current[d] \in Nat
  PROVE  UsbLosses(current, current) = {}
<1>1. {d \in UsbId : current[d] > 0 /\ current[d] = 0} = {}
  OBVIOUS
<1>2. {d \in UsbId : 0 < current[d] /\ current[d] < current[d]} = {}
  OBVIOUS
<1> QED BY <1>1, <1>2 DEF UsbLosses

(* Two snapshots that fit the same machine show no change between them.    *)
CountsInv == bus \in UsbBuses => /\ baseline # None => baseline \in [UsbId -> Nat]
                                 /\ whitelist \in [UsbId -> Nat]

LEMMA SameIsQuiet ==
  ASSUME TypeOK, CountsInv, baseline # None \/ bus = "lock", NEW current,
         Fits(current), Fits(baseline)
  PROVE  Changes(current) = {}
<1>1. CASE bus \in UsbBuses
  <2>1. /\ current = baseline
        /\ \A d \in UsbId : baseline[d] \in Nat /\ whitelist[d] \in Nat
    BY <1>1 DEF Fits, CountsInv, UsbBuses
  <2>2. UsbGains(baseline, baseline, whitelist) = {}
    BY <2>1, NothingGained
  <2>3. UsbLosses(baseline, baseline) = {}
    BY <2>1, NothingLost
  <2>4. Changes(current) = UsbChanges(current, baseline, whitelist)
    BY <1>1 DEF Changes, UsbBuses, CardBuses, LinkBuses
  <2> QED BY <2>1, <2>2, <2>3, <2>4 DEF UsbChanges, FirstOf
<1>2. CASE bus \in SetBuses
  BY <1>2 DEF Fits, Changes, SetChanges, FirstOf, SetBuses, UsbBuses, CardBuses, LinkBuses
<1>3. CASE bus = "pci"
  BY <1>3 DEF Fits, Changes, PciChanges, FirstOf, UsbBuses, CardBuses, LinkBuses
<1>4. CASE bus = "display"
  <2>1. /\ Rows(current) = Rows(baseline)
        /\ \A i, j \in 1..Len(baseline) : baseline[i].name = baseline[j].name => i = j
    BY <1>4 DEF Fits
  <2>2. ASSUME NEW c \in Rows(baseline)
        PROVE  Named(baseline, c.name) # {} /\ Get(baseline, c.name) = c
    <3>1. PICK i \in 1..Len(baseline) : c = baseline[i]
      BY DEF Rows
    <3>2. Named(baseline, c.name) = {i}
      BY <2>1, <3>1 DEF Named
    <3> DEFINE k == CHOOSE n \in Named(baseline, c.name) : \A j \in Named(baseline, c.name) : n <= j
    <3>3. k = i
      BY <3>1, <3>2
    <3> QED BY <3>1, <3>2, <3>3 DEF Get
  <2>3. \A c \in Rows(baseline) : Named(current, c.name) # {}
    BY <2>1 DEF Rows, Named
  <2>4. Changes(current) = ConnectorChanges(current, baseline)
    BY <1>4 DEF Changes, UsbBuses, CardBuses, LinkBuses
  <2> QED BY <2>1, <2>2, <2>3, <2>4 DEF ConnectorChanges, FirstOf
<1>5. CASE bus \in LinkBuses
  <2>1. current = baseline /\ DOMAIN baseline = Devices
    BY <1>5 DEF Fits
  <2>2. Changes(current) = LinksDown(current, baseline)
    BY <1>5 DEF Changes, UsbBuses, CardBuses, LinkBuses
  <2> QED BY <2>1, <2>2 DEF LinksDown
<1>6. CASE bus = "power"
  BY <1>6 DEF Fits, Changes, UsbBuses, CardBuses, LinkBuses
<1>7. CASE bus = "lock"
  BY <1>7 DEF Changes, UsbBuses, CardBuses, LinkBuses
<1> QED BY <1>1, <1>2, <1>3, <1>4, <1>5, <1>6, <1>7, WalkAssumption
        DEF TypeOK, BusName, IdBuses, SysfsIds, UsbBuses, SetBuses, LinkBuses

(* And a whitelist that fits it covers whatever a snapshot of it holds.    *)
LEMMA CoveredIsNotAdded ==
  ASSUME TypeOK, CountsInv, baseline # None, NEW current, bus \in IdBuses \ {"pci"},
         Fits(current), Fits(whitelist)
  PROVE  \A change \in Changes(current) : change.kind \notin {"Added", "CountIncreased"}
<1>1. CASE bus \in UsbBuses
  <2>1. /\ current = whitelist
        /\ \A d \in UsbId : baseline[d] \in Nat /\ whitelist[d] \in Nat
    BY <1>1 DEF Fits, CountsInv, UsbBuses
  <2>2. UsbGains(whitelist, baseline, whitelist) = {}
    BY <2>1, NothingGained
  <2>3. Changes(current) = UsbLosses(whitelist, baseline)
    BY <1>1, <2>1, <2>2 DEF Changes, UsbChanges, FirstOf, UsbBuses, CardBuses, LinkBuses
  <2> QED BY <2>3 DEF UsbLosses, Change
<1>2. CASE bus \in SetBuses
  <2>1. current = whitelist
    BY <1>2 DEF Fits
  <2>2. Changes(current) = {Change("Removed", d, None) : d \in baseline \ current}
    BY <1>2, <2>1 DEF Changes, SetChanges, FirstOf, SetBuses, UsbBuses, CardBuses, LinkBuses
  <2> QED BY <2>2 DEF Change
<1> QED BY <1>1, <1>2 DEF IdBuses, SysfsIds, UsbBuses, SetBuses

(* What is remembered of earlier walks.  What happened since this walk     *)
(* began also happened since an earlier one did; a baseline, or a          *)
(* whitelist, that nothing happened since fits the machine.                *)
MemoryInv ==
  /\ purpose = "check" => baseline # None \/ bus = "lock"
  /\ purpose # None /\ answer # Err =>
       \A k \in {"baseline", "list"} : disturbed["walk"] \subseteq disturbed[k]
  /\ baseline # None /\ disturbed["baseline"] = {} => Fits(baseline)
  /\ bus \in IdBuses \ {"pci"} /\ disturbed["list"] = {} => Fits(whitelist)
  /\ bus = "pci" => disturbed["list"] # {}

QuietInv == MemoryInv /\ CountsInv /\ StillIsQuiet

LEMMA FitsIsFixed ==
  ASSUME UNCHANGED <<bus, hw>>
  PROVE  \A s : Fits(s)' <=> Fits(s)
BY DEF Fits, Devices, Shown, PortAt, PortOf

(* Steps that leave the results alone, or clear the verdict.               *)
LEMMA ResultsStay ==
  ASSUME TypeOK, QuietInv, UNCHANGED <<bus, hw, baseline, whitelist>>, verdict' \in {verdict, {}},
         \A k \in {"baseline", "list"} : disturbed[k] \subseteq disturbed'[k],
         purpose' = "check" => baseline # None \/ bus = "lock",
         purpose' # None /\ answer' # Err =>
           \A k \in {"baseline", "list"} : disturbed'["walk"] \subseteq disturbed'[k]
  PROVE  QuietInv'
<1>1. MemoryInv'
  BY FitsIsFixed DEF QuietInv, MemoryInv
<1>2. CountsInv' /\ StillIsQuiet'
  BY DEF QuietInv, CountsInv, StillIsQuiet
<1> QED BY <1>1, <1>2 DEF QuietInv

LEMMA KernelQuiet ==
  ASSUME TypeOK, QuietInv, Kernel
  PROVE  QuietInv'
<1> PICK e \in Entry : Plug(e) \/ Unplug(e) \/ Chmod(e)
  BY DEF Kernel
<1>1. UNCHANGED <<bus, baseline, whitelist, verdict, purpose, answer>>
  BY DEF Plug, Unplug, Chmod, walk, results
<1>2. CASE Chmod(e)
  <2>1. UNCHANGED <<hw, disturbed>>
    BY <1>2 DEF Chmod
  <2> QED BY <1>1, <2>1, ResultsStay DEF QuietInv, MemoryInv
<1>3. CASE Plug(e) \/ Unplug(e)
  <2>1. \A k \in {"walk", "baseline", "list"} : disturbed'[k] = disturbed[k] \cup {e}
    BY <1>3, DisturbType DEF Plug, Unplug
  <2>2. MemoryInv'
    BY <1>1, <2>1 DEF QuietInv, MemoryInv
  <2>3. CountsInv' /\ StillIsQuiet'
    BY <1>1, <2>1 DEF QuietInv, CountsInv, StillIsQuiet
  <2> QED BY <2>2, <2>3 DEF QuietInv
<1> QED BY <1>2, <1>3

LEMMA OpenQuiet ==
  ASSUME TypeOK, QuietInv, NEW p \in Purpose, Open(p) \/ OpenFails(p)
  PROVE  QuietInv'
<1>1. /\ UNCHANGED <<bus, hw, baseline, whitelist>> /\ verdict' = {} /\ purpose' = p
      /\ p = "check" => baseline # None \/ bus = "lock"
  BY DEF Open, OpenFails, Begins
<1>2. CASE Open(p)
  <2>1. /\ disturbed'["walk"] = {}
        /\ \A k \in {"baseline", "list"} : disturbed'[k] = disturbed[k]
    BY <1>2 DEF Open, TypeOK
  <2> QED BY <1>1, <2>1, ResultsStay
<1>3. CASE OpenFails(p)
  <2>1. \/ answer' = Err /\ disturbed' = disturbed
        \/ disturbed' = Disturb(Entry)
    BY <1>3 DEF OpenFails
  <2>2. \A k \in {"walk", "baseline", "list"} :
          Disturb(Entry)[k] = disturbed[k] \cup Entry /\ disturbed[k] \subseteq Entry
    BY DisturbType DEF TypeOK
  <2>3. \A k \in {"baseline", "list"} : disturbed[k] \subseteq disturbed'[k]
    BY <2>1, <2>2
  <2>4. answer' # Err => \A k \in {"baseline", "list"} : disturbed'["walk"] \subseteq disturbed'[k]
    BY <2>1, <2>2
  <2> QED BY <1>1, <2>3, <2>4, ResultsStay
<1> QED BY <1>2, <1>3

LEMMA ReadQuiet ==
  ASSUME TypeOK, WalkInv, QuietInv,
         (\E e \in Entry : Visit(e)) \/ ReadAttribute \/ ReadFails \/ ReadRefused \/ Finish
  PROVE  QuietInv'
<1>1. UNCHANGED <<bus, hw, baseline, whitelist, verdict, purpose>> /\ answer # Err
  BY WalkAssumption DEF Visit, ReadAttribute, ReadFails, ReadRefused, Finish, results
<1>2. disturbed' = disturbed \/ (at \in Entry /\ disturbed' = Disturb({at}))
  BY WalkAssumption DEF Visit, ReadAttribute, ReadFails, ReadRefused, Finish, history, TypeOK
<1>3. CASE disturbed' = disturbed
  BY <1>1, <1>3, ResultsStay DEF QuietInv, MemoryInv
<1>4. CASE at \in Entry /\ disturbed' = Disturb({at})
  <2>1. \A k \in {"walk", "baseline", "list"} : disturbed'[k] = disturbed[k] \cup {at}
    <3>1. {at} \in SUBSET Entry
      BY <1>4
    <3> QED BY <1>4, <3>1, DisturbType
  <2> QED BY <1>1, <2>1, ResultsStay DEF QuietInv, MemoryInv
<1> QED BY <1>2, <1>3, <1>4

LEMMA CountsType ==
  ASSUME TypeOK, WalkInv, bus \in UsbBuses
  PROVE  Snapshot(found) \in [UsbId -> Nat]
<1>1. Snapshot(found) = [d \in UsbId |-> Cardinality(RowsOf(d))]
  BY DEF Snapshot, UsbBuses, CardBuses, LinkBuses, Counts, RowsOf
<1>2. ASSUME NEW d \in UsbId
      PROVE  Cardinality(RowsOf(d)) \in Nat
  <2>1. EntriesOf(d) \in SUBSET Entry
    BY DEF EntriesOf
  <2>2. Cardinality(EntriesOf(d)) \in Nat
    BY <2>1, FS_Subset, FS_CardinalityType, WalkAssumption
  <2> QED BY <2>2, OneEach
<1> QED BY <1>1, <1>2

LEMMA DeliverQuiet ==
  ASSUME TypeOK, WalkInv, QuietInv, Deliver, "display" \in Walked => DistinctNames
  PROVE  QuietInv'
<1>1. UNCHANGED <<bus, hw>> /\ purpose' = None /\ answer # None /\ purpose # None
  BY DEF Deliver, WalkInv, TodoInv
<1>2. CASE answer = Err
  <2>1. UNCHANGED <<baseline, whitelist, verdict, disturbed>>
    BY <1>2 DEF Deliver, results
  <2>2. None # "check"
    BY WalkAssumption DEF Purpose
  <2> QED BY <1>1, <2>1, <2>2, ResultsStay
<1>3. CASE answer # Err
  <2> DEFINE walked == disturbed["walk"]
  <2>1. /\ baseline' = IF purpose = "baseline" THEN answer ELSE baseline
        /\ whitelist' = IF purpose = "list" THEN Snapshot(found) ELSE whitelist
        /\ verdict' = IF purpose = "check" THEN Changes(answer) ELSE {}
        /\ disturbed'["baseline"] = IF purpose = "baseline" THEN walked ELSE disturbed["baseline"]
        /\ disturbed'["list"] = IF purpose = "list" THEN walked ELSE disturbed["list"]
    BY <1>3 DEF Deliver, TypeOK, GenerateWhitelist
  <2>2. \A k \in {"baseline", "list"} : walked \subseteq disturbed[k]
    BY <1>1, <1>3 DEF QuietInv, MemoryInv
  <2>3. Told
    BY <1>1, <1>3 DEF Told
  <2>4. walked = {} => Fits(answer)
    BY <2>3, AnswerFits
  <2>5. bus \notin {"power", "lock"} => answer = Snapshot(found)
    BY <2>3 DEF WalkInv, AnswerInv, Whole, EarlyAc, EarlyLocked
  <2>6. purpose = "list" => bus \in IdBuses \ {"pci"} /\ bus \notin {"power", "lock"}
    BY DEF TypeOK, IdBuses, SysfsIds
  <2>7. MemoryInv'
    <3>1. purpose' # "check"
      BY <1>1, WalkAssumption DEF Purpose
    <3>2. baseline' # None /\ disturbed'["baseline"] = {} => Fits(baseline')
      BY <2>1, <2>4 DEF QuietInv, MemoryInv
    <3>3. bus \in IdBuses \ {"pci"} /\ disturbed'["list"] = {} => Fits(whitelist')
      BY <2>1, <2>4, <2>5, <2>6 DEF QuietInv, MemoryInv
    <3>4. bus = "pci" => disturbed'["list"] # {}
      BY <2>1, <2>6 DEF QuietInv, MemoryInv
    <3>5. (Fits(baseline') => Fits(baseline)') /\ (Fits(whitelist') => Fits(whitelist)')
      BY <1>1, FitsIsFixed
    <3> QED BY <1>1, <3>1, <3>2, <3>3, <3>4, <3>5 DEF MemoryInv
  <2>8. CountsInv'
    <3>1. bus \in UsbBuses => answer = Snapshot(found) /\ Snapshot(found) \in [UsbId -> Nat]
      BY <2>5, CountsType DEF UsbBuses
    <3> QED BY <1>1, <2>1, <3>1 DEF QuietInv, CountsInv
  <2>9. StillIsQuiet'
    <3>1. CASE purpose = "check"
      <4>1. /\ UNCHANGED <<bus, baseline, whitelist>>
            /\ disturbed'["baseline"] = disturbed["baseline"]
            /\ disturbed'["list"] = disturbed["list"] /\ verdict' = Changes(answer)
        BY <1>1, <2>1, <3>1
      <4>2. baseline # None \/ bus = "lock"
        BY <3>1 DEF QuietInv, MemoryInv
      <4>3. disturbed["baseline"] = {} => Changes(answer) = {}
        <5>1. bus = "lock" => Changes(answer) = {}
          BY DEF Changes, UsbBuses, CardBuses, LinkBuses
        <5>2. disturbed["baseline"] = {} /\ bus # "lock" => Fits(answer) /\ Fits(baseline)
          BY <2>2, <2>4, <4>2 DEF QuietInv, MemoryInv
        <5> QED BY <4>2, <5>1, <5>2, SameIsQuiet DEF QuietInv
      <4>4. disturbed["list"] = {} /\ bus \in IdBuses =>
              \A change \in Changes(answer) : change.kind \notin {"Added", "CountIncreased"}
        <5> SUFFICES ASSUME disturbed["list"] = {}, bus \in IdBuses
                     PROVE  \A change \in Changes(answer) :
                              change.kind \notin {"Added", "CountIncreased"}
          OBVIOUS
        <5>1. bus \in IdBuses \ {"pci"} /\ bus # "lock"
          BY DEF QuietInv, MemoryInv, IdBuses, SysfsIds
        <5>2. Fits(answer) /\ Fits(whitelist)
          BY <2>2, <2>4, <5>1 DEF QuietInv, MemoryInv
        <5> QED BY <4>2, <5>1, <5>2, CoveredIsNotAdded DEF QuietInv
      <4> QED BY <4>1, <4>3, <4>4 DEF StillIsQuiet
    <3>2. CASE purpose # "check"
      BY <2>1, <3>2 DEF StillIsQuiet
    <3> QED BY <3>1, <3>2
  <2> QED BY <2>7, <2>8, <2>9 DEF QuietInv
<1> QED BY <1>2, <1>3

LEMMA QuietInit ==
  ASSUME Init
  PROVE  QuietInv
<1>1. /\ baseline = None /\ verdict = {} /\ purpose = None
      /\ disturbed["list"] = Entry /\ Entry # {} /\ None # "check"
      /\ whitelist = NoWhitelist
  BY WalkAssumption DEF Init, Purpose
<1>2. CountsInv
  BY <1>1 DEF CountsInv, NoWhitelist
<1> QED BY <1>1, <1>2 DEF QuietInv, MemoryInv, StillIsQuiet

(* On a machine nothing happened to since its baseline, a check finds      *)
(* nothing; and a whitelist generated from it lets nothing of it be        *)
(* reported as added.  The names of the connectors are asked to differ:    *)
(* detect_changes takes the first connector of a name.                     *)
THEOREM StillCorrect ==
  ASSUME "display" \in Walked => DistinctNames
  PROVE  Spec => []StillIsQuiet
<1>1. TypeOK /\ WalkInv /\ QuietInv /\ [Next]_vars => QuietInv'
  <2> SUFFICES ASSUME TypeOK, WalkInv, QuietInv, [Next]_vars PROVE QuietInv'
    OBVIOUS
  <2>1. CASE UNCHANGED vars
    <3>1. UNCHANGED <<bus, hw, purpose, answer, baseline, whitelist, verdict, disturbed>>
      BY <2>1 DEF vars, walk, results, history
    <3> QED BY <3>1, ResultsStay DEF QuietInv, MemoryInv
  <2> QED BY <2>1, KernelQuiet, OpenQuiet, ReadQuiet, DeliverQuiet DEF Next, Walker
<1>2. Init => QuietInv
  BY QuietInit
<1>3. QuietInv => StillIsQuiet
  BY DEF QuietInv
<1> QED BY <1>1, <1>2, <1>3, WalkCorrect, PTL DEF Spec

==============================================================================
