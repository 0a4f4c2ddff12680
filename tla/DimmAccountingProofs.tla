------------------------ MODULE DimmAccountingProofs ------------------------
(* Proofs about DimmAccounting, for any number of DIMMs, contexts, slots   *)
(* and thresholds and any way of cutting labels.  A DIMM whose label is    *)
(* stored whole has one entry at most, which holds exactly what has been   *)
(* accounted of it, and its flag stands for the advice of its window.      *)
EXTENDS DimmAccounting, TLAPS

LEMMA CountedIsCounts ==
    ASSUME NEW c \in Counts, NEW kind \in Kinds
    PROVE  Counted(c, kind) \in Counts
BY CapacityAssumption DEF Counted, Counts, Bump

LEMMA NoneIsCounts == None \in Counts
BY CapacityAssumption DEF None, Counts

LEMMA EntriesAreMade ==
    ASSUME NEW d \in Dimm
    PROVE  /\ Fresh(d) \in Entry
           /\ Fresh(d).label = Cut[d] /\ Fresh(d).count = None /\ ~Fresh(d).advised
BY NoneIsCounts DEF Fresh, Entry

LEMMA EntriesAreRenewed ==
    ASSUME NEW e \in Entry, NEW expired \in BOOLEAN
    PROVE  /\ Renewed(e, expired) \in Entry
           /\ Renewed(e, expired).label = e.label
           /\ Renewed(e, expired).count = IF expired THEN None ELSE e.count
           /\ Renewed(e, expired).advised = (e.advised /\ ~expired)
<1>1. CASE expired
  BY <1>1, NoneIsCounts DEF Renewed, Entry
<1>2. CASE ~expired
  BY <1>2 DEF Renewed, Entry
<1> QED
  BY <1>1, <1>2

(* What a context does after an error is again a position. *)
LEMMA AfterIsContext ==
    ASSUME NEW k \in Probe, probe[k] \in Context
    PROVE  After(k) \in Context
<1>1. Idle \in Context
  BY DimmAssumption, CapacityAssumption DEF Idle, Context, Kinds, Addrs
<1>2. CASE probe[k].left > 1
  <2>1. probe[k].left - 1 \in 0..Burst
    BY <1>2, CapacityAssumption DEF Context
  <2> QED
    BY <1>2, <2>1 DEF After, Context
<1> QED
  BY <1>1, <1>2 DEF After

(* Counting one error of d, in context k and with the entry at place i:    *)
(* e is that entry afterwards, f whether its window had been advised on    *)
(* before, a whether it is now.                                            *)
Counting(k, i, d, kind, expired, e, f, a) ==
    /\ list' = Put(i, e)
    /\ i \in DOMAIN list =>
           /\ list[i].label = d /\ e.label = d
           /\ e.count = Counted(IF expired THEN None ELSE list[i].count, kind)
           /\ f = (list[i].advised /\ ~expired)
    /\ i \notin DOMAIN list =>
           /\ \A j \in DOMAIN list : list[j].label # d
           /\ e.label = Cut[d] /\ e.count = Counted(None, kind) /\ f = FALSE
    /\ a = (AtLimit(e.count) /\ ~f)
    /\ e.advised = (f \/ a)
    /\ Witness(d, kind, expired, a)
    /\ probe' = [probe EXCEPT ![k] = IF a THEN [@ EXCEPT !.at = "send"] ELSE After(k)]

(* The only step that touches the list and the history. *)
LEMMA CountingIs ==
    ASSUME TypeOK, NEW k \in Probe, NEW i \in 1..(Len(list) + 1),
           NEW expired \in BOOLEAN, Count(k, i, expired),
           NEW d, d = probe[k].dimm,
           NEW kind, kind = probe[k].kind
    PROVE  /\ d \in Dimm /\ kind \in Kinds
           /\ \E e \in Entry, f \in BOOLEAN, a \in BOOLEAN :
                  Counting(k, i, d, kind, expired, e, f, a)
<1>1. probe[k] \in Context
  BY DEF TypeOK
<1>2. d \in Dimm /\ kind \in Kinds
  BY <1>1 DEF Context
<1>d. DOMAIN list = 1..Len(list) /\ Len(list) \in Nat
  BY DEF TypeOK
<1> DEFINE old == IF i \in DOMAIN list THEN Renewed(list[i], expired) ELSE Fresh(d)
           new == [old EXCEPT !.count = Counted(@, kind)]
           a == Advises(new)
           e == [new EXCEPT !.advised = @ \/ a]
<1>3. old \in Entry
  <2>1. CASE i \in DOMAIN list
    <3>1. list[i] \in Entry
      BY <2>1 DEF TypeOK
    <3> QED
      BY <2>1, <3>1, EntriesAreRenewed
  <2>2. CASE i \notin DOMAIN list
    BY <1>2, <2>2, EntriesAreMade
  <2> QED
    BY <2>1, <2>2
<1>4. /\ IsPlace(i, d) /\ list' = Put(i, e)
      /\ probe' = [probe EXCEPT ![k] = IF a THEN [@ EXCEPT !.at = "send"] ELSE After(k)]
      /\ Witness(d, kind, expired, a)
  BY DEF Count, Account
<1>5. i \in DOMAIN list =>
          /\ list[i].label = d /\ old.label = d
          /\ old.count = IF expired THEN None ELSE list[i].count
          /\ old.advised = (list[i].advised /\ ~expired)
  <2> SUFFICES ASSUME i \in DOMAIN list
               PROVE  /\ list[i].label = d /\ old.label = d
                      /\ old.count = IF expired THEN None ELSE list[i].count
                      /\ old.advised = (list[i].advised /\ ~expired)
    OBVIOUS
  <2>1. list[i] \in Entry
    BY DEF TypeOK
  <2>2. list[i].label = d
    BY <1>4, <1>d DEF IsPlace, Names
  <2> QED
    BY <2>1, <2>2, EntriesAreRenewed
<1>6. i \notin DOMAIN list =>
          /\ \A j \in DOMAIN list : list[j].label # d
          /\ old.label = Cut[d] /\ old.count = None /\ old.advised = FALSE
  <2> SUFFICES ASSUME i \notin DOMAIN list
               PROVE  /\ \A j \in DOMAIN list : list[j].label # d
                      /\ old.label = Cut[d] /\ old.count = None /\ old.advised = FALSE
    OBVIOUS
  <2>1. i = Len(list) + 1
    BY <1>d
  <2>2. \A j \in DOMAIN list : list[j].label # d
    BY <1>4, <1>d, <2>1 DEF IsPlace, Names
  <2>3. old = Fresh(d)
    OBVIOUS
  <2>4. Fresh(d) \in Entry
    BY <1>2, EntriesAreMade
  <2>5. old.advised \in BOOLEAN
    BY <2>3, <2>4 DEF Entry
  <2> QED
    BY <1>2, <2>2, <2>3, <2>5, EntriesAreMade
<1> HIDE DEF old
<1>7. Counted(old.count, kind) \in Counts
  BY <1>2, <1>3, CountedIsCounts DEF Entry
<1>8. /\ new \in Entry /\ new.label = old.label /\ new.advised = old.advised
      /\ new.count = Counted(old.count, kind)
  BY <1>3, <1>7 DEF Entry
<1>9. a = (AtLimit(new.count) /\ ~new.advised) /\ a \in BOOLEAN
  BY DEF Advises, AtLimit
<1> HIDE DEF new, a
<1>10. /\ e \in Entry /\ e.label = new.label /\ e.count = new.count
       /\ e.advised = (new.advised \/ a)
  BY <1>8, <1>9 DEF Entry
<1>11. old.advised \in BOOLEAN
  BY <1>3 DEF Entry
<1> HIDE DEF e
<1>12. Counting(k, i, d, kind, expired, e, old.advised, a)
  BY <1>4, <1>5, <1>6, <1>8, <1>9, <1>10 DEF Counting
<1> QED
  BY <1>2, <1>9, <1>10, <1>11, <1>12

-----------------------------------------------------------------------------
(* The shape of the state, and the table within its bound.                 *)
LEMMA TypeInit == Init => TypeOK
<1>1. Idle \in Context
  BY DimmAssumption, CapacityAssumption DEF Idle, Context, Kinds, Addrs
<1> QED
  BY <1>1, NoneIsCounts, CapacityAssumption DEF Init, TypeOK

LEMMA WitnessTypes ==
    ASSUME TypeOK, NEW d \in Dimm, NEW kind \in Kinds, NEW expired \in BOOLEAN,
           NEW a \in BOOLEAN, Witness(d, kind, expired, a)
    PROVE  seen' \in [Dimm -> Counts] /\ due' \in [Dimm -> 0..2] /\ over' \subseteq Dimm
<1>1. Counted(IF expired THEN None ELSE seen[d], kind) \in Counts
  BY NoneIsCounts, CountedIsCounts DEF TypeOK
<1>2. seen' \in [Dimm -> Counts]
  BY <1>1 DEF Witness, TypeOK
<1>3. due[d] \in 0..2
  BY DEF TypeOK
<1>4. due' \in [Dimm -> 0..2]
  BY <1>3 DEF Witness, TypeOK
<1>5. over' \subseteq Dimm
  BY DEF Witness, TypeOK
<1> QED
  BY <1>2, <1>4, <1>5

LEMMA PuttingTypes ==
    ASSUME TypeOK, NEW i \in 1..(Len(list) + 1), NEW e \in Entry, i <= Slots
    PROVE  Put(i, e) \in Seq(Entry) /\ Len(Put(i, e)) <= Slots
<1>1. CASE i \in DOMAIN list
  BY <1>1 DEF Put, TypeOK
<1>2. CASE i \notin DOMAIN list
  <2>1. i = Len(list) + 1
    BY <1>2 DEF TypeOK
  <2> QED
    BY <1>2, <2>1 DEF Put, TypeOK
<1> QED
  BY <1>1, <1>2

LEMMA TypeNext == TypeOK /\ [Next]_vars => TypeOK'
<1> SUFFICES ASSUME TypeOK, [Next]_vars PROVE TypeOK'
  OBVIOUS
<1>1. ASSUME NEW k \in Probe, NEW d \in Dimm, NEW kind \in Kinds,
             NEW addr \in Addrs, NEW n \in 0..Burst, McEvent(k, d, kind, addr, n)
      PROVE  TypeOK'
  <2> DEFINE p == [at |-> "count", dimm |-> d, kind |-> kind,
                   left |-> IF addr = "none" THEN 1 ELSE n, addr |-> addr]
  <2>1. p \in Context
    BY CapacityAssumption DEF Context
  <2>2. probe' = [probe EXCEPT ![k] = p] /\ UNCHANGED <<enable, limits, list, history>>
    BY <1>1 DEF McEvent
  <2> HIDE DEF p
  <2> QED
    BY <2>1, <2>2 DEF TypeOK, history
<1>2. ASSUME NEW k \in Probe, NEW i \in 1..(Len(list) + 1), NEW expired \in BOOLEAN,
             Count(k, i, expired)
      PROVE  TypeOK'
  <2> DEFINE d == probe[k].dimm
             kind == probe[k].kind
  <2>1. d \in Dimm /\ kind \in Kinds
    BY <1>2, CountingIs
  <2>2. PICK e \in Entry, f \in BOOLEAN, a \in BOOLEAN :
               Counting(k, i, d, kind, expired, e, f, a)
    BY <1>2, CountingIs
  <2> HIDE DEF d, kind
  <2>3. i <= Slots /\ UNCHANGED <<enable, limits>>
    BY <1>2 DEF Count, Account, HasSlot
  <2>4. list' \in Seq(Entry) /\ Len(list') <= Slots
    BY <2>2, <2>3, PuttingTypes DEF Counting
  <2>5. seen' \in [Dimm -> Counts] /\ due' \in [Dimm -> 0..2] /\ over' \subseteq Dimm
    BY <2>1, <2>2, WitnessTypes DEF Counting
  <2>6. probe' \in [Probe -> Context]
    <3>1. probe[k] \in Context /\ probe \in [Probe -> Context]
      BY DEF TypeOK
    <3>2. After(k) \in Context
      BY <3>1, AfterIsContext
    <3>3. [probe[k] EXCEPT !.at = "send"] \in Context
      BY <3>1 DEF Context
    <3> QED
      BY <2>2, <3>1, <3>2, <3>3 DEF Counting
  <2> QED
    BY <2>3, <2>4, <2>5, <2>6 DEF TypeOK
<1>3. ASSUME NEW k \in Probe, Skip(k) \/ Send(k)
      PROVE  TypeOK'
  <2>1. After(k) \in Context
    BY AfterIsContext DEF TypeOK
  <2> QED
    BY <1>3, <2>1 DEF Skip, Send, TypeOK, history
<1>4. ASSUME \/ \E l \in Limits : SetLimits(l)
             \/ Toggle
             \/ UNCHANGED vars
      PROVE  TypeOK'
  BY <1>4 DEF SetLimits, Toggle, vars, history, TypeOK
<1> QED
  BY <1>1, <1>2, <1>3, <1>4 DEF Next, Step

(* Every variable keeps its shape, and the table its bound, for any number *)
(* of DIMMs and contexts: an entry is only made where a slot is free.      *)
THEOREM DimmTypeCorrect == Spec => []TypeOK
<1> QED
  BY TypeInit, TypeNext, PTL DEF Spec

-----------------------------------------------------------------------------
(* What the list holds of a DIMM is what has been accounted of it.         *)
EntryOf(d) == {i \in DOMAIN list : list[i].label = d}

Kept(d) ==
    /\ \A i, j \in EntryOf(d) : i = j
    /\ \A i \in EntryOf(d) : /\ list[i].count = seen[d]
                             /\ due[d] = IF list[i].advised THEN 1 ELSE 0
                             /\ d \in over => list[i].advised
    /\ EntryOf(d) = {} => seen[d] = None /\ due[d] = 0 /\ d \notin over

AllKept == \A d \in Whole : Kept(d)

LEMMA KeptInit == Init => AllKept
<1> SUFFICES ASSUME Init, NEW d \in Whole PROVE Kept(d)
  BY DEF AllKept
<1>1. d \in Dimm
  BY DEF Whole
<1>2. EntryOf(d) = {}
  <2>1. list = << >>
    BY DEF Init
  <2> QED
    BY <2>1 DEF EntryOf
<1> QED
  BY <1>1, <1>2 DEF Init, Kept

(* An error of another DIMM leaves the entry of this one alone. *)
LEMMA OthersAreKept ==
    ASSUME TypeOK, NEW k \in Probe, NEW i \in 1..(Len(list) + 1),
           NEW expired \in BOOLEAN, Count(k, i, expired),
           NEW d \in Whole, d # probe[k].dimm, Kept(d)
    PROVE  Kept(d)'
<1> DEFINE x == probe[k].dimm
<1>l. DOMAIN list = 1..Len(list) /\ Len(list) \in Nat /\ list \in Seq(Entry)
  BY DEF TypeOK
<1>1. x \in Dimm
  BY CountingIs
<1>2. PICK e \in Entry, f \in BOOLEAN, a \in BOOLEAN :
          Counting(k, i, x, probe[k].kind, expired, e, f, a)
  BY CountingIs
<1>3. Cut[x] # d /\ d \in Dimm /\ x # d
  BY <1>1 DEF Whole
<1> HIDE DEF x
<1>4. seen'[d] = seen[d] /\ due'[d] = due[d] /\ (d \in over' <=> d \in over)
  BY <1>2, <1>3 DEF Counting, Witness, TypeOK
<1>5. EntryOf(d)' = EntryOf(d) /\ \A j \in EntryOf(d) : list'[j] = list[j]
  <2>1. CASE i \in DOMAIN list
    BY <1>2, <1>3, <1>l, <2>1 DEF Counting, Put, EntryOf
  <2>2. CASE i \notin DOMAIN list
    <3>1. list' = Append(list, e) /\ e.label # d
      BY <1>2, <1>3, <2>2 DEF Counting, Put
    <3>2. /\ DOMAIN list' = 1..(Len(list) + 1)
          /\ \A j \in 1..Len(list) : list'[j] = list[j]
          /\ list'[Len(list) + 1] = e
      BY <1>l, <3>1
    <3> QED
      BY <1>l, <3>1, <3>2 DEF EntryOf
  <2> QED
    BY <2>1, <2>2
<1> QED
  BY <1>4, <1>5 DEF Kept

(* An error of this one is added to its entry, which is made if need be.   *)
LEMMA OwnIsKept ==
    ASSUME TypeOK, NEW k \in Probe, NEW i \in 1..(Len(list) + 1),
           NEW expired \in BOOLEAN, Count(k, i, expired),
           NEW d \in Whole, d = probe[k].dimm, Kept(d)
    PROVE  Kept(d)'
<1> DEFINE kind == probe[k].kind
<1>l. DOMAIN list = 1..Len(list) /\ Len(list) \in Nat /\ list \in Seq(Entry)
  BY DEF TypeOK
<1>c. d \in Dimm /\ Cut[d] = d
  BY DEF Whole
<1>2. PICK e \in Entry, f \in BOOLEAN, a \in BOOLEAN :
          Counting(k, i, d, kind, expired, e, f, a)
  BY CountingIs
<1> DEFINE s == Counted(IF expired THEN None ELSE seen[d], kind)
           n == IF expired THEN 0 ELSE due[d]
           p == AtLimit(e.count)
<1> HIDE DEF kind
<1>3. EntryOf(d)' = {i} /\ list'[i] = e
  <2>1. CASE i \in DOMAIN list
    <3>1. i \in EntryOf(d)
      BY <1>2, <2>1 DEF Counting, EntryOf
    <3>2. \A j \in DOMAIN list : list[j].label = d => j = i
      BY <3>1 DEF Kept, EntryOf
    <3> QED
      BY <1>2, <1>l, <2>1, <3>2 DEF Counting, Put, EntryOf
  <2>2. CASE i \notin DOMAIN list
    <3>i. i = Len(list) + 1
      BY <1>l, <2>2
    <3>1. list' = Append(list, e) /\ e.label = d
      BY <1>2, <1>c, <2>2 DEF Counting, Put
    <3>2. /\ DOMAIN list' = 1..(Len(list) + 1)
          /\ \A j \in 1..Len(list) : list'[j] = list[j]
          /\ list'[Len(list) + 1] = e
      BY <1>l, <3>1
    <3>3. \A j \in 1..Len(list) : list'[j].label # d
      BY <1>2, <1>l, <2>2, <3>2 DEF Counting
    <3> QED
      BY <1>l, <3>i, <3>1, <3>2, <3>3 DEF EntryOf
  <2> QED
    BY <2>1, <2>2
<1>4. e.count = s /\ n = (IF f THEN 1 ELSE 0)
  <2>1. CASE i \in DOMAIN list
    <3>1. i \in EntryOf(d)
      BY <1>2, <2>1 DEF Counting, EntryOf
    <3>2. list[i].count = seen[d] /\ due[d] = IF list[i].advised THEN 1 ELSE 0
      BY <3>1 DEF Kept
    <3> QED
      BY <1>2, <2>1, <3>2 DEF Counting
  <2>2. CASE i \notin DOMAIN list
    <3>1. EntryOf(d) = {}
      BY <1>2, <2>2 DEF Counting, EntryOf
    <3> QED
      BY <1>2, <2>2, <3>1 DEF Counting, Kept
  <2> QED
    BY <2>1, <2>2
<1>5. /\ seen'[d] = s
      /\ due'[d] = IF a /\ n < 2 THEN n + 1 ELSE n
      /\ d \in over' <=> AtLimit(s)
  BY <1>2, <1>c DEF Counting, Witness, TypeOK
<1>6. seen'[d] = e.count /\ (d \in over' <=> p)
  BY <1>4, <1>5
<1>7. p \in BOOLEAN /\ a = (p /\ ~f)
  BY <1>2 DEF Counting, AtLimit
<1> HIDE DEF p, s
<1>8. due'[d] = IF e.advised THEN 1 ELSE 0
  BY <1>2, <1>4, <1>5, <1>7 DEF Counting
<1>9. d \in over' => e.advised
  BY <1>2, <1>6, <1>7 DEF Counting
<1> QED
  BY <1>3, <1>6, <1>8, <1>9 DEF Kept

LEMMA KeptNext == TypeOK /\ AllKept /\ [Next]_vars => AllKept'
<1> SUFFICES ASSUME TypeOK, AllKept, [Next]_vars, NEW d \in Whole PROVE Kept(d)'
  BY DEF AllKept, Whole
<1>0. Kept(d)
  BY DEF AllKept
<1>1. ASSUME NEW k \in Probe, NEW i \in 1..(Len(list) + 1), NEW expired \in BOOLEAN,
             Count(k, i, expired)
      PROVE  Kept(d)'
  BY <1>0, <1>1, OwnIsKept, OthersAreKept
<1>2. ASSUME UNCHANGED <<list, history>>
      PROVE  Kept(d)'
  BY <1>0, <1>2 DEF Kept, EntryOf, history
<1>3. ASSUME NEW k \in Probe,
             \/ Skip(k) \/ Send(k)
             \/ \E x \in Dimm, kind \in Kinds, addr \in Addrs, n \in 0..Burst :
                    McEvent(k, x, kind, addr, n)
      PROVE  UNCHANGED <<list, history>>
  BY <1>3 DEF Skip, Send, McEvent
<1>4. ASSUME \/ \E l \in Limits : SetLimits(l)
             \/ Toggle
             \/ UNCHANGED vars
      PROVE  UNCHANGED <<list, history>>
  BY <1>4 DEF SetLimits, Toggle, vars
<1> QED
  BY <1>1, <1>2, <1>3, <1>4 DEF Next, Step

LEMMA AlwaysKept == Spec => []AllKept
<1> QED
  BY TypeInit, TypeNext, KeptInit, KeptNext, PTL DEF Spec

LEMMA KeptTells ==
    ASSUME NEW d, Kept(d)
    PROVE  due[d] \in 0..1 /\ (d \in over => due[d] = 1)
<1>1. CASE EntryOf(d) = {}
  BY <1>1 DEF Kept
<1>2. CASE EntryOf(d) # {}
  <2>1. PICK i \in EntryOf(d) : TRUE
    BY <1>2
  <2> QED
    BY <2>1 DEF Kept
<1> QED
  BY <1>1, <1>2

(* No window of a DIMM whose label is stored whole yields two advices, for *)
(* any number of DIMMs and contexts, whatever the thresholds and whatever  *)
(* entries longer labels leave in the table (mfi_dimm.c:91).               *)
THEOREM AdvisedOnce == Spec => []OneAdvicePerWindow
<1>1. AllKept => OneAdvicePerWindow
  BY KeptTells DEF AllKept, OneAdvicePerWindow
<1> QED
  BY <1>1, AlwaysKept, PTL

(* The errors of such a DIMM add up: none that brings their number to a    *)
(* threshold passes without the advice of its window (mfi_dimm.c:72-96).   *)
THEOREM AdviceNotMissed == Spec => []ThresholdIsAdvised
<1>1. AllKept => ThresholdIsAdvised
  BY KeptTells DEF AllKept, ThresholdIsAdvised
<1> QED
  BY <1>1, AlwaysKept, PTL
=============================================================================
