--------------------------- MODULE MemPageProofs ---------------------------
(***************************************************************************)
(* Theorems about MemPage for every set of pages and reporting contexts,   *)
(* every table capacity, every policy and every queue depth.               *)
(***************************************************************************)
EXTENDS MemPage, SequenceTheorems, TLAPS

-----------------------------------------------------------------------------
(* Sequences without repetitions.                                          *)

Distinct(s) == \A i, j \in 1..Len(s) : s[i] = s[j] => i = j

(* RemoveFirst() finds the only occurrence. *)
LEMMA FirstIndex ==
  ASSUME NEW S, NEW s \in Seq(S), Distinct(s), NEW x, NEW k \in 1..Len(s), s[k] = x
  PROVE  RemoveFirst(s, x) = RemoveAt(s, k)
<1> DEFINE I == {i \in 1..Len(s) : s[i] = x}
<1>1. I = {k}
  BY DEF Distinct
<1>2. Min(I) = k
  BY <1>1, SMT DEF Min
<1> HIDE DEF I
<1>3. (IF I # {} THEN Min(I) ELSE 0) = k
  BY <1>1, <1>2
<1>4. SelectInSeq(s, LAMBDA v : v = x) = k
  BY <1>3 DEF SelectInSeq, I
<1>5. QED
  BY <1>4 DEF RemoveFirst

(* What RemoveAt() returns, element by element. *)
LEMMA RemoveAtFacts ==
  ASSUME NEW S, NEW s \in Seq(S), NEW k \in 1..Len(s)
  PROVE  /\ RemoveAt(s, k) \in Seq(S)
         /\ Len(RemoveAt(s, k)) = Len(s) - 1
         /\ \A i \in 1..Len(s) - 1 : RemoveAt(s, k)[i] = IF i < k THEN s[i] ELSE s[i + 1]
<1> DEFINE a == SubSeq(s, 1, k - 1)
           b == SubSeq(s, k + 1, Len(s))
<1>0. Len(s) \in Nat BY LenProperties
<1>1. a \in Seq(S) /\ Len(a) = k - 1 /\ \A i \in 1..k - 1 : a[i] = s[i]
  BY <1>0, SMT
<1>2. b \in Seq(S) /\ Len(b) = Len(s) - k /\ \A i \in 1..Len(s) - k : b[i] = s[k + i]
  BY <1>0, SMT
<1> HIDE DEF a, b
<1>3. a \o b \in Seq(S) /\ Len(a \o b) = Len(a) + Len(b)
  BY <1>1, <1>2, ConcatProperties
<1>4. Len(a \o b) = Len(s) - 1
  BY <1>0, <1>1, <1>2, <1>3
<1>5. ASSUME NEW i \in 1..Len(s) - 1
      PROVE  (a \o b)[i] = IF i < k THEN s[i] ELSE s[i + 1]
  <2>1. (a \o b)[i] = IF i <= Len(a) THEN a[i] ELSE b[i - Len(a)]
    BY <1>1, <1>2, <1>4, <1>5, ConcatProperties
  <2>2. QED
    BY <2>1, <1>0, <1>1, <1>2, <1>5
<1>6. RemoveAt(s, k) = a \o b
  BY DEF RemoveAt, a, b
<1>7. QED
  BY <1>3, <1>4, <1>5, <1>6

(* Removing from a list without repetitions takes out exactly the element. *)
LEMMA RemoveFirstFacts ==
  ASSUME NEW S, NEW s \in Seq(S), Distinct(s), NEW x
  PROVE  /\ RemoveFirst(s, x) \in Seq(S)
         /\ Distinct(RemoveFirst(s, x))
         /\ Range(RemoveFirst(s, x)) = Range(s) \ {x}
         /\ Len(RemoveFirst(s, x)) = Len(s) - (IF x \in Range(s) THEN 1 ELSE 0)
<1>0. Len(s) \in Nat /\ DOMAIN s = 1..Len(s)
  BY LenProperties
<1>1. CASE x \notin Range(s)
  <2>1. RemoveFirst(s, x) = s
    BY <1>0, <1>1 DEF RemoveFirst, Range
  <2>2. QED
    BY <2>1, <1>0, <1>1
<1>2. CASE x \in Range(s)
  <2>1. PICK k \in 1..Len(s) : s[k] = x
    BY <1>0, <1>2 DEF Range
  <2> DEFINE t == RemoveAt(s, k)
  <2>3. RemoveFirst(s, x) = t
    BY <2>1, FirstIndex
  <2>4. /\ t \in Seq(S)
        /\ Len(t) = Len(s) - 1
        /\ \A i \in 1..Len(s) - 1 : t[i] = IF i < k THEN s[i] ELSE s[i + 1]
    BY RemoveAtFacts
  <2> HIDE DEF t
  <2>5. DOMAIN t = 1..Len(s) - 1
    BY <2>4, LenProperties
  <2>6. Distinct(t)
    BY <2>4, <1>0 DEF Distinct
  <2>7. ASSUME NEW y \in Range(t) PROVE y \in Range(s) \ {x}
    <3>1. PICK i \in 1..Len(s) - 1 : t[i] = y
      BY <2>5, <2>7 DEF Range
    <3>2. PICK j \in 1..Len(s) : s[j] = y /\ j # k
      <4>1. CASE i < k
        BY <4>1, <3>1, <2>4, <1>0
      <4>2. CASE ~(i < k)
        <5>1. i + 1 \in 1..Len(s) /\ i + 1 # k
          BY <4>2, <3>1, <2>1, <1>0
        <5>2. s[i + 1] = y
          BY <4>2, <3>1, <2>4
        <5>3. QED
          BY <5>1, <5>2
      <4>3. QED
        BY <4>1, <4>2
    <3>3. y # x
      BY <3>2, <2>1 DEF Distinct
    <3>4. QED
      BY <3>2, <3>3, <1>0 DEF Range
  <2>8. ASSUME NEW y \in Range(s), y # x PROVE y \in Range(t)
    <3>1. PICK i \in 1..Len(s) : s[i] = y
      BY <1>0 DEF Range
    <3>2. i < k \/ i > k
      BY <1>0, <2>1, <2>8, <3>1
    <3>3. CASE i < k
      BY <1>0, <2>4, <2>5, <3>1, <3>3 DEF Range
    <3>4. CASE i > k
      <4>1. i - 1 \in 1..Len(s) - 1 /\ ~(i - 1 < k) /\ (i - 1) + 1 = i
        BY <1>0, <3>4
      <4>2. t[i - 1] = y
        BY <4>1, <2>4, <3>1
      <4>3. QED
        BY <4>1, <4>2, <2>5 DEF Range
    <3>5. QED
      BY <3>2, <3>3, <3>4
  <2>9. QED
    BY <2>3, <2>4, <2>6, <2>7, <2>8, <1>2
<1>3. QED
  BY <1>1, <1>2

(* Appending a new element keeps the list free of repetitions. *)
LEMMA AppendFacts ==
  ASSUME NEW S, NEW s \in Seq(S), NEW x \in S
  PROVE  /\ Append(s, x) \in Seq(S)
         /\ Len(Append(s, x)) = Len(s) + 1
         /\ Range(Append(s, x)) = Range(s) \cup {x}
         /\ Distinct(s) /\ x \notin Range(s) => Distinct(Append(s, x))
<1>0. Len(s) \in Nat /\ DOMAIN s = 1..Len(s)
  BY LenProperties
<1>1. /\ Append(s, x) \in Seq(S)
      /\ Len(Append(s, x)) = Len(s) + 1
      /\ DOMAIN Append(s, x) = 1..Len(s) + 1
      /\ \A i \in 1..Len(s) : Append(s, x)[i] = s[i]
      /\ Append(s, x)[Len(s) + 1] = x
  BY <1>0, AppendProperties
<1>2. Range(Append(s, x)) = Range(s) \cup {x}
  BY <1>0, <1>1 DEF Range
<1>3. Distinct(s) /\ x \notin Range(s) => Distinct(Append(s, x))
  BY <1>0, <1>1 DEF Distinct, Range
<1>4. QED
  BY <1>1, <1>2, <1>3

(* The rest of a queue, with its head, is the queue. *)
LEMMA TailFacts ==
  ASSUME NEW S, NEW s \in Seq(S), s # << >>
  PROVE  /\ Tail(s) \in Seq(S)
         /\ Range(s) \subseteq Range(Tail(s)) \cup {Head(s)}
<1>1. /\ Tail(s) \in Seq(S)
      /\ Len(Tail(s)) = Len(s) - 1
      /\ \A i \in 1..Len(Tail(s)) : Tail(s)[i] = s[i + 1]
      /\ Head(s) = s[1]
      /\ Len(s) \in Nat \ {0}
      /\ DOMAIN s = 1..Len(s) /\ DOMAIN Tail(s) = 1..Len(Tail(s))
  OBVIOUS
<1>2. ASSUME NEW i \in 1..Len(s), i # 1 PROVE s[i] \in Range(Tail(s))
  <2>1. i - 1 \in 1..Len(Tail(s)) /\ (i - 1) + 1 = i
    BY <1>1, <1>2
  <2>2. Tail(s)[i - 1] = s[i]
    BY <1>1, <2>1
  <2>3. QED
    BY <1>1, <2>1, <2>2 DEF Range
<1>3. QED
  BY <1>1, <1>2 DEF Range

-----------------------------------------------------------------------------
(* The operations on the table.                                            *)

TableTyped == /\ st \in [Pfn -> PageStates]
              /\ count \in [Pfn -> 0..CountCap]
              /\ lru \in Seq(Pfn)

(* Entering a page keeps the table sound, puts the page in its new state   *)
(* and costs at most a page that is not in flight its entry.               *)
LEMMA EnterFacts ==
  ASSUME TableTyped, TableSound, NEW p \in Pfn, NEW out \in Room(p),
         NEW s \in PageStates \ {"none"}, NEW n \in 0..CountCap, Enter(p, out, s, n)
  PROVE  /\ TableTyped' /\ TableSound'
         /\ st'[p] = s
         /\ \A q \in Pfn \ {p} : st'[q] = st[q] \/ (st'[q] = "none" /\ Evictable(q))
<1> DEFINE t == RemoveFirst(lru, out)
<1>0. Capacity \in Nat /\ Len(lru) \in Nat /\ Distinct(lru)
  BY BoundAssumption, LenProperties DEF TableTyped, TableSound, Distinct
<1>1. out \in Pfn
  BY DEF Room
<1>2. /\ t \in Seq(Pfn) /\ Distinct(t)
      /\ Range(t) = Range(lru) \ {out}
      /\ Len(t) = Len(lru) - (IF out \in Range(lru) THEN 1 ELSE 0)
  BY <1>0, RemoveFirstFacts DEF TableTyped
<1>3. lru' = Append(t, p)
  BY DEF Enter
<1> HIDE DEF t
<1>4. p \notin Range(t) /\ Len(t) < Capacity
  <2>1. CASE Tracked(p)
    BY <1>0, <1>2, <2>1 DEF Room, TableSound
  <2>2. CASE ~Tracked(p) /\ HasSpace
    BY <1>0, <1>2, <2>2 DEF Room, TableSound, HasSpace
  <2>3. CASE ~Tracked(p) /\ ~HasSpace
    <3>1. out \in Range(lru)
      <4>1. PICK i \in 1..Len(lru) : lru[i] = out
        BY <2>3 DEF Room, Oldest
      <4>2. QED
        BY <4>1, LenProperties DEF Range, TableTyped
    <3>2. QED
      BY <1>0, <1>2, <2>3, <3>1 DEF TableSound, Tracked
  <2>4. QED
    BY <2>1, <2>2, <2>3
<1>5. /\ lru' \in Seq(Pfn) /\ Len(lru') = Len(t) + 1
      /\ Range(lru') = Range(t) \cup {p} /\ Distinct(lru')
  BY <1>2, <1>3, <1>4, AppendFacts
<1>6. st' = [st EXCEPT ![out] = "none", ![p] = s]
  BY DEF Enter
<1>7. st' \in [Pfn -> PageStates] /\ count' \in [Pfn -> 0..CountCap]
  <2>1. st' \in [Pfn -> PageStates]
    BY <1>1, <1>6 DEF TableTyped, PageStates
  <2>2. 0 \in 0..CountCap
    BY BoundAssumption
  <2>3. count' \in [Pfn -> 0..CountCap]
    BY <1>1, <2>2 DEF Enter, TableTyped
  <2>4. QED
    BY <2>1, <2>3
<1>8. /\ st'[p] = s
      /\ \A q \in Pfn \ {p} : st'[q] = IF q = out THEN "none" ELSE st[q]
  BY <1>1, <1>6 DEF TableTyped
<1>9. TableSound'
  <2>1. Range(lru') = {q \in Pfn : st'[q] # "none"}
    BY <1>2, <1>5, <1>8 DEF TableSound, Tracked
  <2>2. Len(lru') <= Capacity
    BY <1>0, <1>2, <1>4, <1>5
  <2>3. QED
    BY <2>1, <2>2, <1>5 DEF TableSound, Tracked, Distinct
<1>10. ASSUME NEW q \in Pfn \ {p}, q = out
       PROVE  Evictable(q)
  BY <1>10 DEF Room, Oldest
<1>11. QED
  BY <1>5, <1>7, <1>8, <1>9, <1>10 DEF TableTyped

(* Concluding an offline touches one page, which ends up untracked or      *)
(* failed; it only leaves the table on success.                            *)
LEMMA OfflineDoneFacts ==
  ASSUME TableTyped, TableSound, NEW p \in Pfn, NEW pre \in BOOLEAN,
         NEW ok \in BOOLEAN, OfflineDone(p, pre, ok)
  PROVE  /\ TableTyped' /\ TableSound'
         /\ st'[p] \in {"none", "preIsoFailed", "failed"}
         /\ st'[p] = "none" => ok \/ st[p] = "none"
         /\ \A q \in Pfn \ {p} : st'[q] = st[q]
<1>1. CASE Tracked(p) /\ ok
  <2>0. Capacity \in Nat /\ Len(lru) \in Nat /\ Distinct(lru)
    BY BoundAssumption, LenProperties DEF TableTyped, TableSound, Distinct
  <2>1. /\ st' = [st EXCEPT ![p] = "none"]
        /\ count' = [count EXCEPT ![p] = 0]
        /\ lru' = RemoveFirst(lru, p)
    BY <1>1 DEF OfflineDone
  <2>2. /\ lru' \in Seq(Pfn) /\ Distinct(lru')
        /\ Range(lru') = Range(lru) \ {p}
        /\ Len(lru') = Len(lru) - (IF p \in Range(lru) THEN 1 ELSE 0)
    BY <2>0, <2>1, RemoveFirstFacts DEF TableTyped
  <2>3. st' \in [Pfn -> PageStates] /\ count' \in [Pfn -> 0..CountCap]
    BY <2>1, BoundAssumption DEF TableTyped, PageStates
  <2>4. /\ st'[p] = "none"
        /\ \A q \in Pfn \ {p} : st'[q] = st[q]
    BY <2>1 DEF TableTyped
  <2>5. Range(lru') = {q \in Pfn : st'[q] # "none"}
    BY <2>2, <2>4 DEF TableSound, Tracked
  <2>6. Len(lru') <= Capacity
    BY <2>0, <2>2 DEF TableSound
  <2>7. QED
    BY <1>1, <2>2, <2>3, <2>4, <2>5, <2>6
       DEF TableTyped, TableSound, Tracked, Distinct
<1>2. CASE ~(Tracked(p) /\ ok)
  <2>1. /\ st' = [st EXCEPT ![p] = IF ~Tracked(p) THEN "none"
                                   ELSE IF pre THEN "preIsoFailed" ELSE "failed"]
        /\ count' = count /\ lru' = lru
    BY <1>2 DEF OfflineDone
  <2>2. st' \in [Pfn -> PageStates]
    BY <2>1 DEF TableTyped, PageStates
  <2>3. /\ st'[p] \in {"none", "preIsoFailed", "failed"}
        /\ st'[p] = "none" <=> st[p] = "none"
        /\ \A q \in Pfn \ {p} : st'[q] = st[q]
    BY <2>1 DEF TableTyped, Tracked
  <2>4. {q \in Pfn : st'[q] # "none"} = {q \in Pfn : st[q] # "none"}
    BY <2>3
  <2>5. QED
    BY <2>1, <2>2, <2>3, <2>4 DEF TableTyped, TableSound, Tracked
<1>3. QED
  BY <1>1, <1>2

(* A request to memory_failure() is queued or known to be lost, and no     *)
(* earlier request disappears.                                             *)
Answered == poison \cup lost \cup Range(mfq)

LEMMA HardOfflineFacts ==
  ASSUME mfq \in Seq(Pfn), lost \subseteq Pfn, NEW p \in Pfn, HardOffline(p)
  PROVE  /\ mfq' \in Seq(Pfn) /\ lost' \subseteq Pfn
         /\ lost \cup Range(mfq) \subseteq lost' \cup Range(mfq')
         /\ p \in lost' \cup Range(mfq')
<1>1. CASE Len(mfq) < MfDepth
  <2>1. mfq' = Append(mfq, p) /\ lost' = lost
    BY <1>1 DEF HardOffline
  <2>2. mfq' \in Seq(Pfn) /\ Range(mfq') = Range(mfq) \cup {p}
    BY <2>1, AppendFacts
  <2>3. QED
    BY <2>1, <2>2
<1>2. CASE ~(Len(mfq) < MfDepth)
  BY <1>2 DEF HardOffline
<1>3. QED
  BY <1>1, <1>2

-----------------------------------------------------------------------------
(* The inductive invariant.                                                *)

(* What a handler remembers of HWPoison and of triage stays true until it  *)
(* uses it.                                                                *)
HandlersKnow ==
    \A r \in Reporter :
        /\ rep[r].at = "table" /\ rep[r].hw => rep[r].pfn \in poison
        /\ rep[r].at = "triaged" => rep[r].pfn \in Answered
        /\ rep[r].at = "table" /\ rep[r].tri => rep[r].pfn \in Answered

(* A success that has not been recorded yet is a success. *)
OutcomesKnow ==
    /\ mf \subseteq poison
    /\ \A p \in Pfn : <<p, TRUE>> \in ran => p \in poison

IInv == TypeOK /\ TableSound /\ PreIsoHasDriver /\ PoisonedIsAnswered
        /\ HandlersKnow /\ OutcomesKnow

LEMMA ContextFacts ==
  /\ Idle \in Context /\ Idle.at = "idle"
  /\ \A pos \in RepPos, p \in Pfn :
         /\ At(pos, p) \in Context
         /\ At(pos, p).at = pos /\ At(pos, p).pfn = p
         /\ At(pos, p).hw = FALSE /\ At(pos, p).tri = FALSE
<1>1. (CHOOSE p \in Pfn : TRUE) \in Pfn
  BY PfnAssumption
<1>2. QED
  BY <1>1 DEF Context, Idle, At, RepPos

LEMMA InitIInv == Init => IInv
<1> SUFFICES ASSUME Init PROVE IInv
  OBVIOUS
<1>1. TypeOK
  BY ContextFacts, BoundAssumption DEF Init, TypeOK, PageStates
<1>2. TableSound
  BY BoundAssumption DEF Init, TableSound, Tracked, Range
<1>3. PreIsoHasDriver /\ PoisonedIsAnswered
  BY DEF Init, PreIsoHasDriver, PoisonedIsAnswered
<1>4. HandlersKnow /\ OutcomesKnow
  BY ContextFacts DEF Init, HandlersKnow, OutcomesKnow
<1>5. QED
  BY <1>1, <1>2, <1>3, <1>4 DEF IInv

(* Counting a corrected error. *)
LEMMA ReportCeIInv ==
  ASSUME IInv, NEW r \in Reporter, NEW p \in Pfn, NEW expired \in BOOLEAN,
         ReportCe(r, p, expired)
  PROVE  IInv' /\ (\A q \in Pfn : st[q] \in {"preIso", "poisoned"} => st'[q] # "none")
<1> DEFINE n == CeAfter(p, expired)
           go == PreIsolate(p, n)
           s == IF go THEN "preIso" ELSE IF Tracked(p) THEN st[p] ELSE "watched"
<1>1. TypeOK /\ TableSound /\ TableTyped
  BY DEF IInv, TypeOK, TableTyped
<1>2. n \in 0..CountCap
  BY <1>1, BoundAssumption DEF CeAfter, TypeOK
<1>3. s \in PageStates \ {"none"}
  BY <1>1 DEF TypeOK, PageStates, Tracked
<1>4. PICK out \in Room(p) : Enter(p, out, s, n)
  BY DEF ReportCe
<1>5. /\ rep' = IF go THEN [rep EXCEPT ![r] = At("soft", p)] ELSE rep
      /\ rep[r] = Idle
      /\ UNCHANGED <<policy, soft, ran, mfq, mf, poison, lost>>
  BY DEF ReportCe
<1>6. go => st[p] \in {"none", "watched"}
  BY DEF PreIsolate
<1> HIDE DEF n, go
<1>7. /\ TableTyped' /\ TableSound'
      /\ st'[p] = s
      /\ \A q \in Pfn \ {p} : st'[q] = st[q] \/ (st'[q] = "none" /\ Evictable(q))
  BY <1>1, <1>2, <1>3, <1>4, EnterFacts
<1>8. "soft" \in RepPos
  BY DEF RepPos
<1>9. /\ rep' \in [Reporter -> Context]
      /\ \A x \in Reporter \ {r} : rep'[x] = rep[x]
      /\ go => rep'[r].at = "soft" /\ rep'[r].pfn = p
      /\ ~go => rep'[r] = rep[r]
  BY <1>1, <1>5, <1>8, ContextFacts DEF TypeOK
<1>10. TypeOK'
  BY <1>1, <1>5, <1>7, <1>9 DEF TypeOK, TableTyped
<1>11. PreIsoHasDriver'
  <2> SUFFICES ASSUME NEW q \in Pfn, st'[q] = "preIso"
               PROVE  \/ \E x \in Reporter : rep'[x].at = "soft" /\ rep'[x].pfn = q
                      \/ soft'[q] > 0
                      \/ \E ok \in BOOLEAN : <<q, ok>> \in ran'
    BY DEF PreIsoHasDriver
  <2>1. CASE q = p /\ go
    BY <1>9, <2>1
  <2>2. CASE ~(q = p /\ go)
    <3>1. st[q] = "preIso"
      BY <1>7, <2>2 DEF Tracked
    <3>2. \A x \in Reporter : rep[x].at = "soft" => rep'[x] = rep[x]
      BY <1>5, <1>9, ContextFacts
    <3>3. QED
      BY <1>5, <3>1, <3>2 DEF IInv, PreIsoHasDriver
  <2>3. QED
    BY <2>1, <2>2
<1>12. PoisonedIsAnswered'
  <2> SUFFICES ASSUME NEW q \in Pfn, st'[q] = "poisoned"
               PROVE  \/ q \in poison' \cup lost' \cup Range(mfq')
                      \/ \E x \in Reporter : rep'[x].at = "hard" /\ rep'[x].pfn = q
    BY DEF PoisonedIsAnswered
  <2>1. st[q] = "poisoned"
    BY <1>7 DEF Tracked
  <2>2. \A x \in Reporter : rep[x].at = "hard" => rep'[x] = rep[x]
    BY <1>5, <1>9, ContextFacts
  <2>3. QED
    BY <1>5, <2>1, <2>2 DEF IInv, PoisonedIsAnswered
<1>13. HandlersKnow' /\ OutcomesKnow'
  BY <1>5, <1>9, ContextFacts DEF IInv, HandlersKnow, OutcomesKnow, Answered
<1>14. \A q \in Pfn : st[q] \in {"preIso", "poisoned"} => st'[q] # "none"
  BY <1>3, <1>7 DEF Evictable
<1>15. QED
  BY <1>7, <1>10, <1>11, <1>12, <1>13, <1>14 DEF IInv

(* Queueing the soft offline, or concluding for lack of memory. *)
LEMMA SoftQueueIInv ==
  ASSUME IInv, NEW r \in Reporter, NEW p \in Pfn, SoftQueue(r, p)
  PROVE  IInv' /\ (\A q \in Pfn : st[q] \in {"preIso", "poisoned"} => st'[q] # "none")
<1>1. TypeOK /\ TableSound /\ TableTyped
  BY DEF IInv, TypeOK, TableTyped
<1>2. /\ rep' = [rep EXCEPT ![r] = Idle]
      /\ rep[r].at = "soft" /\ rep[r].pfn = p
      /\ UNCHANGED <<policy, ran, mfq, mf, poison, lost>>
  BY DEF SoftQueue
<1>3. /\ rep' \in [Reporter -> Context] /\ rep'[r].at = "idle"
      /\ \A x \in Reporter \ {r} : rep'[x] = rep[x]
  BY <1>1, <1>2, ContextFacts DEF TypeOK
<1>4. \/ /\ soft[p] < WorkCap
         /\ soft' = [soft EXCEPT ![p] = @ + 1]
         /\ UNCHANGED table
      \/ OfflineDone(p, TRUE, FALSE) /\ UNCHANGED soft
  BY DEF SoftQueue
<1>5. /\ TableTyped' /\ TableSound'
      /\ \A q \in Pfn \ {p} : st'[q] = st[q]
      /\ st'[p] = st[p] \/ st'[p] \in {"none", "preIsoFailed", "failed"}
      /\ st'[p] = "none" => st[p] = "none"
      /\ st'[p] = "preIso" => soft' = [soft EXCEPT ![p] = @ + 1]
  <2>1. CASE UNCHANGED table
    <3>1. /\ TableTyped' /\ TableSound' /\ st' = st
      BY <1>1, <2>1 DEF table, TableTyped, TableSound, Tracked
    <3>2. CASE soft' = [soft EXCEPT ![p] = @ + 1]
      BY <3>1, <3>2
    <3>3. CASE OfflineDone(p, TRUE, FALSE)
      BY <3>1, <3>3, <1>1, OfflineDoneFacts
    <3>4. QED
      BY <1>4, <3>2, <3>3
  <2>2. CASE OfflineDone(p, TRUE, FALSE)
    BY <1>1, <2>2, OfflineDoneFacts
  <2>3. QED
    BY <1>4, <2>1, <2>2
<1>6. /\ soft' \in [Pfn -> 0..WorkCap]
      /\ \A q \in Pfn \ {p} : soft'[q] = soft[q]
      /\ st'[p] = "preIso" => soft'[p] > 0
  <2>1. soft[p] \in Nat /\ WorkCap \in Nat
    BY <1>1, BoundAssumption DEF TypeOK
  <2>2. CASE soft[p] < WorkCap /\ soft' = [soft EXCEPT ![p] = @ + 1]
    <3>1. soft[p] + 1 \in 0..WorkCap /\ soft[p] + 1 > 0
      BY <2>1, <2>2
    <3>2. soft'[p] = soft[p] + 1 /\ \A q \in Pfn \ {p} : soft'[q] = soft[q]
      BY <1>1, <2>2 DEF TypeOK
    <3>3. QED
      BY <1>1, <2>2, <3>1, <3>2 DEF TypeOK
  <2>3. CASE OfflineDone(p, TRUE, FALSE) /\ soft' = soft
    <3>1. st'[p] # "preIso"
      BY <1>1, <2>3, OfflineDoneFacts
    <3>2. QED
      BY <1>1, <2>3, <3>1 DEF TypeOK
  <2>4. QED
    BY <1>4, <2>2, <2>3
<1>7. TypeOK'
  BY <1>1, <1>2, <1>3, <1>5, <1>6 DEF TypeOK, TableTyped
<1>8. PreIsoHasDriver'
  BY <1>1, <1>2, <1>3, <1>5, <1>6 DEF IInv, PreIsoHasDriver
<1>9. PoisonedIsAnswered'
  BY <1>2, <1>3, <1>5 DEF IInv, PoisonedIsAnswered
<1>10. HandlersKnow' /\ OutcomesKnow'
  BY <1>2, <1>3 DEF IInv, HandlersKnow, OutcomesKnow, Answered
<1>11. QED
  BY <1>5, <1>7, <1>8, <1>9, <1>10 DEF IInv

(* Every step that leaves the table alone and adds to what is poisoned,    *)
(* queued or lost keeps the entries' promises, as long as nobody who is    *)
(* about to queue an offline for a page goes away empty-handed.            *)
LEMMA QuietIInv ==
  ASSUME IInv, TypeOK', UNCHANGED table,
         Answered \subseteq Answered', poison \subseteq poison',
         \A q \in Pfn : \A x \in Reporter :
             /\ rep[x].at = "hard" /\ rep[x].pfn = q
                    => rep'[x] = rep[x] \/ q \in Answered'
             /\ rep[x].at = "soft" => rep'[x] = rep[x],
         \A q \in Pfn : soft[q] > 0 \/ (\E ok \in BOOLEAN : <<q, ok>> \in ran)
                    => soft'[q] > 0 \/ (\E ok \in BOOLEAN : <<q, ok>> \in ran')
  PROVE  TableSound' /\ PreIsoHasDriver' /\ PoisonedIsAnswered'
<1>1. st' = st /\ lru' = lru
  BY DEF table
<1>2. TableSound'
  BY <1>1 DEF IInv, TableSound, Tracked
<1>3. PreIsoHasDriver'
  BY <1>1 DEF IInv, PreIsoHasDriver
<1>4. PoisonedIsAnswered'
  BY <1>1 DEF IInv, PoisonedIsAnswered, Answered
<1>5. QED
  BY <1>2, <1>3, <1>4

(* The two looks at HWPoison, and triage. *)
LEMMA LookIInv ==
  ASSUME IInv, NEW r \in Reporter, NEW p \in Pfn,
         ReportUce(r, p) \/ TriageUce(r, p) \/ ReportTriaged(r, p)
  PROVE  IInv' /\ UNCHANGED table
<1>1. TypeOK /\ HandlersKnow
  BY DEF IInv
<1>2. UNCHANGED <<policy, st, count, lru, soft, ran, mf, poison>> /\ UNCHANGED table
  BY DEF ReportUce, TriageUce, ReportTriaged, table
<1>3. /\ mfq' \in Seq(Pfn) /\ lost' \subseteq Pfn
      /\ Answered \subseteq Answered'
      /\ TriageUce(r, p) => p \in Answered'
  BY <1>1, <1>2, HardOfflineFacts
     DEF TypeOK, ReportUce, TriageUce, ReportTriaged, Answered
<1>4. \E c \in Context :
        /\ rep' = [rep EXCEPT ![r] = c]
        /\ c.at \in {"table", "triaged"} /\ c.pfn = p
        /\ c.at = "table" /\ c.hw => p \in poison
        /\ c.at = "triaged" \/ c.tri => p \in Answered'
  <2>1. CASE TriageUce(r, p)
    <3> DEFINE b == At("triaged", p)
               c == [b EXCEPT !.tri = TRUE]
    <3>2. rep' = [rep EXCEPT ![r] = c]
      BY <2>1 DEF TriageUce
    <3>3. b \in Context /\ b.at = "triaged" /\ b.pfn = p
      BY ContextFacts DEF RepPos
    <3> HIDE DEF b
    <3>1. c \in Context /\ c.at = "triaged" /\ c.pfn = p
      BY <3>3 DEF Context
    <3> HIDE DEF c
    <3>4. QED
      BY <2>1, <3>1, <3>2, <1>3
  <2>2. CASE ReportUce(r, p) \/ ReportTriaged(r, p)
    <3>1. PICK tri \in BOOLEAN : /\ Look(r, p, tri)
                                 /\ tri => rep[r].at = "triaged" /\ rep[r].pfn = p
      BY <2>2 DEF ReportUce, ReportTriaged
    <3> DEFINE h == p \in poison
               c == [at |-> "table", pfn |-> p, hw |-> h, tri |-> tri]
    <3>3. rep' = [rep EXCEPT ![r] = c]
      BY <3>1 DEF Look
    <3>6. h \in BOOLEAN /\ (h => p \in poison)
      OBVIOUS
    <3> HIDE DEF h
    <3>2. c \in Context /\ c.at = "table" /\ c.pfn = p /\ c.hw = h /\ c.tri = tri
      BY <3>6 DEF Context, RepPos
    <3> HIDE DEF c
    <3>4. tri => p \in Answered'
      BY <1>1, <1>3, <3>1 DEF HandlersKnow
    <3>5. QED
      BY <3>2, <3>3, <3>4, <3>6
  <2>3. QED
    BY <2>1, <2>2
<1>5. PICK c \in Context :
        /\ rep' = [rep EXCEPT ![r] = c]
        /\ c.at \in {"table", "triaged"} /\ c.pfn = p
        /\ c.at = "table" /\ c.hw => p \in poison
        /\ c.at = "triaged" \/ c.tri => p \in Answered'
  BY <1>4
<1>6. /\ rep' \in [Reporter -> Context] /\ rep'[r] = c
      /\ \A x \in Reporter \ {r} : rep'[x] = rep[x]
  BY <1>1, <1>5 DEF TypeOK
<1>7. rep[r].at \in {"idle", "triaged"}
  BY ContextFacts DEF ReportUce, TriageUce, ReportTriaged
<1>8. TypeOK'
  BY <1>1, <1>2, <1>3, <1>6 DEF TypeOK
<1>9. HandlersKnow'
  BY <1>2, <1>3, <1>5, <1>6 DEF IInv, HandlersKnow
<1>10. OutcomesKnow'
  BY <1>2 DEF IInv, OutcomesKnow
<1>11. TableSound' /\ PreIsoHasDriver' /\ PoisonedIsAnswered'
  BY <1>2, <1>3, <1>6, <1>7, <1>8, QuietIInv
<1>12. QED
  BY <1>2, <1>8, <1>9, <1>10, <1>11 DEF IInv

(* Marking the page of an uncorrected error. *)
LEMMA UceTableIInv ==
  ASSUME IInv, NEW r \in Reporter, NEW p \in Pfn, UceTable(r, p)
  PROVE  IInv' /\ (\A q \in Pfn : st[q] \in {"preIso", "poisoned"} => st'[q] # "none")
<1> DEFINE s == IF TurnsPoisoned(p) THEN "poisoned" ELSE st[p]
           then(wanted) == IF wanted /\ ~rep[r].hw /\ ~rep[r].tri
                           THEN At("hard", p) ELSE Idle
<1>1. TypeOK /\ TableSound /\ TableTyped
  BY DEF IInv, TypeOK, TableTyped
<1>2. /\ rep[r].at = "table" /\ rep[r].pfn = p
      /\ UNCHANGED <<policy, soft, ran, mfq, mf, poison, lost>>
      /\ \/ \E out \in Room(p) : /\ Enter(p, out, s, count[p])
                                 /\ rep' = [rep EXCEPT ![r] = then(TurnsPoisoned(p))]
         \/ UNCHANGED table /\ rep' = [rep EXCEPT ![r] = then(TRUE)]
  BY DEF UceTable, Unhandled
<1>3. s \in PageStates \ {"none"} /\ count[p] \in 0..CountCap
  BY <1>1 DEF TypeOK, PageStates, TurnsPoisoned
<1>4. \A w \in BOOLEAN :
         /\ then(w) \in Context /\ then(w).at \in {"idle", "hard"}
         /\ then(w).at = "hard" => then(w).pfn = p
  BY ContextFacts DEF RepPos
<1>5. PICK w \in BOOLEAN : rep' = [rep EXCEPT ![r] = then(w)]
  BY <1>2 DEF TurnsPoisoned
<1>6. /\ rep' \in [Reporter -> Context] /\ rep'[r] = then(w)
      /\ \A x \in Reporter \ {r} : rep'[x] = rep[x]
  BY <1>1, <1>4, <1>5 DEF TypeOK
<1>7. /\ TableTyped' /\ TableSound'
      /\ \A q \in Pfn \ {p} : st'[q] = st[q] \/ (st'[q] = "none" /\ Evictable(q))
      /\ st'[p] = st[p] \/ (st'[p] = s /\ rep' = [rep EXCEPT ![r] = then(TurnsPoisoned(p))])
  <2>1. CASE UNCHANGED table
    BY <1>1, <2>1 DEF table, TableTyped, TableSound, Tracked
  <2>2. ASSUME NEW out \in Room(p), Enter(p, out, s, count[p]),
               rep' = [rep EXCEPT ![r] = then(TurnsPoisoned(p))]
        PROVE  /\ TableTyped' /\ TableSound'
               /\ \A q \in Pfn \ {p} : st'[q] = st[q] \/ (st'[q] = "none" /\ Evictable(q))
               /\ st'[p] = s /\ rep' = [rep EXCEPT ![r] = then(TurnsPoisoned(p))]
    <3> HIDE DEF s, then
    <3>1. QED
      BY <1>1, <1>3, <2>2, EnterFacts
  <2>3. QED
    BY <1>2, <2>1, <2>2
<1>8. TypeOK'
  BY <1>1, <1>2, <1>6, <1>7 DEF TypeOK, TableTyped
<1>9. HandlersKnow' /\ OutcomesKnow'
  BY <1>2, <1>4, <1>6 DEF IInv, HandlersKnow, OutcomesKnow, Answered
<1>10. PreIsoHasDriver'
  BY <1>2, <1>6, <1>7 DEF IInv, PreIsoHasDriver
<1>11. PoisonedIsAnswered'
  <2> SUFFICES ASSUME NEW q \in Pfn, st'[q] = "poisoned"
               PROVE  \/ q \in Answered
                      \/ \E x \in Reporter : rep'[x].at = "hard" /\ rep'[x].pfn = q
    BY <1>2 DEF PoisonedIsAnswered, Answered
  <2>1. CASE st[q] = "poisoned"
    BY <1>2, <1>6, <2>1 DEF IInv, PoisonedIsAnswered, Answered
  <2>2. CASE st[q] # "poisoned"
    <3>1. q = p /\ rep' = [rep EXCEPT ![r] = then(TurnsPoisoned(p))] /\ TurnsPoisoned(p)
      BY <1>7, <2>2
    <3>2. rep'[r] = then(TRUE)
      BY <1>1, <3>1 DEF TypeOK
    <3>3. CASE rep[r].hw \/ rep[r].tri
      BY <1>2, <3>1, <3>3 DEF IInv, HandlersKnow, Answered
    <3>4. CASE ~rep[r].hw /\ ~rep[r].tri
      <4>1. rep'[r] = At("hard", p)
        BY <3>2, <3>4
      <4>2. rep'[r].at = "hard" /\ rep'[r].pfn = p
        BY <4>1, ContextFacts DEF RepPos
      <4>3. QED
        BY <3>1, <4>2
    <3>5. QED
      BY <3>3, <3>4
  <2>3. QED
    BY <2>1, <2>2
<1>12. \A q \in Pfn : st[q] \in {"preIso", "poisoned"} => st'[q] # "none"
  BY <1>3, <1>7 DEF Evictable
<1>13. QED
  BY <1>7, <1>8, <1>9, <1>10, <1>11, <1>12 DEF IInv

(* Queueing the hard offline. *)
LEMMA HardQueueIInv ==
  ASSUME IInv, NEW r \in Reporter, NEW p \in Pfn, HardQueue(r, p)
  PROVE  IInv' /\ UNCHANGED table
<1>1. TypeOK
  BY DEF IInv
<1>2. /\ UNCHANGED <<policy, st, count, lru, soft, ran, mf, poison>> /\ UNCHANGED table
      /\ rep[r].at = "hard" /\ rep[r].pfn = p
      /\ rep' = [rep EXCEPT ![r] = Idle]
  BY DEF HardQueue, table
<1>3. /\ mfq' \in Seq(Pfn) /\ lost' \subseteq Pfn
      /\ Answered \subseteq Answered' /\ p \in Answered'
  BY <1>1, <1>2, HardOfflineFacts DEF TypeOK, HardQueue, Answered
<1>4. /\ rep' \in [Reporter -> Context] /\ rep'[r] = Idle
      /\ \A x \in Reporter \ {r} : rep'[x] = rep[x]
  BY <1>1, <1>2, ContextFacts DEF TypeOK
<1>5. TypeOK'
  BY <1>1, <1>2, <1>3, <1>4 DEF TypeOK
<1>6. HandlersKnow'
  BY <1>2, <1>3, <1>4, ContextFacts DEF IInv, HandlersKnow
<1>7. OutcomesKnow'
  BY <1>2 DEF IInv, OutcomesKnow
<1>8. TableSound' /\ PreIsoHasDriver' /\ PoisonedIsAnswered'
  BY <1>2, <1>3, <1>4, <1>5, QuietIInv
<1>9. QED
  BY <1>2, <1>5, <1>6, <1>7, <1>8 DEF IInv

(* Queueing works by hand and running them. *)
LEMMA SoftWorkIInv ==
  ASSUME IInv, NEW p \in Pfn, ManualOffline(p) \/ SoftRun(p)
  PROVE  IInv' /\ UNCHANGED table
<1>1. TypeOK
  BY DEF IInv
<1>2. UNCHANGED <<policy, st, count, lru, rep, mfq, mf, lost>> /\ UNCHANGED table
  BY DEF ManualOffline, SoftRun, table
<1>3. /\ soft' \in [Pfn -> 0..WorkCap]
      /\ ran' \subseteq Pfn \X BOOLEAN
      /\ poison' \subseteq Pfn
      /\ ran \subseteq ran' /\ poison \subseteq poison'
      /\ \A q \in Pfn \ {p} : soft'[q] = soft[q]
      /\ soft'[p] > 0 \/ \E ok \in BOOLEAN : <<p, ok>> \in ran'
      /\ \A q \in Pfn : <<q, TRUE>> \in ran' => <<q, TRUE>> \in ran \/ q \in poison'
  <2>0. soft[p] \in 0..WorkCap /\ WorkCap \in Nat
    BY <1>1, BoundAssumption DEF TypeOK
  <2>1. CASE ManualOffline(p)
    <3>1. /\ soft' = [soft EXCEPT ![p] = @ + 1] /\ soft[p] < WorkCap
          /\ ran' = ran /\ poison' = poison
      BY <2>1 DEF ManualOffline
    <3>2. soft[p] + 1 \in 0..WorkCap /\ soft[p] + 1 > 0
      BY <2>0, <3>1
    <3>3. soft'[p] = soft[p] + 1 /\ \A q \in Pfn \ {p} : soft'[q] = soft[q]
      BY <1>1, <3>1 DEF TypeOK
    <3>4. QED
      BY <1>1, <3>1, <3>2, <3>3 DEF TypeOK
  <2>2. CASE SoftRun(p)
    <3>1. soft' = [soft EXCEPT ![p] = @ - 1] /\ soft[p] > 0
      BY <2>2 DEF SoftRun
    <3>5. soft[p] - 1 \in 0..WorkCap
      BY <2>0, <3>1
    <3>2. soft' \in [Pfn -> 0..WorkCap] /\ \A q \in Pfn \ {p} : soft'[q] = soft[q]
      BY <1>1, <3>1, <3>5 DEF TypeOK
    <3>3. PICK ok \in BOOLEAN : /\ ran' = ran \cup {<<p, ok>>}
                                /\ poison' = IF ok THEN poison \cup {p} ELSE poison
      BY <2>2 DEF SoftRun
    <3>6. poison' \subseteq Pfn /\ poison \subseteq poison' /\ (ok => p \in poison')
      BY <1>1, <3>3 DEF TypeOK
    <3>7. /\ ran' \subseteq Pfn \X BOOLEAN
          /\ ran \subseteq ran' /\ <<p, ok>> \in ran'
      BY <1>1, <3>3 DEF TypeOK
    <3>8. \A q \in Pfn : <<q, TRUE>> \in ran' => <<q, TRUE>> \in ran \/ q \in poison'
      BY <3>3, <3>6
    <3>4. QED
      BY <3>2, <3>6, <3>7, <3>8
  <2>3. QED
    BY <2>1, <2>2
<1>4. TypeOK'
  BY <1>1, <1>2, <1>3 DEF TypeOK
<1>5. Answered \subseteq Answered'
  BY <1>2, <1>3 DEF Answered
<1>6. HandlersKnow' /\ OutcomesKnow'
  BY <1>2, <1>3, <1>5 DEF IInv, HandlersKnow, OutcomesKnow
<1>7. TableSound' /\ PreIsoHasDriver' /\ PoisonedIsAnswered'
  BY <1>2, <1>3, <1>4, <1>5, QuietIInv
<1>8. QED
  BY <1>2, <1>4, <1>6, <1>7 DEF IInv

(* Recording an outcome: only a poisoned page leaves the table. *)
LEMMA RecordIInv ==
  ASSUME IInv, NEW p \in Pfn, NEW ok \in BOOLEAN, SoftRecord(p, ok) \/ MfEvent(p, ok)
  PROVE  IInv' /\ (\A q \in Pfn : st'[q] = "none" => st[q] = "none" \/ q \in poison')
<1>1. TypeOK /\ TableSound /\ TableTyped
  BY DEF IInv, TypeOK, TableTyped
<1>2. UNCHANGED <<policy, rep, soft, mfq, poison, lost>>
  BY DEF SoftRecord, MfEvent
<1>3. PICK pre \in BOOLEAN : OfflineDone(p, pre, ok)
  BY DEF SoftRecord, MfEvent
<1>4. /\ TableTyped' /\ TableSound'
      /\ st'[p] \in {"none", "preIsoFailed", "failed"}
      /\ st'[p] = "none" => ok \/ st[p] = "none"
      /\ \A q \in Pfn \ {p} : st'[q] = st[q]
  BY <1>1, <1>3, OfflineDoneFacts
<1>5. /\ ran' \subseteq ran /\ mf' \subseteq mf
      /\ \A q \in Pfn \ {p}, o \in BOOLEAN : <<q, o>> \in ran => <<q, o>> \in ran'
  BY DEF SoftRecord, MfEvent
<1>6. ok => p \in poison
  BY DEF SoftRecord, MfEvent, IInv, OutcomesKnow
<1>7. TypeOK'
  BY <1>1, <1>2, <1>4, <1>5 DEF TypeOK, TableTyped
<1>8. PreIsoHasDriver' /\ PoisonedIsAnswered'
  BY <1>2, <1>4, <1>5 DEF IInv, PreIsoHasDriver, PoisonedIsAnswered
<1>9. HandlersKnow' /\ OutcomesKnow'
  BY <1>2, <1>5 DEF IInv, HandlersKnow, OutcomesKnow, Answered
<1>10. \A q \in Pfn : st'[q] = "none" => st[q] = "none" \/ q \in poison'
  BY <1>2, <1>4, <1>6
<1>11. QED
  BY <1>4, <1>7, <1>8, <1>9, <1>10 DEF IInv

(* memory_failure() taking up a page, and a change of the tunables. *)
LEMMA KernelIInv ==
  ASSUME IInv, NEW p \in Pfn,
         MfTake(p) \/ MfForeign(p) \/ (\E t \in Policies : MemSetPolicy(t))
  PROVE  IInv' /\ UNCHANGED table
<1>1. TypeOK
  BY DEF IInv
<1>2. UNCHANGED <<st, count, lru, rep, soft, ran, lost>> /\ UNCHANGED table
  BY DEF MfTake, MfForeign, MemSetPolicy, table
<1>3. /\ policy' \in Policies
      /\ poison' \subseteq Pfn /\ poison \subseteq poison'
      /\ mf' \subseteq Pfn /\ mf' \subseteq poison'
  BY <1>1 DEF IInv, OutcomesKnow, MfTake, MfForeign, MemSetPolicy, TypeOK
<1>4. mfq' \in Seq(Pfn) /\ Answered \subseteq Answered'
  <2>1. CASE MfTake(p)
    <3>1. /\ mfq \in Seq(Pfn) /\ mfq # << >> /\ mfq' = Tail(mfq) /\ p = Head(mfq)
          /\ p \in poison'
      BY <1>1, <2>1 DEF MfTake, TypeOK
    <3>2. QED
      BY <1>2, <1>3, <3>1, TailFacts DEF Answered
  <2>2. CASE mfq' = mfq
    BY <1>1, <1>2, <1>3, <2>2 DEF TypeOK, Answered
  <2>3. QED
    BY <2>1, <2>2 DEF MfForeign, MemSetPolicy
<1>5. TypeOK'
  BY <1>1, <1>2, <1>3, <1>4 DEF TypeOK
<1>6. HandlersKnow' /\ OutcomesKnow'
  BY <1>2, <1>3, <1>4 DEF IInv, HandlersKnow, OutcomesKnow
<1>7. TableSound' /\ PreIsoHasDriver' /\ PoisonedIsAnswered'
  BY <1>2, <1>3, <1>4, <1>5, QuietIInv
<1>8. QED
  BY <1>2, <1>5, <1>6, <1>7 DEF IInv

(* Every step keeps the invariant, and an entry in flight only leaves the  *)
(* table with its frame poisoned.                                          *)
FlightKept == \A p \in Pfn : st[p] \in {"preIso", "poisoned"} /\ st'[p] = "none"
                                 => p \in poison'

LEMMA NextIInv == IInv /\ [Next]_vars => IInv' /\ FlightKept
<1> SUFFICES ASSUME IInv, [Next]_vars PROVE IInv' /\ FlightKept
  OBVIOUS
<1>t. ASSUME IInv', UNCHANGED table PROVE IInv' /\ FlightKept
  BY <1>t DEF table, FlightKept
<1>1. ASSUME NEW r \in Reporter, NEW p \in Pfn, Report(r, p)
      PROVE  IInv' /\ FlightKept
  BY <1>1, <1>t, ReportCeIInv, LookIInv DEF Report, FlightKept
<1>2. ASSUME NEW r \in Reporter, NEW p \in Pfn, Continue(r, p)
      PROVE  IInv' /\ FlightKept
  BY <1>2, <1>t, SoftQueueIInv, LookIInv, UceTableIInv, HardQueueIInv
     DEF Continue, FlightKept
<1>3. ASSUME NEW p \in Pfn, ManualOffline(p) \/ SoftRun(p) \/ MfTake(p) \/ MfForeign(p)
      PROVE  IInv' /\ FlightKept
  BY <1>3, <1>t, SoftWorkIInv, KernelIInv
<1>4. ASSUME NEW p \in Pfn, Conclude(p) \/ Observe(p)
      PROVE  IInv' /\ FlightKept
  BY <1>4, RecordIInv DEF Conclude, Observe, FlightKept
<1>5. ASSUME NEW t \in Policies, MemSetPolicy(t)
      PROVE  IInv' /\ FlightKept
  <2>1. PICK p : p \in Pfn
    BY PfnAssumption
  <2>2. QED
    BY <1>5, <1>t, <2>1, KernelIInv
<1>6. CASE UNCHANGED vars
  <2>1. IInv'
    BY <1>6 DEF vars, IInv, TypeOK, TableSound, Tracked, PreIsoHasDriver,
                PoisonedIsAnswered, HandlersKnow, OutcomesKnow, Answered
  <2>2. QED
    BY <1>6, <1>t, <2>1 DEF vars, table
<1>7. QED
  BY <1>1, <1>2, <1>3, <1>4, <1>5, <1>6 DEF Next

-----------------------------------------------------------------------------
(* What an uncorrected error leaves behind.                                *)

(* A request has gone out or is about to, or the record speaks for an      *)
(* attempt.                                                                *)
InHandOrSettled(p) == InHand(p) \/ Settled(p)

LEMMA SpokenFor ==
  ASSUME NEW p \in Pfn
  PROVE  InHandOrSettled(p) <=>
             \/ p \in Answered
             \/ st[p] \in {"preIso", "preIsoFailed", "failed"}
             \/ \E r \in Reporter : rep[r].at = "hard" /\ rep[r].pfn = p
BY DEF InHandOrSettled, InHand, Settled, Answered

(* With the invariant, an entry beyond WATCHED is enough. *)
RecordsSpeak ==
    \A p \in Pfn : st[p] \notin {"none", "watched"} => InHandOrSettled(p)

LEMMA RecordSpeaks == IInv => RecordsSpeak
<1> SUFFICES ASSUME IInv, NEW p \in Pfn, st[p] \notin {"none", "watched"}
             PROVE  InHandOrSettled(p)
  BY DEF RecordsSpeak
<1>1. st[p] \in PageStates
  BY DEF IInv, TypeOK
<1>2. CASE st[p] = "poisoned"
  BY <1>2, SpokenFor DEF IInv, PoisonedIsAnswered, Answered
<1>3. CASE st[p] # "poisoned"
  BY <1>1, <1>3, SpokenFor DEF PageStates
<1>4. QED
  BY <1>2, <1>3

LEMMA RecordSpeaksNext == IInv' => RecordsSpeak'
BY RecordSpeaks, PTL

(* What every step carries on: requests, records beyond WATCHED, and what  *)
(* a handler is about to queue; and how a handler leaves the table.        *)
Carried ==
    /\ Answered \subseteq Answered'
    /\ \A q \in Pfn : st'[q] = "watched" => st[q] \in {"none", "watched"}
    /\ \A x \in Reporter : rep[x].at = "hard"
           => rep'[x] = rep[x] \/ rep[x].pfn \in Answered'
    /\ \A x \in Reporter, q \in Pfn :
           rep[x].at = "table" /\ rep[x].pfn = q /\ rep'[x] # rep[x]
               => InHandOrSettled(q)'

LEMMA ReportCarries ==
  ASSUME IInv, NEW r \in Reporter, NEW p \in Pfn, Report(r, p)
  PROVE  Carried
<1>1. TypeOK /\ TableSound /\ TableTyped
  BY DEF IInv, TypeOK, TableTyped
<1>2. rep[r].at = "idle"
  BY ContextFacts DEF Report, ReportCe, ReportUce, TriageUce
<1>3. \A x \in Reporter \ {r} : rep'[x] = rep[x]
  BY <1>1 DEF Report, ReportCe, ReportUce, TriageUce, Look, TypeOK
<1>4. Answered \subseteq Answered'
  BY <1>1, HardOfflineFacts
     DEF Report, ReportCe, ReportUce, TriageUce, TypeOK, Answered
<1>5. \A q \in Pfn : st'[q] = "watched" => st[q] \in {"none", "watched"}
  <2>1. CASE st' = st
    BY <2>1
  <2>2. ASSUME NEW expired \in BOOLEAN, ReportCe(r, p, expired)
        PROVE  \A q \in Pfn : st'[q] = "watched" => st[q] \in {"none", "watched"}
    <3> DEFINE n == CeAfter(p, expired)
               go == PreIsolate(p, n)
               s == IF go THEN "preIso" ELSE IF Tracked(p) THEN st[p] ELSE "watched"
    <3>1. n \in 0..CountCap
      BY <1>1, BoundAssumption DEF CeAfter, TypeOK
    <3>2. s \in PageStates \ {"none"}
      BY <1>1 DEF TypeOK, PageStates, Tracked
    <3>3. s = "watched" => st[p] \in {"none", "watched"}
      BY DEF Tracked
    <3>4. PICK out \in Room(p) : Enter(p, out, s, n)
      BY <2>2 DEF ReportCe
    <3> HIDE DEF n, s
    <3>5. /\ st'[p] = s
          /\ \A q \in Pfn \ {p} : st'[q] = st[q] \/ (st'[q] = "none" /\ Evictable(q))
      BY <1>1, <3>1, <3>2, <3>4, EnterFacts
    <3>6. QED
      BY <3>3, <3>5
  <2>3. QED
    BY <2>1, <2>2 DEF Report, ReportUce, TriageUce
<1>6. QED
  BY <1>2, <1>3, <1>4, <1>5 DEF Carried

(* However the handler leaves the table, the page is spoken for: by what   *)
(* it knows, by the entry it has found or made, or by what it is about to  *)
(* queue.                                                                  *)
LEMMA UceTableCarries ==
  ASSUME IInv, IInv', NEW r \in Reporter, NEW p \in Pfn, UceTable(r, p)
  PROVE  Carried
<1> DEFINE s == IF TurnsPoisoned(p) THEN "poisoned" ELSE st[p]
           then(wanted) == IF wanted /\ Unhandled(r) THEN At("hard", p) ELSE Idle
<1>1. TypeOK /\ TableSound /\ TableTyped
  BY DEF IInv, TypeOK, TableTyped
<1>2. /\ rep[r].at = "table" /\ rep[r].pfn = p
      /\ UNCHANGED <<policy, soft, ran, mfq, mf, poison, lost>>
      /\ \/ \E out \in Room(p) : Enter(p, out, s, count[p])
         \/ UNCHANGED table /\ rep' = [rep EXCEPT ![r] = then(TRUE)]
      /\ \A x \in Reporter \ {r} : rep'[x] = rep[x]
  BY <1>1 DEF UceTable, TypeOK
<1>3. s \in PageStates \ {"none", "watched"} /\ count[p] \in 0..CountCap
  BY <1>1 DEF TypeOK, PageStates, TurnsPoisoned
<1>4. CASE \E out \in Room(p) : Enter(p, out, s, count[p])
  <2> HIDE DEF s
  <2>1. /\ st'[p] = s
        /\ \A q \in Pfn \ {p} : st'[q] = st[q] \/ (st'[q] = "none" /\ Evictable(q))
    BY <1>1, <1>3, <1>4, EnterFacts
  <2>2. st'[p] \notin {"none", "watched"}
    BY <1>3, <2>1
  <2>3. InHandOrSettled(p)'
    BY <2>2, RecordSpeaksNext DEF RecordsSpeak
  <2>4. \A q \in Pfn : st'[q] = "watched" => st[q] \in {"none", "watched"}
    BY <2>1, <2>2
  <2>5. Answered' = Answered
    BY <1>2 DEF Answered
  <2>6. QED
    BY <1>2, <2>3, <2>4, <2>5 DEF Carried
<1>5. CASE UNCHANGED table /\ rep' = [rep EXCEPT ![r] = then(TRUE)]
  <2>1. InHandOrSettled(p)'
    <3>1. CASE Unhandled(r)
      <4>1. rep'[r] = At("hard", p)
        BY <1>1, <1>5, <3>1 DEF TypeOK
      <4>2. rep'[r].at = "hard" /\ rep'[r].pfn = p
        BY <4>1, ContextFacts DEF RepPos
      <4>3. QED
        BY <4>2 DEF InHandOrSettled, InHand
    <3>2. CASE ~Unhandled(r)
      <4>1. p \in Answered
        BY <1>2, <3>2 DEF Unhandled, IInv, HandlersKnow, Answered
      <4>2. QED
        BY <1>2, <4>1 DEF InHandOrSettled, InHand, Settled, Answered
    <3>3. QED
      BY <3>1, <3>2
  <2>2. QED
    BY <1>2, <1>5, <2>1 DEF Carried, Answered, table
<1>6. QED
  BY <1>2, <1>4, <1>5

LEMMA ContinueCarries ==
  ASSUME IInv, IInv', NEW r \in Reporter, NEW p \in Pfn, Continue(r, p)
  PROVE  Carried
<1>1. TypeOK /\ TableSound /\ TableTyped
  BY DEF IInv, TypeOK, TableTyped
<1>2. CASE SoftQueue(r, p)
  <2>1. /\ rep[r].at = "soft" /\ \A x \in Reporter \ {r} : rep'[x] = rep[x]
        /\ Answered' = Answered
    BY <1>1, <1>2 DEF SoftQueue, TypeOK, Answered
  <2>2. \A q \in Pfn : st'[q] = "watched" => st[q] \in {"none", "watched"}
    <3>1. CASE UNCHANGED table
      BY <3>1 DEF table
    <3>2. CASE OfflineDone(p, TRUE, FALSE)
      BY <1>1, <3>2, OfflineDoneFacts
    <3>3. QED
      BY <1>2, <3>1, <3>2 DEF SoftQueue
  <2>3. QED
    BY <2>1, <2>2 DEF Carried
<1>3. CASE ReportTriaged(r, p)
  BY <1>1, <1>3 DEF ReportTriaged, Look, TypeOK, Carried, Answered
<1>4. CASE UceTable(r, p)
  BY <1>4, UceTableCarries
<1>5. CASE HardQueue(r, p)
  <2>1. /\ rep[r].at = "hard" /\ rep[r].pfn = p /\ st' = st /\ poison' = poison
        /\ \A x \in Reporter \ {r} : rep'[x] = rep[x]
    BY <1>1, <1>5 DEF HardQueue, TypeOK
  <2>2. Answered \subseteq Answered' /\ p \in Answered'
    BY <1>1, <1>5, <2>1, HardOfflineFacts DEF HardQueue, TypeOK, Answered
  <2>3. QED
    BY <2>1, <2>2 DEF Carried
<1>6. QED
  BY <1>2, <1>3, <1>4, <1>5 DEF Continue

(* Nobody else touches a handler. *)
LEMMA OthersCarry ==
  ASSUME IInv,
         \/ \E p \in Pfn : \/ ManualOffline(p) \/ SoftRun(p) \/ Conclude(p)
                           \/ MfTake(p) \/ MfForeign(p) \/ Observe(p)
         \/ \E t \in Policies : MemSetPolicy(t)
  PROVE  Carried
<1>1. TypeOK /\ TableSound /\ TableTyped
  BY DEF IInv, TypeOK, TableTyped
<1>2. rep' = rep /\ lost' = lost
  BY DEF ManualOffline, SoftRun, Conclude, SoftRecord, MfTake, MfForeign, Observe,
         MfEvent, MemSetPolicy
<1>3. poison \subseteq poison'
  BY DEF ManualOffline, SoftRun, Conclude, SoftRecord, MfTake, MfForeign, Observe,
         MfEvent, MemSetPolicy
<1>4. Range(mfq) \subseteq Range(mfq') \cup poison'
  <2>1. ASSUME NEW p \in Pfn, MfTake(p)
        PROVE  Range(mfq) \subseteq Range(mfq') \cup poison'
    BY <1>1, <2>1, TailFacts DEF MfTake, TypeOK
  <2>2. CASE mfq' = mfq
    BY <2>2
  <2>3. QED
    BY <2>1, <2>2 DEF ManualOffline, SoftRun, Conclude, SoftRecord, MfForeign, Observe,
                      MfEvent, MemSetPolicy
<1>5. \A q \in Pfn : st'[q] = "watched" => st[q] \in {"none", "watched"}
  <2>1. CASE st' = st
    BY <2>1
  <2>2. ASSUME NEW p \in Pfn, NEW pre \in BOOLEAN, NEW ok \in BOOLEAN,
               OfflineDone(p, pre, ok)
        PROVE  \A q \in Pfn : st'[q] = "watched" => st[q] \in {"none", "watched"}
    BY <1>1, <2>2, OfflineDoneFacts
  <2>3. QED
    BY <2>1, <2>2 DEF ManualOffline, SoftRun, Conclude, SoftRecord, MfTake, MfForeign,
                      Observe, MfEvent, MemSetPolicy
<1>6. QED
  BY <1>2, <1>3, <1>4, <1>5 DEF Carried, Answered

(* A page in hand, and one a handler leaves the table for, is in hand or   *)
(* settled after the step.                                                 *)
HandKept ==
    \A p \in Pfn :
        \/ InHand(p)
        \/ \E r \in Reporter : /\ rep[r].at = "table" /\ rep[r].pfn = p
                               /\ rep'[r] # rep[r]
        => (InHand(p) \/ Settled(p))'

LEMMA CarriedIsKept ==
  ASSUME IInv, IInv', FlightKept, Carried
  PROVE  HandKept
<1> SUFFICES ASSUME NEW p \in Pfn,
                    \/ InHand(p)
                    \/ \E r \in Reporter : /\ rep[r].at = "table" /\ rep[r].pfn = p
                                           /\ rep'[r] # rep[r]
             PROVE  InHandOrSettled(p)'
  BY DEF HandKept, InHandOrSettled
<1>1. CASE p \in Range(mfq)
  BY <1>1 DEF Carried, Answered, InHandOrSettled, InHand, Settled
<1>2. CASE st[p] = "preIso"
  <2>1. CASE st'[p] = "none"
    BY <1>2, <2>1 DEF FlightKept, InHandOrSettled, Settled
  <2>2. CASE st'[p] # "none"
    <3>1. st'[p] \notin {"none", "watched"}
      BY <1>2, <2>2 DEF Carried
    <3>2. QED
      BY <3>1, RecordSpeaksNext DEF RecordsSpeak
  <2>3. QED
    BY <2>1, <2>2
<1>3. ASSUME NEW r \in Reporter, rep[r].at = "hard", rep[r].pfn = p
      PROVE  InHandOrSettled(p)'
  BY <1>3 DEF Carried, Answered, InHandOrSettled, InHand, Settled
<1>4. ASSUME NEW r \in Reporter, rep[r].at = "table", rep[r].pfn = p, rep'[r] # rep[r]
      PROVE  InHandOrSettled(p)'
  BY <1>4 DEF Carried
<1>5. QED
  BY <1>1, <1>2, <1>3, <1>4 DEF InHand

LEMMA NextKeepsHand == IInv /\ [Next]_vars => HandKept
<1> SUFFICES ASSUME IInv, [Next]_vars PROVE HandKept
  OBVIOUS
<1>1. IInv' /\ FlightKept
  BY NextIInv
<1>2. CASE Next
  <2>1. Carried
    BY <1>1, <1>2, ReportCarries, ContinueCarries, OthersCarry DEF Next
  <2>2. QED
    BY <1>1, <2>1, CarriedIsKept
<1>3. CASE UNCHANGED vars
  <2>1. Carried
    BY <1>3 DEF vars, Carried, Answered
  <2>2. QED
    BY <1>1, <2>1, CarriedIsKept
<1>4. QED
  BY <1>2, <1>3

-----------------------------------------------------------------------------
(* The theorems.                                                           *)

LEMMA Invariance == Spec => []IInv
  BY InitIInv, NextIInv, PTL DEF Spec

(* Every variable keeps its shape; in particular no offlined page keeps an *)
(* entry.                                                                  *)
THEOREM PageTypeCorrect == Spec => []TypeOK
<1>1. IInv => TypeOK
  BY DEF IInv
<1>2. QED
  BY <1>1, Invariance, PTL

(* The list and the table agree, without repetitions and within the        *)
(* capacity, for every capacity.                                           *)
THEOREM TableIsSound == Spec => []TableSound
<1>1. IInv => TableSound
  BY DEF IInv
<1>2. QED
  BY <1>1, Invariance, PTL

(* A pre-isolating page always has an offline attempt under way. *)
THEOREM PreIsoNeverStranded == Spec => []PreIsoHasDriver
<1>1. IInv => PreIsoHasDriver
  BY DEF IInv
<1>2. QED
  BY <1>1, Invariance, PTL

(* A page recorded as poisoned has been given to memory_failure(), however *)
(* many contexts report it and however they deduplicate.                   *)
THEOREM PoisonedPageIsAnswered == Spec => []PoisonedIsAnswered
<1>1. IInv => PoisonedIsAnswered
  BY DEF IInv
<1>2. QED
  BY <1>1, Invariance, PTL

(* An entry in flight only leaves the table with its frame poisoned:       *)
(* eviction never takes it, nor does a failure.                            *)
THEOREM InFlightIsKept == Spec => InFlightNeverEvicted
<1>1. IInv /\ [Next]_vars => [FlightKept]_vars
  BY NextIInv
<1>2. QED
  BY <1>1, Invariance, PTL DEF Spec, InFlightNeverEvicted, FlightKept

(* An uncorrected error is in somebody's hands from the moment its handler *)
(* leaves the table until the frame is poisoned, the kernel drops the      *)
(* request or the record tells of a failed attempt, for every number of    *)
(* pages and handlers.                                                     *)
THEOREM UceStaysInHand == Spec => UceInHand
<1>1. IInv /\ [Next]_vars => [HandKept]_vars
  BY NextKeepsHand
<1>2. QED
  BY <1>1, Invariance, PTL DEF Spec, UceInHand, HandKept
=============================================================================
