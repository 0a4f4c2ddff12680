-------------------------- MODULE LifecycleProofs --------------------------
(* Proofs about Lifecycle, for any machine, any tolerant level and any     *)
(* failing rung.  What a load has built and what an exit has left standing *)
(* is known from how much of the ladder is still to go.                    *)
EXTENDS Lifecycle, SequenceTheorems, TLAPS

(* A part is present while it is registered or somebody is inside. *)
Present == held \cup {s \in Sources : call[s] # "idle"}

(* The rung the loader is at, 11 when it is through. *)
Rung == 11 - Len(todo)
OnLadder(order) == Len(todo) \in 0..10 /\ todo = SubSeq(order, Rung, 10)

Built(k)    == {InitOrder[i] : i \in 1..(k - 1)}
Standing(k) == {ExitOrder[i] : i \in k..10}

Raising == box.symbol => tolerant >= Wanted

Ladder ==
    /\ phase = "out" => todo = << >> /\ Present = {}
    /\ phase = "load" => /\ OnLadder(InitOrder)
                         /\ Present \subseteq Built(Rung)
                         /\ Rung > 1 => "records" \in held
                         /\ Rung > 7 => Raising
                         /\ ~unwritten
    /\ phase = "loaded" => todo = << >> /\ "records" \in held /\ Raising
    /\ phase \in {"unwind", "exit"} => /\ OnLadder(ExitOrder)
                                       /\ Present \subseteq Standing(Rung)
                                       /\ Rung < 10 => "records" \in held
                                       /\ "arch" \in Present => Raising

(* tolerant is as it was found, or can be put back. *)
Settings ==
    /\ "panicLog" \in held => orig = found \/ (orig = Unset /\ tolerant = found)
    /\ "panicLog" \notin held => unwritten \/ tolerant = found

Users == timer \/ work => "records" \in held

IInv == TypeOK /\ Ladder /\ Settings /\ Users

-----------------------------------------------------------------------------
Parts == Range(InitOrder)

(* The rungs, one by one. *)
LEMMA RungsUp ==
    /\ Len(InitOrder) = 10 /\ InitOrder \in Seq(Parts)
    /\ InitOrder[1] = "records" /\ InitOrder[2] = "family" /\ InitOrder[3] = "attrs"
    /\ InitOrder[4] = "callback" /\ InitOrder[5] = "queue" /\ InitOrder[6] = "inject"
    /\ InitOrder[7] = "panicLog" /\ InitOrder[8] = "arch" /\ InitOrder[9] = "pageQueue"
    /\ InitOrder[10] = "memSources"
BY DEF InitOrder, Parts, Range

LEMMA PartsAre ==
    Parts = {"records", "family", "attrs", "callback", "queue", "inject", "panicLog",
             "arch", "pageQueue", "memSources"}
<1>1. Parts = {InitOrder[i] : i \in 1..10}
  BY DEF Parts, Range, InitOrder
<1> QED
  BY <1>1, RungsUp

LEMMA RungsDown ==
    /\ Len(ExitOrder) = 10 /\ ExitOrder \in Seq(Parts)
    /\ ExitOrder[1] = "memSources" /\ ExitOrder[2] = "pageQueue" /\ ExitOrder[3] = "arch"
    /\ ExitOrder[4] = "panicLog" /\ ExitOrder[5] = "inject" /\ ExitOrder[6] = "queue"
    /\ ExitOrder[7] = "callback" /\ ExitOrder[8] = "attrs" /\ ExitOrder[9] = "family"
    /\ ExitOrder[10] = "records"
BY PartsAre DEF ExitOrder

(* What Rung counts. *)
LEMMA RungIs == Len(todo) \in 0..10 => Rung \in 1..11 /\ Len(todo) = 11 - Rung
<1>1. \A n \in 0..10 : 11 - n \in 1..11 /\ n = 11 - (11 - n)
  OBVIOUS
<1> QED
  BY <1>1, Zenon DEF Rung

LEMMA RungBecomes ==
    \A k \in 1..11 : Len(todo') = 11 - k => Rung' = k /\ Len(todo') \in 0..10
BY DEF Rung

(* One rung further. *)
LEMMA Climbing ==
    ASSUME NEW order \in Seq(Parts), Len(order) = 10, OnLadder(order), todo # << >>
    PROVE  /\ Rung \in 1..10
           /\ Head(todo) = order[Rung]
           /\ Tail(todo) \in Seq(Parts)
           /\ Len(Tail(todo)) = Len(todo) - 1
           /\ Tail(todo) = SubSeq(order, Rung + 1, 10)
<1> DEFINE k == Rung
<1>1. k \in 1..11 /\ Len(todo) = 11 - k /\ todo = SubSeq(order, k, 10)
  <2>1. Len(todo) \in 0..10
    BY DEF OnLadder
  <2> QED
    BY <2>1, RungIs DEF OnLadder
<1> HIDE DEF k
<1>2. ASSUME NEW i \in k..10 PROVE order[i] \in Parts
  <2>1. i \in 1..Len(order)
    BY <1>1
  <2> QED
    BY <2>1, ElementOfSeq
<1>3. todo \in Seq(Parts)
  <2>1. k \in Int
    BY <1>1
  <2> QED
    BY <1>1, <1>2, <2>1, SubSeqProperties
<1>4. k \in 1..10
  <2>1. Len(todo) # 0
    BY <1>3, EmptySeq
  <2> QED
    BY <1>1, <2>1
<1>5. Head(todo) = order[k] /\ Tail(todo) = SubSeq(order, k + 1, 10)
  <2>1. k \in 1..Len(order) /\ 10 \in k..Len(order)
    BY <1>4
  <2> QED
    BY <1>1, <2>1, HeadTailOfSubSeq
<1>6. Tail(todo) \in Seq(Parts) /\ Len(Tail(todo)) = Len(todo) - 1
  BY <1>3, HeadTailProperties
<1> QED
  BY <1>4, <1>5, <1>6 DEF k

(* A whole ladder, and what is left of it below a label. *)
LEMMA WholeLadder ==
    ASSUME NEW order \in Seq(Parts), Len(order) = 10, todo' = order
    PROVE  OnLadder(order)' /\ Rung' = 1
<1>1. Rung' = 1 /\ Len(todo') \in 0..10
  <2>1. Len(todo') = 11 - 1 /\ 1 \in 1..11
    OBVIOUS
  <2> QED
    BY <2>1, RungBecomes, Zenon
<1>2. SubSeq(order, 1, Len(order)) = order
  BY SubSeqFull
<1> QED
  BY <1>1, <1>2 DEF OnLadder

LEMMA Below ==
    ASSUME NEW k \in 1..10
    PROVE  /\ From(ExitOrder[k]) = SubSeq(ExitOrder, k, 10)
           /\ From(ExitOrder[k]) \in Seq(Parts)
           /\ Len(From(ExitOrder[k])) = 11 - k
<1>1. DOMAIN ExitOrder = 1..10
  BY RungsDown
<1>2. \A i \in 1..10 : ExitOrder[i] = ExitOrder[k] => i = k
  BY RungsDown
<1>3. (CHOOSE i \in DOMAIN ExitOrder : ExitOrder[i] = ExitOrder[k]) = k
  BY <1>1, <1>2
<1>4. From(ExitOrder[k]) = SubSeq(ExitOrder, k, 10)
  BY <1>3, RungsDown DEF From
<1>5. ASSUME NEW i \in k..10 PROVE ExitOrder[i] \in Parts
  <2>1. i \in 1..Len(ExitOrder)
    BY RungsDown
  <2> QED
    BY <2>1, RungsDown, ElementOfSeq
<1> QED
  BY <1>4, <1>5, SubSeqProperties

(* The ladder after a step of the loader. *)
LEMMA Stepped ==
    ASSUME NEW order \in Seq(Parts), Len(order) = 10, OnLadder(order), todo # << >>,
           todo' = Tail(todo)
    PROVE  /\ Rung \in 1..10 /\ Head(todo) = order[Rung]
           /\ OnLadder(order)' /\ Rung' = Rung + 1 /\ todo' \in Seq(Parts)
<1> DEFINE k == Rung
<1>1. /\ k \in 1..10 /\ Head(todo) = order[k] /\ todo' \in Seq(Parts)
      /\ Len(todo') = Len(todo) - 1 /\ todo' = SubSeq(order, k + 1, 10)
  BY Climbing
<1>2. Len(todo) \in 0..10 /\ Len(todo) = 11 - k
  BY RungIs DEF OnLadder
<1> HIDE DEF k
<1>3. Len(todo') = 11 - (k + 1) /\ k + 1 \in 1..11
  BY <1>1, <1>2
<1>4. Rung' = k + 1 /\ Len(todo') \in 0..10
  BY <1>3, RungBecomes, Zenon
<1> QED
  BY <1>1, <1>4 DEF k, OnLadder

LEMMA Jumped ==
    ASSUME NEW k \in 1..10, todo' = From(ExitOrder[k])
    PROVE  OnLadder(ExitOrder)' /\ Rung' = k /\ todo' \in Seq(Parts)
<1>1. /\ todo' = SubSeq(ExitOrder, k, 10) /\ todo' \in Seq(Parts)
      /\ Len(todo') = 11 - k /\ k \in 1..11
  <2>1. /\ todo' = SubSeq(ExitOrder, k, 10) /\ todo' \in Seq(Parts)
        /\ Len(todo') = 11 - k
    BY Below, Zenon
  <2> QED
    BY <2>1
<1>2. Rung' = k /\ Len(todo') \in 0..10
  BY <1>1, RungBecomes, Zenon
<1> QED
  BY <1>1, <1>2 DEF OnLadder

LEMMA Through ==
    ASSUME NEW order \in Seq(Parts), Len(order) = 10, OnLadder(order), todo = << >>
    PROVE  Rung = 11
<1>1. Len(todo) = 0
  OBVIOUS
<1> QED
  BY <1>1 DEF Rung

LEMMA Emptied ==
    ASSUME todo' = << >>
    PROVE  OnLadder(ExitOrder)' /\ Rung' = 11 /\ todo' \in Seq(Parts)
<1>1. Len(todo') = 11 - 11 /\ 11 \in 1..11 /\ todo' \in Seq(Parts)
  OBVIOUS
<1>2. Rung' = 11 /\ Len(todo') \in 0..10
  BY <1>1, RungBecomes, Zenon
<1>3. SubSeq(ExitOrder, 11, 10) = << >>
  BY SubSeqEmpty
<1> QED
  BY <1>1, <1>2, <1>3 DEF OnLadder

(* What one rung adds to what is built and takes from what stands. *)
LEMMA OneRung ==
    ASSUME NEW k \in 1..10
    PROVE  /\ Built(k + 1) = Built(k) \cup {InitOrder[k]}
           /\ Standing(k) \ {ExitOrder[k]} \subseteq Standing(k + 1)
           /\ Built(1) = {} /\ Standing(11) = {}
           /\ Standing(10) = {"records"}
<1>1. \A i : i \in 1..(k + 1 - 1) <=> i \in 1..(k - 1) \/ i = k
  OBVIOUS
<1>2. \A i : i \in k..10 => i = k \/ i \in (k + 1)..10
  OBVIOUS
<1>3. 1..(1 - 1) = {} /\ 11..10 = {} /\ 10..10 = {10}
  OBVIOUS
<1>4. Built(k + 1) = Built(k) \cup {InitOrder[k]}
  <2>1. ASSUME NEW x \in Built(k + 1) PROVE x \in Built(k) \cup {InitOrder[k]}
    <3>1. PICK i \in 1..(k + 1 - 1) : x = InitOrder[i]
      BY <2>1 DEF Built
    <3>2. i \in 1..(k - 1) \/ i = k
      BY <1>1
    <3> QED
      BY <3>1, <3>2 DEF Built
  <2>2. ASSUME NEW x \in Built(k) \cup {InitOrder[k]} PROVE x \in Built(k + 1)
    <3>1. \E i : x = InitOrder[i] /\ (i \in 1..(k - 1) \/ i = k)
      BY <2>2 DEF Built
    <3>2. PICK i : x = InitOrder[i] /\ i \in 1..(k + 1 - 1)
      BY <1>1, <3>1
    <3> QED
      BY <3>2 DEF Built
  <2> QED
    BY <2>1, <2>2
<1>5. Standing(k) \ {ExitOrder[k]} \subseteq Standing(k + 1)
  BY <1>2, Zenon DEF Standing
<1>6. Built(1) = {} /\ Standing(11) = {}
  BY <1>3 DEF Built, Standing
<1>7. Standing(10) = {"records"}
  BY <1>3, RungsDown DEF Standing
<1> QED
  BY <1>4, <1>5, <1>6, <1>7

(* An exit goes down the rungs a load came up. *)
LEMMA Mirror ==
    ASSUME NEW k \in 1..11
    PROVE  Built(k) = Standing(12 - k)
<1>1. \A i \in 1..10 : InitOrder[i] = ExitOrder[11 - i]
  BY RungsUp, RungsDown
<1>2. ASSUME NEW i \in 1..(k - 1) PROVE InitOrder[i] \in Standing(12 - k)
  <2>1. i \in 1..10 /\ 11 - i \in (12 - k)..10
    OBVIOUS
  <2> QED
    BY <1>1, <2>1 DEF Standing
<1>3. ASSUME NEW i \in (12 - k)..10 PROVE ExitOrder[i] \in Built(k)
  <2>1. 11 - i \in 1..(k - 1) /\ 11 - i \in 1..10 /\ 11 - (11 - i) = i
    OBVIOUS
  <2>2. InitOrder[11 - i] = ExitOrder[i]
    BY <1>1, <2>1
  <2> QED
    BY <2>1, <2>2 DEF Built
<1> QED
  BY <1>2, <1>3 DEF Built, Standing

(* Where the parts that matter stand on the ladder. *)
LEMMA Places ==
    ASSUME NEW k \in 1..11
    PROVE  /\ "panicLog" \in Built(k) => k > 7
           /\ "arch" \in Built(k) => k > 8
           /\ "arch" \in Standing(k) => k <= 3
<1>1. ASSUME "panicLog" \in Built(k) PROVE k > 7
  <2>1. PICK i \in 1..(k - 1) : InitOrder[i] = "panicLog"
    BY <1>1 DEF Built
  <2>2. i \in 1..10 /\ i < k
    BY <2>1
  <2> QED
    BY <2>1, <2>2, RungsUp
<1>2. ASSUME "arch" \in Built(k) PROVE k > 8
  <2>1. PICK i \in 1..(k - 1) : InitOrder[i] = "arch"
    BY <1>2 DEF Built
  <2>2. i \in 1..10 /\ i < k
    BY <2>1
  <2> QED
    BY <2>1, <2>2, RungsUp
<1>3. ASSUME "arch" \in Standing(k) PROVE k <= 3
  <2>1. PICK i \in k..10 : ExitOrder[i] = "arch"
    BY <1>3 DEF Standing
  <2>2. i \in 1..10 /\ i >= k
    BY <2>1
  <2> QED
    BY <2>1, <2>2, RungsDown
<1> QED
  BY <1>1, <1>2, <1>3

-----------------------------------------------------------------------------
(* Raising tolerant works on every machine whose variable can be found,    *)
(* and notes what it was or leaves it alone.                               *)
LEMMA Raises ==
    ASSUME TypeOK, SetTolerant
    PROVE  /\ tolerant' \in Levels \cup {Wanted} /\ orig' \in Levels \cup {Wanted, Unset}
           /\ direct' \in BOOLEAN /\ found' = found /\ unwritten' = unwritten
           /\ box.symbol => tolerant' >= Wanted
           /\ orig' = tolerant \/ (orig' = Unset /\ tolerant' = tolerant)
<1>1. box.symbol \in BOOLEAN /\ box.attr \in BOOLEAN
  BY BoxAssumption DEF TypeOK
<1>2. tolerant \in 0..3 /\ Wanted \in 0..3
  BY WantedAssumption DEF TypeOK
<1>3. Raised \in Levels \cup {Wanted} /\ Raised >= Wanted
  BY <1>2 DEF Raised, TypeOK
<1> QED
  BY <1>1, <1>2, <1>3 DEF SetTolerant, TypeOK

LEMMA Restores ==
    ASSUME TypeOK, RestoreTolerant, orig = found \/ (orig = Unset /\ tolerant = found)
    PROVE  /\ tolerant' \in Levels \cup {Wanted} /\ unwritten' \in BOOLEAN
           /\ orig' = orig /\ direct' = direct /\ found' = found
           /\ unwritten' \/ tolerant' = found
<1>1. orig # Unset => orig \in Levels \cup {Wanted}
  BY DEF TypeOK
<1>2. found # Unset
  BY WantedAssumption DEF TypeOK, Unset
<1> QED
  BY <1>1, <1>2 DEF RestoreTolerant, TypeOK

-----------------------------------------------------------------------------
LEMMA InitIInv == Init => IInv
<1> SUFFICES ASSUME Init PROVE IInv
  OBVIOUS
<1>1. todo \in Seq(Range(InitOrder)) /\ held \subseteq Range(InitOrder)
  BY DEF Init
<1>2. call \in [Sources -> {"idle", "cpu", "page", "record"}]
  BY DEF Init
<1>3. TypeOK
  BY <1>1, <1>2 DEF Init, TypeOK
<1>4. Present = {}
  BY DEF Init, Present
<1> QED
  BY <1>3, <1>4 DEF Init, IInv, Ladder, Settings, Users

LEMMA LoadKeeps == IInv /\ Load => IInv'
<1> SUFFICES ASSUME IInv, Load PROVE IInv'
  OBVIOUS
<1> USE DEF IInv, Load, lvars, qvars
<1>1. OnLadder(InitOrder)' /\ Rung' = 1 /\ todo' \in Seq(Parts)
  BY WholeLadder, RungsUp
<1>2. Present = {} /\ Present' = {}
  BY DEF Ladder, Present
<1>3. Settings'
  BY <1>2 DEF Settings, Present
<1>4. Ladder'
  BY <1>1, <1>2 DEF Ladder
<1>5. TypeOK'
  BY <1>1 DEF TypeOK, Parts
<1> QED
  BY <1>3, <1>4, <1>5 DEF Users

LEMMA AcquireKeeps == IInv /\ Acquire => IInv'
<1> SUFFICES ASSUME IInv, Acquire PROVE IInv'
  OBVIOUS
<1> DEFINE k == Rung
           x == InitOrder[k]
<1>1. phase = "load" /\ phase' = "load" /\ box' = box /\ call' = call /\ UNCHANGED qvars
  BY DEF Acquire
<1>2. /\ OnLadder(InitOrder) /\ Present \subseteq Built(k) /\ ~unwritten
      /\ k > 1 => "records" \in held
      /\ k > 7 => Raising
  BY <1>1 DEF IInv, Ladder
<1>3. /\ k \in 1..10 /\ Head(todo) = x
      /\ OnLadder(InitOrder)' /\ Rung' = k + 1 /\ todo' \in Seq(Parts)
  BY <1>2, Stepped, RungsUp DEF Acquire
<1> HIDE DEF k
<1>4. /\ held' = held \cup {x} \/ held' = held
      /\ x \in {"records", "panicLog"} => x \in held'
      /\ IF x = "panicLog" THEN SetTolerant ELSE UNCHANGED tvars
  BY <1>3 DEF Acquire, Wants, Optional
<1>5. x \in Parts /\ k \in 1..11 /\ (x = "records" <=> k = 1) /\ (x = "panicLog" <=> k = 7)
  BY <1>3, RungsUp, PartsAre
<1>6. Present' \subseteq Built(k + 1)
  <2>1. Present' \subseteq Present \cup {x}
    BY <1>1, <1>4 DEF Present
  <2> QED
    BY <1>2, <1>3, <2>1, OneRung
<1>7. CASE x = "panicLog"
  <2>1. k = 7 /\ "panicLog" \notin held /\ "panicLog" \in held'
    BY <1>2, <1>4, <1>5, <1>7, Places DEF Present
  <2>2. tolerant = found
    BY <1>2, <2>1 DEF IInv, Settings
  <2>3. /\ tolerant' \in Levels \cup {Wanted} /\ orig' \in Levels \cup {Wanted, Unset}
        /\ direct' \in BOOLEAN /\ found' = found /\ unwritten' = unwritten
        /\ box.symbol => tolerant' >= Wanted
        /\ orig' = tolerant \/ (orig' = Unset /\ tolerant' = tolerant)
    BY <1>4, <1>7, Raises DEF IInv
  <2>4. "records" \in held'
    BY <1>2, <1>4, <2>1
  <2>5. TypeOK'
    BY <1>1, <1>3, <1>4, <1>5, <2>3 DEF IInv, TypeOK, Parts, qvars
  <2>6. Ladder'
    BY <1>1, <1>2, <1>3, <1>6, <2>3, <2>4 DEF Ladder, Raising
  <2>7. Settings' /\ Users'
    BY <2>1, <2>2, <2>3, <2>4 DEF Settings, Users
  <2> QED
    BY <2>5, <2>6, <2>7 DEF IInv
<1>8. CASE x # "panicLog"
  <2>1. UNCHANGED tvars /\ k # 7
    BY <1>4, <1>5, <1>8
  <2>2. "panicLog" \in held' <=> "panicLog" \in held
    BY <1>4, <1>8
  <2>3. "records" \in held'
    BY <1>2, <1>3, <1>4, <1>5
  <2>4. k + 1 > 7 => Raising'
    BY <1>1, <1>2, <1>3, <2>1 DEF Raising, tvars
  <2>5. TypeOK'
    BY <1>1, <1>3, <1>4, <1>5, <2>1 DEF IInv, TypeOK, Parts, qvars, tvars
  <2>6. Ladder'
    BY <1>1, <1>2, <1>3, <1>6, <2>1, <2>3, <2>4 DEF Ladder, tvars
  <2>7. Settings' /\ Users'
    BY <2>1, <2>2, <2>3 DEF IInv, Settings, Users, tvars
  <2> QED
    BY <2>5, <2>6, <2>7 DEF IInv
<1> QED
  BY <1>7, <1>8

(* Which rungs may fail, and how far up the way down is joined. *)
LEMMA FailLands ==
    ASSUME IInv, Fail
    PROVE  /\ Rung \in {1, 2, 3, 4, 5, 8, 9}
           /\ Rung' = IF Rung = 1 THEN 11 ELSE 12 - Rung
           /\ OnLadder(ExitOrder)' /\ todo' \in Seq(Parts)
<1> DEFINE k == Rung
           x == InitOrder[k]
<1>1. k \in 1..10 /\ Head(todo) = x
  BY Climbing, RungsUp DEF IInv, Ladder, Fail
<1> HIDE DEF k
<1>2. k \in {1, 2, 3, 4, 5, 8, 9}
  BY <1>1, RungsUp DEF Fail, MayFail
<1>3. CASE k = 1
  <2>1. todo' = << >>
    BY <1>1, <1>3, RungsUp DEF Fail
  <2> QED
    BY <1>3, <2>1, Emptied DEF k
<1>4. CASE k # 1
  <2>1. todo' = From(FailLabel(x))
    BY <1>1, <1>2, <1>4, RungsUp DEF Fail
  <2>2. FailLabel(x) = ExitOrder[12 - k]
    BY <1>2, <1>4, RungsUp, RungsDown DEF FailLabel
  <2>3. 12 - k \in 1..10
    BY <1>2, <1>4
  <2>4. OnLadder(ExitOrder)' /\ Rung' = 12 - k /\ todo' \in Seq(Parts)
    BY <2>1, <2>2, <2>3, Jumped
  <2> QED
    BY <1>2, <1>4, <2>4 DEF k
<1> QED
  BY <1>3, <1>4

LEMMA FailKeeps == IInv /\ Fail => IInv'
<1> SUFFICES ASSUME IInv, Fail PROVE IInv'
  OBVIOUS
<1> DEFINE k == Rung
           x == InitOrder[k]
<1>1. /\ phase = "load" /\ todo # << >> /\ phase' = "unwind" /\ Present' = Present
      /\ UNCHANGED <<box, held, call>> /\ UNCHANGED qvars /\ UNCHANGED tvars
  BY DEF Fail, Present
<1>2. /\ OnLadder(InitOrder) /\ Present \subseteq Built(k)
      /\ k > 1 => "records" \in held
      /\ k > 7 => Raising
  BY <1>1 DEF IInv, Ladder
<1>3. k \in 1..10 /\ Head(todo) = x
  BY <1>1, <1>2, Climbing, RungsUp
<1> HIDE DEF k
<1>4. /\ OnLadder(ExitOrder)' /\ todo' \in Seq(Parts)
      /\ k \in {1, 2, 3, 4, 5, 8, 9} /\ Rung' = IF k = 1 THEN 11 ELSE 12 - k
  BY FailLands DEF k
<1>5. /\ Rung' \in 1..11 /\ Present \subseteq Standing(Rung')
      /\ Rung' < 10 => k > 1
  <2>1. CASE k = 1
    BY <1>2, <1>4, <2>1, OneRung
  <2>2. CASE k # 1
    <3>1. 12 - k \in 1..11 /\ k \in 1..11 /\ k > 1 /\ Rung' = 12 - k
      BY <1>4, <2>2
    <3> QED
      BY <1>2, <3>1, Mirror
  <2> QED
    BY <2>1, <2>2
<1>6. "arch" \in Present => Raising'
  <2>1. "arch" \in Present => k > 8
    BY <1>2, <1>3, Places
  <2> QED
    BY <1>1, <1>2, <1>3, <2>1 DEF Raising, tvars
<1>7. TypeOK'
  BY <1>1, <1>4 DEF IInv, TypeOK, Parts, qvars, tvars
<1>8. Ladder'
  BY <1>1, <1>2, <1>4, <1>5, <1>6 DEF Ladder
<1>9. Settings' /\ Users'
  BY <1>1 DEF IInv, Settings, Users, tvars, qvars
<1> QED
  BY <1>7, <1>8, <1>9 DEF IInv

LEMMA UnloadKeeps == IInv /\ Unload => IInv'
<1> SUFFICES ASSUME IInv, Unload PROVE IInv'
  OBVIOUS
<1>1. /\ phase = "loaded" /\ phase' = "exit" /\ Present' = Present
      /\ UNCHANGED <<box, held, call>> /\ UNCHANGED qvars /\ UNCHANGED tvars
  BY DEF Unload, Present
<1>2. OnLadder(ExitOrder)' /\ Rung' = 1 /\ todo' \in Seq(Parts)
  BY WholeLadder, RungsDown DEF Unload
<1>3. Present \subseteq Standing(1)
  <2>1. Present \subseteq Parts
    BY PartsAre DEF IInv, TypeOK, Present, Sources, Parts
  <2>2. \A y \in Parts : \E i \in 1..10 : y = ExitOrder[i]
    BY RungsDown, PartsAre
  <2> QED
    BY <2>1, <2>2 DEF Standing
<1>4. "records" \in held /\ Raising
  BY <1>1 DEF IInv, Ladder
<1>5. TypeOK'
  BY <1>1, <1>2 DEF IInv, TypeOK, Parts, qvars, tvars
<1>6. Ladder'
  BY <1>1, <1>2, <1>3, <1>4 DEF Ladder, Raising, tvars
<1>7. Settings' /\ Users'
  BY <1>1 DEF IInv, Settings, Users, tvars, qvars
<1> QED
  BY <1>5, <1>6, <1>7 DEF IInv

LEMMA ReleasedKeeps == IInv /\ Released => IInv'
<1> SUFFICES ASSUME IInv, Released PROVE IInv'
  OBVIOUS
<1> DEFINE k == Rung
           x == ExitOrder[k]
<1>1. /\ phase \in {"unwind", "exit"} /\ phase' = phase /\ Present' = Present
      /\ UNCHANGED <<box, held, call>> /\ UNCHANGED qvars /\ UNCHANGED tvars
  BY DEF Released, GoingDown, Present
<1>2. /\ OnLadder(ExitOrder) /\ Present \subseteq Standing(k)
      /\ k < 10 => "records" \in held
      /\ "arch" \in Present => Raising
  BY <1>1 DEF IInv, Ladder
<1>3. /\ k \in 1..10 /\ Head(todo) = x
      /\ OnLadder(ExitOrder)' /\ Rung' = k + 1 /\ todo' \in Seq(Parts)
  BY <1>2, Stepped, RungsDown DEF Released, GoingDown
<1> HIDE DEF k
<1>4. x \notin Present
  BY <1>3 DEF Released, Quiet, Present
<1>5. Present \subseteq Standing(k + 1)
  BY <1>2, <1>3, <1>4, OneRung
<1>6. TypeOK'
  BY <1>1, <1>3 DEF IInv, TypeOK, Parts, qvars, tvars
<1>7. Ladder'
  BY <1>1, <1>2, <1>3, <1>5 DEF Ladder, Raising, tvars
<1>8. Settings' /\ Users'
  BY <1>1 DEF IInv, Settings, Users, tvars, qvars
<1> QED
  BY <1>6, <1>7, <1>8 DEF IInv

LEMMA UnregisterKeeps == IInv /\ Unregister => IInv'
<1> SUFFICES ASSUME IInv, Unregister PROVE IInv'
  OBVIOUS
<1> DEFINE k == Rung
           x == ExitOrder[k]
<1>1. /\ phase \in {"unwind", "exit"} /\ phase' = phase /\ todo' = todo /\ todo # << >>
      /\ UNCHANGED <<box, call, softWork, oops>>
  BY DEF Unregister, GoingDown
<1>2. /\ OnLadder(ExitOrder) /\ Present \subseteq Standing(k)
      /\ k < 10 => "records" \in held
      /\ "arch" \in Present => Raising
  BY <1>1 DEF IInv, Ladder
<1>3. k \in 1..10 /\ Head(todo) = x
  BY <1>1, <1>2, Climbing, RungsDown
<1>4. Rung' = k /\ OnLadder(ExitOrder)' /\ todo' \in Seq(Range(InitOrder))
  BY <1>1, <1>2 DEF Rung, OnLadder, IInv, TypeOK
<1> HIDE DEF k
<1>5. /\ held' = held \ {x} /\ x \in held
      /\ IF x = "panicLog" THEN RestoreTolerant ELSE UNCHANGED tvars
      /\ IF x = "records" THEN timer' = FALSE /\ work' = FALSE
                          ELSE UNCHANGED <<timer, work>>
  BY <1>3 DEF Unregister, GoingDown
<1>6. Present' \subseteq Present /\ (x = "records" <=> k = 10) /\ (x = "panicLog" <=> k = 4)
  BY <1>1, <1>3, <1>5, RungsDown DEF Present
<1>7. /\ tolerant' \in Levels \cup {Wanted} /\ unwritten' \in BOOLEAN
      /\ orig' = orig /\ direct' = direct /\ found' = found
      /\ x # "panicLog" => tolerant' = tolerant /\ unwritten' = unwritten
      /\ Settings'
  <2>1. CASE x = "panicLog"
    <3>1. orig = found \/ (orig = Unset /\ tolerant = found)
      BY <1>5, <2>1 DEF IInv, Settings
    <3>2. "panicLog" \notin held'
      BY <1>5, <2>1
    <3> QED
      BY <1>5, <2>1, <3>1, <3>2, Restores DEF IInv, Settings
  <2>2. CASE x # "panicLog"
    <3>1. UNCHANGED tvars /\ ("panicLog" \in held' <=> "panicLog" \in held)
      BY <1>5, <2>2
    <3> QED
      BY <2>2, <3>1 DEF IInv, TypeOK, Settings, tvars
  <2> QED
    BY <2>1, <2>2
<1>8. TypeOK'
  BY <1>1, <1>4, <1>5, <1>7 DEF IInv, TypeOK
<1>9. "arch" \in Present' => Raising'
  <2>1. "arch" \in Present' => k <= 3
    BY <1>2, <1>3, <1>6, Places
  <2>2. k <= 3 => x # "panicLog"
    BY <1>3, <1>6
  <2> QED
    BY <1>1, <1>2, <1>6, <1>7, <2>1, <2>2 DEF Raising
<1>10. Ladder'
  <2>1. k < 10 => "records" \in held'
    BY <1>2, <1>3, <1>5, <1>6
  <2> QED
    BY <1>1, <1>2, <1>4, <1>6, <1>9, <2>1 DEF Ladder
<1>11. Users'
  BY <1>5 DEF IInv, Users
<1> QED
  BY <1>7, <1>8, <1>10, <1>11 DEF IInv

LEMMA FinishKeeps == IInv /\ Finish => IInv'
<1> SUFFICES ASSUME IInv, Finish PROVE IInv'
  OBVIOUS
<1>1. /\ todo = << >> /\ todo' = todo /\ Present' = Present
      /\ UNCHANGED <<box, held, call>> /\ UNCHANGED qvars /\ UNCHANGED tvars
  BY DEF Finish, Present
<1>2. CASE phase = "load"
  <2>1. OnLadder(InitOrder) /\ Rung = 11
    BY <1>1, <1>2, Through, RungsUp DEF IInv, Ladder
  <2>2. "records" \in held /\ Raising /\ phase' = "loaded"
    BY <1>2, <2>1 DEF IInv, Ladder, Finish
  <2> QED
    BY <1>1, <2>2 DEF IInv, TypeOK, Ladder, Settings, Users, Raising, tvars, qvars
<1>3. CASE phase \in {"unwind", "exit"}
  <2>1. OnLadder(ExitOrder) /\ Rung = 11
    BY <1>1, <1>3, Through, RungsDown DEF IInv, Ladder
  <2>2. Standing(11) = {}
    BY OneRung
  <2>3. Present = {} /\ phase' = "out"
    BY <1>3, <2>1, <2>2 DEF IInv, Ladder, Finish
  <2> QED
    BY <1>1, <2>3 DEF IInv, TypeOK, Ladder, Settings, Users, tvars, qvars
<1> QED
  BY <1>2, <1>3 DEF Finish

(* Whoever is inside is inside while the records are there. *)
LEMMA InsideNeedsRecords ==
    ASSUME IInv, NEW s \in Sources, call[s] # "idle"
    PROVE  "records" \in held
<1>1. s \in Present /\ s # "records"
  BY DEF Present, Sources
<1>2. CASE phase = "load"
  <2>1. Present \subseteq Built(Rung) /\ (Rung > 1 => "records" \in held) /\ Len(todo) \in 0..10
    BY <1>2 DEF IInv, Ladder, OnLadder
  <2>2. Rung # 1
    BY <1>1, <2>1, OneRung
  <2>3. Rung > 1
    BY <2>1, <2>2, RungIs
  <2> QED
    BY <2>1, <2>3
<1>3. CASE phase \in {"unwind", "exit"}
  <2>1. /\ Present \subseteq Standing(Rung) /\ Len(todo) \in 0..10
        /\ Rung < 10 => "records" \in held
    BY <1>3 DEF IInv, Ladder, OnLadder
  <2>2. Rung # 10 /\ Rung # 11
    BY <1>1, <2>1, OneRung
  <2>3. Rung < 10
    BY <2>1, <2>2, RungIs
  <2> QED
    BY <2>1, <2>3
<1> QED
  BY <1>1, <1>2, <1>3 DEF IInv, Ladder, TypeOK

(* What callers, timers and works do does not move the loader. *)
LEMMA OthersKeep ==
    ASSUME IInv, UNCHANGED <<box, phase, todo, held>>, UNCHANGED tvars,
           Present' \subseteq Present, TypeOK', Users'
    PROVE  IInv'
<1>1. Rung' = Rung /\ (OnLadder(InitOrder) => OnLadder(InitOrder)')
      /\ (OnLadder(ExitOrder) => OnLadder(ExitOrder)')
  BY DEF Rung, OnLadder
<1>2. Ladder'
  BY <1>1 DEF IInv, Ladder, Raising, tvars
<1> QED
  BY <1>2 DEF IInv, Settings, tvars

LEMMA CallersKeep ==
    ASSUME IInv, NEW s \in Sources, Enter(s) \/ Leave(s)
    PROVE  IInv'
<1>1. CASE Enter(s)
  <2>1. UNCHANGED <<box, phase, todo, held>> /\ UNCHANGED qvars /\ UNCHANGED tvars
    BY <1>1 DEF Enter, lvars
  <2>2. PICK e \in Errands(s) : call' = [call EXCEPT ![s] = e]
    BY <1>1 DEF Enter
  <2>3. e \in {"cpu", "page", "record"}
    BY <2>2 DEF Errands, Sources
  <2>4. Present' \subseteq Present
    BY <1>1, <2>1, <2>2 DEF Present, Enter, IInv, TypeOK
  <2>5. TypeOK'
    BY <2>1, <2>2, <2>3 DEF IInv, TypeOK, qvars, tvars
  <2> QED
    BY <2>1, <2>4, <2>5, OthersKeep DEF IInv, Users, qvars
<1>2. CASE Leave(s)
  <2>1. /\ UNCHANGED <<box, phase, todo, held>> /\ UNCHANGED tvars
        /\ call[s] # "idle" /\ call' = [call EXCEPT ![s] = "idle"]
    BY <1>2 DEF Leave, lvars
  <2>2. Present' \subseteq Present
    BY <2>1 DEF Present, IInv, TypeOK
  <2>3. Users'
    BY <2>1, InsideNeedsRecords DEF Users
  <2>4. timer' \in BOOLEAN /\ work' \in BOOLEAN /\ softWork' \in BOOLEAN /\ oops' \in BOOLEAN
    BY <1>2 DEF Leave, QueueOffline, QueueSoft, qvars, IInv, TypeOK
  <2>5. TypeOK'
    BY <2>1, <2>4 DEF IInv, TypeOK, tvars
  <2> QED
    BY <2>1, <2>2, <2>3, <2>5, OthersKeep
<1> QED
  BY <1>1, <1>2

LEMMA WorksKeep == IInv /\ (DeferTimer \/ WorkDone \/ SoftWorkDone) => IInv'
<1> SUFFICES ASSUME IInv, DeferTimer \/ WorkDone \/ SoftWorkDone PROVE IInv'
  OBVIOUS
<1>1. UNCHANGED <<box, phase, todo, held, call>> /\ UNCHANGED tvars
  BY DEF DeferTimer, WorkDone, SoftWorkDone, lvars
<1>2. Present' = Present
  BY <1>1 DEF Present
<1>3. timer' \in BOOLEAN /\ work' \in BOOLEAN /\ softWork' \in BOOLEAN /\ oops' \in BOOLEAN
  BY DEF DeferTimer, WorkDone, SoftWorkDone, IInv, TypeOK
<1>4. TypeOK'
  BY <1>1, <1>3 DEF IInv, TypeOK, tvars
<1>5. Users'
  BY <1>1 DEF IInv, Users, DeferTimer, WorkDone, SoftWorkDone
<1> QED
  BY <1>1, <1>2, <1>4, <1>5, OthersKeep

LEMMA NextIInv == IInv /\ [Next]_vars => IInv'
<1> SUFFICES ASSUME IInv, [Next]_vars PROVE IInv'
  OBVIOUS
<1>1. CASE UNCHANGED vars
  <2>1. UNCHANGED <<box, phase, todo, held, call>> /\ UNCHANGED tvars /\ UNCHANGED qvars
    BY <1>1 DEF vars, lvars
  <2>2. Present' = Present
    BY <2>1 DEF Present
  <2> QED
    BY <2>1, <2>2, OthersKeep DEF IInv, TypeOK, Users, tvars, qvars
<1>2. CASE Next
  BY <1>2, LoadKeeps, UnloadKeeps, AcquireKeeps, FailKeeps, UnregisterKeeps, ReleasedKeeps,
     FinishKeeps, CallersKeep, WorksKeep DEF Next, Loader
<1> QED
  BY <1>1, <1>2

LEMMA AlwaysIInv == Spec => []IInv
BY InitIInv, NextIInv, PTL DEF Spec

-----------------------------------------------------------------------------
(* Where the workqueues stand while anybody may queue on them.             *)

QueueStands ==
    /\ phase = "load" /\ Rung > 5 => "queue" \in held
    /\ phase = "loaded" => "queue" \in held
    /\ phase \in {"unwind", "exit"} /\ Rung < 6 => "queue" \in held

PageQueueStands ==
    box.mem => /\ phase = "load" /\ Rung > 9 => "pageQueue" \in held
               /\ phase = "loaded" => "pageQueue" \in held
               /\ phase = "exit" /\ Rung < 2 => "pageQueue" \in held

(* Once the memory domain's probes listen, a load cannot fail. *)
FailsEarly == phase = "unwind" => Rung > 2

(* A page offline asked for through the injection file keeps the module    *)
(* from unloading, and only a load that cannot fail any more has its queue. *)
InjectStays ==
    /\ phase = "exit" => call["inject"] = "idle"
    /\ call["inject"] = "page" => phase \in {"load", "loaded"} /\ "pageQueue" \in held

(* Decoders never ask for pages, and memory probes for nothing else. *)
Errand == /\ call["arch"] # "page"
          /\ call["callback"] \notin {"cpu", "page"}
          /\ call["memSources"] # "cpu"
          /\ "memSources" \in Present => box.mem

Served == QueueStands /\ PageQueueStands /\ FailsEarly /\ InjectStays /\ Errand

(* More places on the ladder. *)
LEMMA MorePlaces ==
    ASSUME NEW k \in 1..11
    PROVE  /\ "inject" \in Built(k) => k > 6
           /\ "inject" \in Standing(k) => k <= 5
           /\ "pageQueue" \in Built(k) => k > 9
           /\ "memSources" \in Built(k) => k > 10
           /\ "memSources" \in Standing(k) => k <= 1
           /\ "pageQueue" \in Standing(k) => k <= 2
<1>1. ASSUME NEW x, NEW i \in 1..10, InitOrder[i] = x,
             \A j \in 1..10 : InitOrder[j] = x => j = i, x \in Built(k)
      PROVE  k > i
  <2>1. PICK j \in 1..(k - 1) : InitOrder[j] = x
    BY <1>1 DEF Built
  <2>2. j \in 1..10 /\ j < k
    BY <2>1
  <2> QED
    BY <1>1, <2>1, <2>2
<1>2. ASSUME NEW x, NEW i \in 1..10, ExitOrder[i] = x,
             \A j \in 1..10 : ExitOrder[j] = x => j = i, x \in Standing(k)
      PROVE  k <= i
  <2>1. PICK j \in k..10 : ExitOrder[j] = x
    BY <1>2 DEF Standing
  <2>2. j \in 1..10 /\ j >= k
    BY <2>1
  <2> QED
    BY <1>2, <2>1, <2>2
<1>3. \A j \in 1..10 : /\ InitOrder[j] = "inject" => j = 6
                       /\ InitOrder[j] = "pageQueue" => j = 9
                       /\ InitOrder[j] = "memSources" => j = 10
  BY RungsUp
<1>4. \A j \in 1..10 : /\ ExitOrder[j] = "inject" => j = 5
                       /\ ExitOrder[j] = "memSources" => j = 1
                       /\ ExitOrder[j] = "pageQueue" => j = 2
  BY RungsDown
<1>5. ("inject" \in Built(k) => k > 6) /\ ("pageQueue" \in Built(k) => k > 9)
      /\ ("memSources" \in Built(k) => k > 10)
  BY <1>1, <1>3, RungsUp
<1>6. ("inject" \in Standing(k) => k <= 5) /\ ("memSources" \in Standing(k) => k <= 1)
      /\ ("pageQueue" \in Standing(k) => k <= 2)
  BY <1>2, <1>4, RungsDown
<1> QED
  BY <1>5, <1>6

(* Whoever is inside a decoder, a probe or the injection file finds the    *)
(* queue it needs.                                                         *)
LEMMA InsideFindsQueue ==
    ASSUME IInv, Served, NEW s \in Sources \ {"family"}, call[s] # "idle"
    PROVE  /\ call[s] = "cpu" => "queue" \in held
           /\ call[s] = "page" => "pageQueue" \in held
<1>1. s \in Present /\ s \in {"callback", "inject", "arch", "memSources"}
  BY DEF Present, Sources
<1>2. /\ phase = "load" => Present \subseteq Built(Rung) /\ Rung \in 1..11
      /\ phase \in {"unwind", "exit"} => Present \subseteq Standing(Rung) /\ Rung \in 1..11
      /\ phase = "out" => Present = {}
      /\ phase \in {"out", "load", "loaded", "unwind", "exit"}
  BY RungIs DEF IInv, Ladder, OnLadder, TypeOK
<1>3. s \in {"inject", "arch"} => "queue" \in held
  <2>1. CASE phase = "load"
    <3>1. s \in {"inject", "arch"} => Rung > 6
      BY <1>1, <1>2, <2>1, Places, MorePlaces
    <3> QED
      BY <1>2, <2>1, <3>1 DEF Served, QueueStands
  <2>2. CASE phase \in {"unwind", "exit"}
    <3>1. s \in {"inject", "arch"} => Rung <= 5
      BY <1>1, <1>2, <2>2, Places, MorePlaces
    <3> QED
      BY <1>2, <2>2, <3>1 DEF Served, QueueStands
  <2> QED
    BY <1>1, <1>2, <2>1, <2>2 DEF Served, QueueStands
<1>4. s = "memSources" => "pageQueue" \in held
  <2> SUFFICES ASSUME s = "memSources" PROVE "pageQueue" \in held
    OBVIOUS
  <2>1. box.mem
    BY <1>1 DEF Served, Errand
  <2>2. CASE phase = "load"
    <3>1. Rung > 10
      BY <1>1, <1>2, <2>2, MorePlaces
    <3> QED
      BY <1>2, <2>1, <2>2, <3>1 DEF Served, PageQueueStands
  <2>3. phase # "unwind"
    <3>1. phase = "unwind" => Rung <= 1 /\ Rung \in 1..11
      BY <1>1, <1>2, MorePlaces
    <3> QED
      BY <3>1 DEF Served, FailsEarly
  <2>4. CASE phase = "exit"
    <3>1. Rung <= 1
      BY <1>1, <1>2, <2>4, MorePlaces
    <3> QED
      BY <1>2, <2>1, <2>4, <3>1 DEF Served, PageQueueStands
  <2> QED
    BY <1>1, <1>2, <2>1, <2>2, <2>3, <2>4 DEF Served, PageQueueStands
<1> QED
  BY <1>1, <1>3, <1>4 DEF Served, InjectStays, Errand

LEMMA InitServed == Init => Served
BY DEF Init, Served, QueueStands, PageQueueStands, FailsEarly, InjectStays, Errand, Present,
       Sources

LEMMA LoadServes ==
    ASSUME IInv, Served, Load
    PROVE  Served'
<1>1. phase' = "load" /\ Rung' = 1 /\ Present' = Present /\ Present = {} /\ UNCHANGED call
  BY WholeLadder, RungsUp DEF Load, IInv, Ladder, Present
<1>2. \A s \in Sources : call[s] = "idle"
  BY <1>1 DEF Present
<1> QED
  BY <1>1, <1>2 DEF Served, QueueStands, PageQueueStands, FailsEarly, InjectStays, Errand,
                    Sources

LEMMA AcquireServes ==
    ASSUME IInv, Served, Acquire
    PROVE  Served'
<1> DEFINE k == Rung
           x == InitOrder[k]
<1>1. phase = "load" /\ phase' = "load" /\ box' = box /\ call' = call
  BY DEF Acquire
<1>2. /\ k \in 1..10 /\ Head(todo) = x /\ Rung' = k + 1
  BY <1>1, Stepped, RungsUp DEF Acquire, IInv, Ladder
<1> HIDE DEF k
<1>3. /\ held \subseteq held'
      /\ x = "queue" \/ (x = "pageQueue" /\ box.mem) => x \in held'
      /\ "memSources" \in held' => "memSources" \in held \/ box.mem
  BY <1>2 DEF Acquire, Wants, Optional
<1>4. QueueStands'
  <2>1. k = 5 => x = "queue"
    BY RungsUp
  <2>2. k + 1 > 5 => k > 5 \/ k = 5
    BY <1>2
  <2> QED
    BY <1>1, <1>2, <1>3, <2>1, <2>2 DEF Served, QueueStands, k
<1>5. PageQueueStands'
  <2>1. k = 9 => x = "pageQueue"
    BY RungsUp
  <2>2. k + 1 > 9 => k > 9 \/ k = 9
    BY <1>2
  <2> QED
    BY <1>1, <1>2, <1>3, <2>1, <2>2 DEF Served, PageQueueStands, k
<1>6. FailsEarly' /\ InjectStays' /\ Errand'
  BY <1>1, <1>3 DEF Served, FailsEarly, InjectStays, Errand, Present
<1> QED
  BY <1>4, <1>5, <1>6 DEF Served

LEMMA FailServes ==
    ASSUME IInv, Served, Fail
    PROVE  Served'
<1> DEFINE k == Rung
<1>1. phase = "load" /\ phase' = "unwind" /\ UNCHANGED <<box, held, call>>
  BY DEF Fail
<1>2. k \in {1, 2, 3, 4, 5, 8, 9} /\ Rung' = IF k = 1 THEN 11 ELSE 12 - k
  BY FailLands
<1>3. Present \subseteq Built(k)
  BY <1>1 DEF IInv, Ladder
<1> HIDE DEF k
<1>4. QueueStands'
  <2>1. Rung' < 6 => k > 5
    BY <1>2
  <2> QED
    BY <1>1, <2>1 DEF Served, QueueStands, k
<1>5. FailsEarly'
  BY <1>2 DEF FailsEarly
<1>6. InjectStays'
  <2>1. "pageQueue" \notin held
    <3>1. k \in 1..11 /\ ~(k > 9)
      BY <1>2
    <3> QED
      BY <1>3, <3>1, MorePlaces DEF Present
  <2> QED
    BY <1>1, <2>1 DEF Served, InjectStays
<1> QED
  BY <1>1, <1>4, <1>5, <1>6 DEF Served, PageQueueStands, Errand, Present

LEMMA UnloadServes ==
    ASSUME IInv, Served, Unload
    PROVE  Served'
<1>1. /\ phase = "loaded" /\ phase' = "exit" /\ call["inject"] = "idle"
      /\ UNCHANGED <<box, held, call>>
  BY DEF Unload
<1> QED
  BY <1>1 DEF Served, QueueStands, PageQueueStands, FailsEarly, InjectStays, Errand, Present

LEMMA UnregisterServes ==
    ASSUME IInv, Served, Unregister
    PROVE  Served'
<1> DEFINE k == Rung
           x == ExitOrder[k]
<1>1. /\ phase \in {"unwind", "exit"} /\ phase' = phase /\ todo' = todo /\ todo # << >>
      /\ UNCHANGED <<box, call>>
  BY DEF Unregister, GoingDown
<1>2. k \in 1..10 /\ Head(todo) = x
  BY <1>1, Climbing, RungsDown DEF IInv, Ladder
<1>3. Rung' = k
  BY <1>1 DEF Rung
<1> HIDE DEF k
<1>4. held' = held \ {x}
  BY <1>2 DEF Unregister
<1>5. (k < 6 => x # "queue") /\ (k < 2 => x # "pageQueue")
  BY <1>2, RungsDown
<1>6. QueueStands' /\ PageQueueStands' /\ FailsEarly'
  BY <1>1, <1>3, <1>4, <1>5 DEF Served, QueueStands, PageQueueStands, FailsEarly, k
<1>7. InjectStays' /\ Errand'
  BY <1>1, <1>4 DEF Served, InjectStays, Errand, Present
<1> QED
  BY <1>6, <1>7 DEF Served

LEMMA ReleasedServes ==
    ASSUME IInv, Served, Released
    PROVE  Served'
<1> DEFINE k == Rung
<1>1. /\ phase \in {"unwind", "exit"} /\ phase' = phase /\ todo # << >>
      /\ UNCHANGED <<box, held, call>> /\ Present' = Present
  BY DEF Released, GoingDown, Present
<1>2. k \in 1..10 /\ Rung' = k + 1
  BY <1>1, Stepped, RungsDown DEF Released, IInv, Ladder
<1> HIDE DEF k
<1>3. (k + 1 < 6 => k < 6) /\ (k + 1 < 2 => k < 2) /\ (k > 2 => k + 1 > 2)
  BY <1>2
<1> QED
  BY <1>1, <1>2, <1>3
     DEF Served, QueueStands, PageQueueStands, FailsEarly, InjectStays, Errand, k

LEMMA FinishServes ==
    ASSUME IInv, Served, Finish
    PROVE  Served'
<1>1. /\ phase \in {"load", "unwind", "exit"} /\ todo = << >>
      /\ phase' = IF phase = "load" THEN "loaded" ELSE "out"
      /\ UNCHANGED <<box, held, call>> /\ Present' = Present
  BY DEF Finish, Present
<1>2. phase = "load" => Rung = 11
  BY <1>1, Through, RungsUp DEF IInv, Ladder
<1> QED
  BY <1>1, <1>2
     DEF Served, QueueStands, PageQueueStands, FailsEarly, InjectStays, Errand

LEMMA EnterServes ==
    ASSUME IInv, Served, NEW s \in Sources, Enter(s)
    PROVE  Served'
<1>1. /\ s \in held /\ call[s] = "idle" /\ (s = "inject" => phase # "exit")
      /\ UNCHANGED <<box, phase, todo, held>> /\ Rung' = Rung
  BY DEF Enter, lvars, Rung
<1>2. PICK e \in Errands(s) : call' = [call EXCEPT ![s] = e]
  BY DEF Enter
<1>3. /\ call'[s] = e
      /\ \A u \in Sources \ {s} : call'[u] = call[u]
  BY <1>2 DEF IInv, TypeOK
<1>4. QueueStands' /\ PageQueueStands' /\ FailsEarly'
  BY <1>1 DEF Served, QueueStands, PageQueueStands, FailsEarly
<1>5. Errand'
  <2>1. s = "arch" => e # "page"
    BY DEF Errands
  <2>2. s = "callback" => e \notin {"cpu", "page"}
    BY DEF Errands
  <2>3. s = "memSources" => e # "cpu"
    BY DEF Errands
  <2>4. "memSources" \in Present' => "memSources" \in Present
    BY <1>1, <1>3 DEF Present
  <2> QED
    BY <1>1, <1>3, <2>1, <2>2, <2>3, <2>4 DEF Served, Errand, Sources
<1>6. InjectStays'
  <2>1. CASE s # "inject"
    BY <1>1, <1>3, <2>1 DEF Served, InjectStays, Sources
  <2>2. CASE s = "inject" /\ e = "page"
    <3>1. SeesPageQueue
      BY <2>2 DEF Errands
    <3>2. phase \in {"load", "loaded", "unwind"}
      BY <1>1, <2>2 DEF IInv, TypeOK, Ladder, Present
    <3>3. phase # "unwind"
      <4> SUFFICES ASSUME phase = "unwind" PROVE FALSE
        OBVIOUS
      <4>1. /\ OnLadder(ExitOrder) /\ Present \subseteq Standing(Rung)
            /\ Rung \in 1..11 /\ Rung > 2
        BY RungIs DEF IInv, Ladder, OnLadder, Served, FailsEarly
      <4>2. "pageQueue" \notin held
        BY <4>1, MorePlaces DEF Present
      <4>3. todo # << >> /\ Head(todo) = "pageQueue"
        BY <3>1, <4>2 DEF SeesPageQueue, GoingDown
      <4>4. Rung \in 1..10 /\ Head(todo) = ExitOrder[Rung]
        BY <4>1, <4>3, Climbing, RungsDown
      <4> QED
        BY <4>1, <4>3, <4>4, RungsDown
    <3>4. "pageQueue" \in held
      BY <3>1, <3>2, <3>3 DEF SeesPageQueue, GoingDown
    <3> QED
      BY <1>1, <3>2, <3>3, <3>4 DEF InjectStays
  <2>3. CASE s = "inject" /\ e # "page"
    BY <1>1, <1>3, <2>3 DEF InjectStays
  <2> QED
    BY <2>1, <2>2, <2>3
<1> QED
  BY <1>4, <1>5, <1>6 DEF Served

LEMMA LeaveServes ==
    ASSUME IInv, Served, NEW s \in Sources, Leave(s)
    PROVE  Served' /\ (s # "family" => oops' = oops)
<1>1. /\ UNCHANGED <<box, phase, todo, held>> /\ call[s] # "idle" /\ Rung' = Rung
      /\ call' = [call EXCEPT ![s] = "idle"]
  BY DEF Leave, lvars, Rung
<1>2. /\ call'[s] = "idle"
      /\ \A u \in Sources \ {s} : call'[u] = call[u]
  BY <1>1 DEF IInv, TypeOK
<1>3. Present' \subseteq Present
  BY <1>1, <1>2 DEF Present
<1>4. Served'
  BY <1>1, <1>2, <1>3
     DEF Served, QueueStands, PageQueueStands, FailsEarly, InjectStays, Errand, Sources
<1>5. ASSUME s # "family" PROVE oops' = oops
  <2>1. (call[s] = "cpu" => "queue" \in held) /\ (call[s] = "page" => "pageQueue" \in held)
    BY <1>1, <1>5, InsideFindsQueue
  <2> QED
    BY <2>1 DEF Leave, QueueOffline, QueueSoft, qvars
<1> QED
  BY <1>4, <1>5

(* The step: the workqueues stand, and nobody but a netlink command leaves *)
(* in vain.                                                                *)
NoneLeavesInVain ==
    \A s \in Sources \ {"family"} :
        call[s] # "idle" /\ call'[s] = "idle" => oops' = oops

LEMMA NextServes == IInv /\ Served /\ [Next]_vars => Served' /\ NoneLeavesInVain
<1> SUFFICES ASSUME IInv, Served, [Next]_vars PROVE Served' /\ NoneLeavesInVain
  OBVIOUS
<1>1. ASSUME UNCHANGED call PROVE NoneLeavesInVain
  BY <1>1 DEF NoneLeavesInVain
<1>2. CASE Load \/ Unload \/ Loader
  <2>1. UNCHANGED call
    BY <1>2 DEF Load, Unload, Loader, Acquire, Fail, Unregister, Released, Finish
  <2> QED
    BY <1>1, <1>2, <2>1, LoadServes, UnloadServes, AcquireServes, FailServes,
       UnregisterServes, ReleasedServes, FinishServes DEF Loader
<1>3. ASSUME NEW s \in Sources, Enter(s) PROVE Served' /\ NoneLeavesInVain
  BY <1>3, EnterServes DEF Enter, NoneLeavesInVain, qvars
<1>4. ASSUME NEW s \in Sources, Leave(s) PROVE Served' /\ NoneLeavesInVain
  <2>1. \A u \in Sources \ {s} : call'[u] = call[u]
    BY <1>4 DEF Leave, IInv, TypeOK
  <2> QED
    BY <1>4, <2>1, LeaveServes DEF NoneLeavesInVain
<1>5. CASE DeferTimer \/ WorkDone \/ SoftWorkDone \/ UNCHANGED vars
  <2>1. UNCHANGED <<box, phase, todo, held, call>> /\ Rung' = Rung /\ Present' = Present
    BY <1>5 DEF DeferTimer, WorkDone, SoftWorkDone, vars, lvars, Rung, Present
  <2> QED
    BY <1>1, <2>1
       DEF Served, QueueStands, PageQueueStands, FailsEarly, InjectStays, Errand
<1> QED
  BY <1>2, <1>3, <1>4, <1>5 DEF Next

-----------------------------------------------------------------------------
(* Every variable keeps its shape, whatever rung of a load fails. *)
THEOREM LifecycleTypeCorrect == Spec => []TypeOK
<1>1. IInv => TypeOK
  BY DEF IInv
<1> QED
  BY <1>1, AlwaysIInv, PTL

(* A load that failed, at any rung, and an unload leave nothing behind:    *)
(* what stands is always what the rest of the exit takes down.             *)
THEOREM NothingLeftBehind == Spec => []AbsentIsClean
<1>1. IInv => AbsentIsClean
  BY DEF IInv, Ladder, AbsentIsClean, Present
<1> QED
  BY <1>1, AlwaysIInv, PTL

(* The per-CPU records are there while a handler, a timer or a work uses   *)
(* them.                                                                   *)
THEOREM RecordsAreThere == Spec => []RecordsOutlive
<1>1. IInv => RecordsOutlive
  BY InsideNeedsRecords DEF IInv, Users, RecordsOutlive
<1> QED
  BY <1>1, AlwaysIInv, PTL

(* Whenever errors are listened to, tolerant is as high as was wanted.     *)
THEOREM NoErrorUnsuppressed == Spec => []SuppressedWhileListening
<1>1. ASSUME IInv PROVE SuppressedWhileListening
  <2>1. SUFFICES ASSUME "arch" \in Present PROVE Raising
    BY DEF SuppressedWhileListening, Raising, Present, Sources
  <2>2. CASE phase = "load"
    <3>1. Present \subseteq Built(Rung) /\ (Rung > 7 => Raising) /\ Len(todo) \in 0..10
      BY <1>1, <2>2 DEF IInv, Ladder, OnLadder
    <3>2. Rung \in 1..11
      BY <3>1, RungIs
    <3>3. Rung > 8
      BY <2>1, <3>1, <3>2, Places
    <3> QED
      BY <3>1, <3>2, <3>3
  <2> QED
    BY <1>1, <2>1, <2>2 DEF IInv, Ladder, TypeOK
<1>2. IInv => SuppressedWhileListening
  BY <1>1
<1> QED
  BY <1>2, AlwaysIInv, PTL

(* Unless writing it failed, tolerant is left as it was found.             *)
THEOREM TolerantIsPutBack == Spec => []TolerantRestored
<1>1. IInv => TolerantRestored
  BY DEF IInv, Ladder, Settings, TolerantRestored, Present
<1> QED
  BY <1>1, AlwaysIInv, PTL

(* Only timers and netlink commands can miss their workqueue: decoders,    *)
(* probes and the injection file find it on every path of every load and   *)
(* unload, on any machine.                                                 *)
THEOREM HandlersFindQueue == Spec => HandlersFindTheirQueue
<1>1. IInv /\ Served /\ [Next]_vars => Served' /\ [NoneLeavesInVain]_vars
  BY NextServes
<1> QED
  BY <1>1, InitServed, AlwaysIInv, PTL DEF Spec, HandlersFindTheirQueue, NoneLeavesInVain
=============================================================================
