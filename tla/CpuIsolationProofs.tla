------------------------ MODULE CpuIsolationProofs ------------------------
(***************************************************************************)
(* Theorems about CpuIsolation for every set of CPUs, every set of         *)
(* protected CPUs, every isolation mode and every policy.                  *)
(***************************************************************************)
EXTENDS CpuIsolation, SequenceTheorems, FiniteSetTheorems, TLAPS

(* Queueing an offline work keeps wq a sequence of CPUs, keeps what was    *)
(* pending, and leaves c pending.                                          *)
LEMMA QueueFacts ==
    ASSUME NEW c \in CPU, wq \in Seq(CPU), QueueOffline(c)
    PROVE  /\ wq' \in Seq(CPU)
           /\ Range(wq) \subseteq Range(wq')
           /\ c \in Range(wq')
           /\ \A d \in CPU : d # c /\ d \in Range(wq') => d \in Range(wq)
<1>1. CASE c \in Range(wq)
  BY <1>1 DEF QueueOffline
<1>2. CASE c \notin Range(wq)
  <2>1. wq' = Append(wq, c)
    BY <1>2 DEF QueueOffline
  <2>2. /\ wq' \in Seq(CPU)
        /\ Len(wq') = Len(wq) + 1
        /\ \A i \in 1..Len(wq) : wq'[i] = wq[i]
        /\ wq'[Len(wq) + 1] = c
    BY <2>1
  <2>3. Range(wq) \subseteq Range(wq')
    BY <2>2 DEF Range
  <2>4. c \in Range(wq')
    BY <2>2 DEF Range
  <2>5. ASSUME NEW d \in CPU, d # c, d \in Range(wq')
        PROVE  d \in Range(wq)
    <3>1. PICK i \in 1..Len(wq') : d = wq'[i]
      BY <2>2, <2>5 DEF Range
    <3>2. i \in 1..Len(wq)
      BY <3>1, <2>2, <2>5
    <3> QED
      BY <3>1, <3>2, <2>2 DEF Range
  <2> QED
    BY <2>2, <2>3, <2>4, <2>5
<1> QED
  BY <1>1, <1>2

(* Dequeuing takes out the head and nothing that is not the head. *)
LEMMA DequeueFacts ==
    ASSUME wq \in Seq(CPU), wq # << >>, wq' = Tail(wq)
    PROVE  /\ Head(wq) \in CPU /\ Head(wq) \in Range(wq)
           /\ wq' \in Seq(CPU)
           /\ \A d \in CPU : d \in Range(wq) => d = Head(wq) \/ d \in Range(wq')
           /\ \A d \in CPU : d \in Range(wq') => d \in Range(wq)
<1>1. /\ wq' \in Seq(CPU)
      /\ Len(wq') = Len(wq) - 1
      /\ \A i \in 1..Len(wq') : wq'[i] = wq[i + 1]
      /\ Head(wq) = wq[1] /\ Head(wq) \in CPU
      /\ Len(wq) \in Nat \ {0}
      /\ DOMAIN wq = 1..Len(wq) /\ DOMAIN wq' = 1..Len(wq')
  OBVIOUS
<1>2. ASSUME NEW d \in CPU, d \in Range(wq), d # Head(wq)
      PROVE  d \in Range(wq')
  <2>1. PICK i \in 1..Len(wq) : d = wq[i]
    BY <1>1, <1>2 DEF Range
  <2>2. i - 1 \in 1..Len(wq') /\ wq'[i - 1] = d
    BY <2>1, <1>1, <1>2
  <2> QED
    BY <2>2, <1>1 DEF Range
<1>3. ASSUME NEW d \in CPU, d \in Range(wq')
      PROVE  d \in Range(wq)
  <2>1. PICK i \in 1..Len(wq') : d = wq'[i]
    BY <1>1, <1>3 DEF Range
  <2>2. i + 1 \in 1..Len(wq) /\ wq[i + 1] = d
    BY <2>1, <1>1
  <2> QED
    BY <2>2, <1>1 DEF Range
<1>4. Head(wq) \in Range(wq)
  BY <1>1 DEF Range
<1> QED
  BY <1>1, <1>2, <1>3, <1>4

(* The accounting stays within the cap and decides among the five states. *)
LEMMA AccountingFacts ==
    ASSUME Shape, NEW c \in CPU, NEW sev, NEW l3, NEW expired
    PROVE  LET e == CeAfter(c, sev, expired)
               u == UceAfter(c, sev, expired)
           IN  /\ e \in 0..CountCap
               /\ u \in 0..CountCap
               /\ Verdict(c, l3, e, u) \in States
<1>1. \A n \in 0..CountCap : Bump(n) \in 0..CountCap
  BY CapAssumption DEF Bump
<1>2. ce[c] \in 0..CountCap /\ uce[c] \in 0..CountCap /\ 0 \in 0..CountCap
  BY CapAssumption DEF Shape
<1>3. CeAfter(c, sev, expired) \in 0..CountCap
  BY <1>1, <1>2 DEF CeAfter
<1>4. UceAfter(c, sev, expired) \in 0..CountCap
  BY <1>1, <1>2 DEF UceAfter
<1>5. \A e, u : Verdict(c, l3, e, u) \in States
  BY DEF Verdict, Shape, States
<1> QED
  BY <1>3, <1>4, <1>5

(* Every load has the right shape. *)
LEMMA InitShape == Init => Shape
BY CapAssumption, ModeAssumption
   DEF Init, Shape, States, WorkPos, RepPos, NlPos, IsolationModes

-----------------------------------------------------------------------------
(* Type correctness is inductive: one step per action.                     *)
LEMMA NextShape == Shape /\ [Next]_vars => Shape'
<1> SUFFICES ASSUME Shape, [Next]_vars
             PROVE  Shape'
  OBVIOUS
<1> USE DEF Shape, SetState
<1>0. CASE UNCHANGED vars
  BY <1>0 DEF vars
<1>1. ASSUME NEW c \in CPU, Errors(c)
      PROVE  Shape'
  <2>1. PICK sev \in Severities, l3 \in BOOLEAN, expired \in BOOLEAN :
            ReportError(c, sev, l3, expired)
    BY <1>1 DEF Errors
  <2>2. /\ CeAfter(c, sev, expired) \in 0..CountCap
        /\ UceAfter(c, sev, expired) \in 0..CountCap
        /\ Verdict(c, l3, CeAfter(c, sev, expired), UceAfter(c, sev, expired)) \in States
    BY AccountingFacts
  <2>3. rep' \in [CPU -> RepPos]
    BY <2>1 DEF ReportError, RepPos
  <2> QED
    BY <2>1, <2>2, <2>3 DEF ReportError
<1>2. ASSUME NEW c \in CPU, NEW urgent \in BOOLEAN, BeginIsolation(c, urgent)
      PROVE  state' \in [CPU -> States] /\ timer' \in [CPU -> BOOLEAN] /\ wq' \in Seq(CPU)
  BY <1>2, QueueFacts DEF BeginIsolation, States
<1>3. ASSUME NEW c \in CPU, ReporterBegin(c)
      PROVE  Shape'
  BY <1>2, <1>3 DEF ReporterBegin, RepPos
<1>4. ASSUME NEW c \in CPU, IsolateBegin(c)
      PROVE  Shape'
  BY <1>2, <1>4 DEF IsolateBegin, NlPos
<1>5. ASSUME NEW c \in CPU, Isolate(c) \/ AckIsolate(c) \/ Unisolate(c)
      PROVE  Shape'
  BY <1>5 DEF Isolate, AckIsolate, Unisolate, NlPos, States
<1>6. ASSUME NEW c \in CPU, AckProceed(c)
      PROVE  Shape'
  BY <1>6, QueueFacts DEF AckProceed, NlPos
<1>7. ASSUME NEW c \in CPU, DeferTimer(c)
      PROVE  Shape'
  BY <1>7, QueueFacts DEF DeferTimer
<1>8. ASSUME NEW c \in CPU, WorkRun(c)
      PROVE  Shape'
  <2>1. wq' \in Seq(CPU)
    BY <1>8, DequeueFacts DEF WorkRun
  <2>2. CASE c \in Protected
    BY <1>8, <2>1, <2>2 DEF WorkRun, WorkRefuse, States
  <2>3. CASE c \notin Protected
    <3>1. /\ work' \in [CPU -> WorkPos]
          /\ online' \subseteq CPU
          /\ active' \subseteq CPU
      BY <1>8, <2>3 DEF WorkRun, WorkPerMode, TakeDown, WorkPos, IsolationModes
    <3> QED
      BY <1>8, <2>1, <2>3, <3>1 DEF WorkRun
  <2> QED
    BY <2>2, <2>3
<1>9. ASSUME NEW c \in CPU, WorkMark(c)
      PROVE  Shape'
  BY <1>9 DEF WorkMark, WorkPos, States
<1>10. ASSUME NEW c \in CPU, BringUp(c)
       PROVE  /\ online' \subseteq CPU /\ active' \subseteq CPU
              /\ state' \in [CPU -> States]
              /\ ce' \in [CPU -> 0..CountCap] /\ uce' \in [CPU -> 0..CountCap]
  <2>1. online' \subseteq CPU /\ active' \subseteq CPU
    BY <1>10 DEF BringUp
  <2>2. CASE state[c] = "isolated"
    <3>1. SetState(c, "online") /\ ResetWindow(c)
      BY <1>10, <2>2 DEF BringUp
    <3>2. state' \in [CPU -> States]
      BY <3>1 DEF States
    <3>3. ce' \in [CPU -> 0..CountCap] /\ uce' \in [CPU -> 0..CountCap]
      BY <3>1, CapAssumption DEF ResetWindow
    <3> QED
      BY <2>1, <3>2, <3>3
  <2>3. CASE state[c] # "isolated"
    BY <1>10, <2>1, <2>3 DEF BringUp
  <2> QED
    BY <2>2, <2>3
<1>11. ASSUME NEW c \in CPU, UnisolateRestore(c)
       PROVE  Shape'
  <2>1. CASE mode = "full"
    BY <1>10, <1>11, <2>1 DEF UnisolateRestore, RestoreFull, NlPos
  <2>2. CASE mode # "full"
    BY <1>11, <2>2 DEF UnisolateRestore, NlPos, IsolationModes
  <2> QED
    BY <2>1, <2>2
<1>12. ASSUME NEW c \in CPU, UnisolateFinish(c)
       PROVE  Shape'
  BY <1>12, CapAssumption DEF UnisolateFinish, ResetWindow, NlPos, States
<1>13. ASSUME NEW c \in CPU, OperatorOffline(c) \/ OperatorOnline(c)
       PROVE  Shape'
  BY <1>10, <1>13 DEF OperatorOffline, OperatorOnline
<1>14. ASSUME NEW c \in CPU, Pin(c)
       PROVE  Shape'
  BY <1>14 DEF Pin
<1>15. ASSUME NEW p \in Policies, SetPolicy(p)
       PROVE  Shape'
  BY <1>15 DEF SetPolicy
<1> QED
  BY <1>0, <1>1, <1>3, <1>4, <1>5, <1>6, <1>7, <1>8, <1>9, <1>11, <1>12, <1>13,
     <1>14, <1>15
     DEF Next, UnattendedNext, Machinery

(* One position in a set of them moves, and the others are idle. *)
LEMMA OneMoves ==
    ASSUME NEW S, NEW f \in [CPU -> S], NEW c \in CPU, NEW v, AtMostOne(f),
           f[c] # "idle" \/ \A d \in CPU : f[d] = "idle"
    PROVE  AtMostOne([f EXCEPT ![c] = v])
BY DEF AtMostOne

LEMMA WorkAlone == Shape /\ AtMostOne(work) /\ [Next]_vars => AtMostOne(work)'
<1> SUFFICES ASSUME Shape, AtMostOne(work), [Next]_vars PROVE AtMostOne(work')
  BY DEF AtMostOne
<1>w. work \in [CPU -> WorkPos]
  BY DEF Shape
<1>1. CASE UNCHANGED work
  BY <1>1
<1>2. ASSUME NEW c \in CPU, WorkRun(c)
      PROVE  AtMostOne(work')
  <2>1. \A d \in CPU : work[d] = "idle"
    BY <1>2 DEF WorkRun, WorkerFree
  <2>2. work' = work \/ \E v : work' = [work EXCEPT ![c] = v]
    <3>1. CASE c \in Protected
      BY <1>2, <3>1 DEF WorkRun, WorkRefuse
    <3>2. CASE c \notin Protected /\ mode = "full"
      BY <1>2, <3>2 DEF WorkRun, WorkPerMode, TakeDown
    <3>3. CASE c \notin Protected /\ mode = "soft"
      BY <1>2, <3>3 DEF WorkRun, WorkPerMode
    <3>4. CASE c \notin Protected /\ mode = "inactive"
      BY <1>2, <3>4 DEF WorkRun, WorkPerMode
    <3> QED
      BY <3>1, <3>2, <3>3, <3>4 DEF Shape, IsolationModes
  <2>3. ASSUME NEW v, work' = [work EXCEPT ![c] = v] PROVE AtMostOne(work')
    BY <1>w, <2>1, <2>3, OneMoves
  <2> QED
    BY <2>2, <2>3
<1>3. ASSUME NEW c \in CPU, WorkMark(c)
      PROVE  AtMostOne(work')
  <2>1. work[c] # "idle" /\ work' = [work EXCEPT ![c] = "idle"]
    BY <1>3 DEF WorkMark
  <2> QED
    BY <1>w, <2>1, OneMoves
<1>4. ASSUME NEW c \in CPU,
             \/ Errors(c) \/ Isolate(c) \/ AckIsolate(c) \/ Pin(c) \/ Unisolate(c)
             \/ ReporterBegin(c) \/ IsolateBegin(c) \/ AckProceed(c) \/ DeferTimer(c)
             \/ UnisolateRestore(c) \/ UnisolateFinish(c)
             \/ OperatorOffline(c) \/ OperatorOnline(c)
      PROVE  UNCHANGED work
  BY <1>4 DEF Errors, ReportError, Isolate, AckIsolate, Pin, Unisolate, ReporterBegin,
              IsolateBegin, AckProceed, DeferTimer, UnisolateRestore, UnisolateFinish,
              OperatorOffline, OperatorOnline
<1>5. ASSUME UNCHANGED vars \/ \E q \in Policies : SetPolicy(q)
      PROVE  UNCHANGED work
  BY <1>5 DEF SetPolicy, vars
<1> QED
  BY <1>1, <1>2, <1>3, <1>4, <1>5 DEF Next, UnattendedNext, Machinery

LEMMA CommandAlone == Shape /\ AtMostOne(nl) /\ [Next]_vars => AtMostOne(nl)'
<1> SUFFICES ASSUME Shape, AtMostOne(nl), [Next]_vars PROVE AtMostOne(nl')
  BY DEF AtMostOne
<1>n. nl \in [CPU -> NlPos]
  BY DEF Shape
<1>1. CASE UNCHANGED nl
  BY <1>1
<1>2. ASSUME NEW c \in CPU, Isolate(c) \/ AckIsolate(c) \/ Unisolate(c)
      PROVE  AtMostOne(nl')
  <2>1. \A d \in CPU : nl[d] = "idle"
    BY <1>2 DEF Isolate, AckIsolate, Unisolate, NetlinkFree
  <2>2. \E v : nl' = [nl EXCEPT ![c] = v]
    BY <1>2 DEF Isolate, AckIsolate, Unisolate
  <2>3. ASSUME NEW v, nl' = [nl EXCEPT ![c] = v] PROVE AtMostOne(nl')
    BY <1>n, <2>1, <2>3, OneMoves
  <2> QED
    BY <2>2, <2>3
<1>3. ASSUME NEW c \in CPU,
             IsolateBegin(c) \/ AckProceed(c) \/ UnisolateFinish(c)
      PROVE  AtMostOne(nl')
  <2>1. nl[c] # "idle" /\ nl' = [nl EXCEPT ![c] = "idle"]
    BY <1>3 DEF IsolateBegin, AckProceed, UnisolateFinish
  <2> QED
    BY <1>n, <2>1, OneMoves
<1>4. ASSUME NEW c \in CPU, UnisolateRestore(c)
      PROVE  AtMostOne(nl')
  <2>1. nl[c] # "idle"
    BY <1>4 DEF UnisolateRestore
  <2>2. \E v : nl' = [nl EXCEPT ![c] = v]
    <3>1. CASE mode = "full"
      BY <1>4, <3>1 DEF UnisolateRestore, RestoreFull
    <3>2. CASE mode = "inactive"
      BY <1>4, <3>2 DEF UnisolateRestore
    <3>3. CASE mode = "soft"
      BY <1>4, <3>3 DEF UnisolateRestore
    <3> QED
      BY <3>1, <3>2, <3>3 DEF Shape, IsolationModes
  <2>3. ASSUME NEW v, nl' = [nl EXCEPT ![c] = v] PROVE AtMostOne(nl')
    BY <1>n, <2>1, <2>3, OneMoves
  <2> QED
    BY <2>2, <2>3
<1>5. ASSUME NEW c \in CPU,
             \/ Errors(c) \/ Pin(c) \/ ReporterBegin(c) \/ DeferTimer(c)
             \/ WorkRun(c) \/ WorkMark(c) \/ OperatorOffline(c) \/ OperatorOnline(c)
      PROVE  UNCHANGED nl
  BY <1>5 DEF Errors, ReportError, Pin, ReporterBegin, DeferTimer, WorkRun, WorkMark,
              OperatorOffline, OperatorOnline
<1>6. ASSUME UNCHANGED vars \/ \E q \in Policies : SetPolicy(q)
      PROVE  UNCHANGED nl
  BY <1>6 DEF SetPolicy, vars
<1> QED
  BY <1>1, <1>2, <1>3, <1>4, <1>5, <1>6 DEF Next, UnattendedNext, Machinery

(* Every variable keeps its shape in every behaviour of the CPU domain,    *)
(* operators and hotplug included, and no two works and no two commands    *)
(* are ever half done: each is begun when no other is.                     *)
THEOREM TypeCorrect == Spec => []TypeOK
<1>1. Init => TypeOK
  BY InitShape DEF Init, TypeOK, AtMostOne
<1>2. TypeOK /\ [Next]_vars => TypeOK'
  BY NextShape, WorkAlone, CommandAlone DEF TypeOK
<1> QED
  BY <1>1, <1>2, PTL DEF Spec

-----------------------------------------------------------------------------
(* What keeps a protected CPU safe is more than ProtectedSafe says: its    *)
(* offline work never gets past the guard, and, never being isolated or    *)
(* failed, it is never the subject of an UNISOLATE under way.              *)
Guarded(p) ==
    /\ state[p] \notin {"isolated", "failed"}
    /\ ~timer[p]
    /\ p \in online => p \in active
    /\ work[p] = "idle"
    /\ nl[p] \notin {"restore", "finish"}

ProtectedInv == \A p \in Protected : Guarded(p)

(* A load finds CPU 0 up and healthy. *)
LEMMA InitProtectedInv == Init => ProtectedInv
BY CpuAssumption DEF Init, ProtectedInv, Guarded

(* No step of any thread disturbs a guarded CPU. *)
LEMMA NextProtectedInv == Shape /\ ProtectedInv /\ [Next]_vars => ProtectedInv'
<1> SUFFICES ASSUME Shape, ProtectedInv, [Next]_vars, NEW p \in Protected
             PROVE  Guarded(p)'
  BY DEF ProtectedInv
<1>p. p \in CPU /\ Guarded(p)
  BY CpuAssumption DEF ProtectedInv
<1> USE <1>p DEF Guarded, SetState, Shape
<1>0. CASE UNCHANGED vars
  BY <1>0 DEF vars
<1>1. ASSUME NEW c \in CPU, Errors(c)
      PROVE  Guarded(p)'
  <2>1. PICK sev \in Severities, l3 \in BOOLEAN, expired \in BOOLEAN :
            ReportError(c, sev, l3, expired)
    BY <1>1 DEF Errors
  <2>2. \A e, u : Verdict(p, l3, e, u) \notin {"isolated", "failed"}
    BY DEF Verdict
  <2> QED
    BY <2>1, <2>2 DEF ReportError
<1>2. ASSUME NEW c \in CPU, NEW urgent \in BOOLEAN, BeginIsolation(c, urgent)
      PROVE  state'[p] \notin {"isolated", "failed"} /\ ~timer'[p]
  <2>1. CASE c = p
    BY <1>2, <2>1 DEF BeginIsolation
  <2>2. CASE c # p
    BY <1>2, <2>2 DEF BeginIsolation
  <2> QED
    BY <2>1, <2>2
<1>3. ASSUME NEW c \in CPU, ReporterBegin(c) \/ IsolateBegin(c)
      PROVE  Guarded(p)'
  BY <1>2, <1>3 DEF ReporterBegin, IsolateBegin
<1>4. ASSUME NEW c \in CPU, Isolate(c) \/ AckIsolate(c) \/ AckProceed(c) \/ DeferTimer(c)
      PROVE  Guarded(p)'
  BY <1>4 DEF Isolate, AckIsolate, AckProceed, DeferTimer
<1>5. ASSUME NEW c \in CPU, WorkRun(c)
      PROVE  Guarded(p)'
  <2>1. CASE c \in Protected
    BY <1>5, <2>1 DEF WorkRun, WorkRefuse
  <2>2. CASE c \notin Protected
    <3>1. /\ c # p
          /\ work'[p] = work[p]
          /\ p \in online' => p \in active'
      BY <1>5, <2>2 DEF WorkRun, WorkPerMode, TakeDown, IsolationModes
    <3> QED
      BY <1>5, <2>2, <3>1 DEF WorkRun
  <2> QED
    BY <2>1, <2>2
<1>6. ASSUME NEW c \in CPU, WorkMark(c)
      PROVE  Guarded(p)'
  BY <1>6 DEF WorkMark
<1>7. ASSUME NEW c \in CPU, BringUp(c)
      PROVE  state'[p] \notin {"isolated", "failed"} /\ (p \in online' => p \in active')
  <2>1. p \in online' => p \in active'
    BY <1>7 DEF BringUp
  <2>2. state' = state \/ state' = [state EXCEPT ![c] = "online"]
    BY <1>7 DEF BringUp
  <2> QED
    BY <2>1, <2>2
<1>8. ASSUME NEW c \in CPU, Unisolate(c)
      PROVE  Guarded(p)'
  BY <1>8 DEF Unisolate
<1>9. ASSUME NEW c \in CPU, UnisolateRestore(c)
      PROVE  Guarded(p)'
  <2>1. c # p
    BY <1>9 DEF UnisolateRestore
  <2>2. CASE mode = "full"
    BY <1>7, <1>9, <2>1, <2>2 DEF UnisolateRestore, RestoreFull
  <2>3. CASE mode # "full"
    BY <1>9, <2>1, <2>3 DEF UnisolateRestore, IsolationModes
  <2> QED
    BY <2>2, <2>3
<1>10. ASSUME NEW c \in CPU, UnisolateFinish(c)
       PROVE  Guarded(p)'
  BY <1>10 DEF UnisolateFinish
<1>11. ASSUME NEW c \in CPU, OperatorOffline(c) \/ OperatorOnline(c) \/ Pin(c)
       PROVE  Guarded(p)'
  BY <1>7, <1>11 DEF OperatorOffline, OperatorOnline, Pin
<1>12. ASSUME NEW q \in Policies, SetPolicy(q)
       PROVE  Guarded(p)'
  BY <1>12 DEF SetPolicy
<1> QED
  BY <1>0, <1>1, <1>3, <1>4, <1>5, <1>6, <1>8, <1>9, <1>10, <1>11, <1>12
     DEF Next, UnattendedNext, Machinery

(* With protect_cpu0, no interleaving of errors, commands, ACKs, timeouts  *)
(* and hotplug isolates CPU 0, arms its timer or takes it from the         *)
(* scheduler while it is online.                                           *)
THEOREM ProtectedIsSafe == Spec => []ProtectedSafe
<1>1. Init => Shape /\ ProtectedInv
  BY InitShape, InitProtectedInv
<1>2. Shape /\ ProtectedInv /\ [Next]_vars => (Shape /\ ProtectedInv)'
  BY NextShape, NextProtectedInv
<1>3. ProtectedInv => ProtectedSafe
  BY DEF ProtectedInv, Guarded, ProtectedSafe
<1> QED
  BY <1>1, <1>2, <1>3, PTL DEF Spec

-----------------------------------------------------------------------------
(* A step of one CPU's threads leaves the driver of another CPU alone. *)
LEMMA NextInFlight == Shape /\ InFlightHasDriver /\ [Next]_vars => InFlightHasDriver'
<1> SUFFICES ASSUME Shape, InFlightHasDriver, [Next]_vars,
                    NEW d \in CPU, state'[d] = "isolating"
             PROVE  HasDriver(d)'
  BY DEF InFlightHasDriver
<1>d. state[d] = "isolating" => HasDriver(d)
  BY DEF InFlightHasDriver
<1> USE <1>d DEF HasDriver, SetState, Shape
<1>0. CASE UNCHANGED vars
  BY <1>0 DEF vars
<1>1. ASSUME NEW c \in CPU, Errors(c)
      PROVE  HasDriver(d)'
  <2>1. PICK sev \in Severities, l3 \in BOOLEAN, expired \in BOOLEAN :
            ReportError(c, sev, l3, expired)
    BY <1>1 DEF Errors
  <2>2. CASE c = d
    BY <2>1, <2>2 DEF ReportError
  <2>3. CASE c # d
    BY <2>1, <2>3 DEF ReportError
  <2> QED
    BY <2>2, <2>3
<1>2. ASSUME NEW c \in CPU, NEW urgent \in BOOLEAN, BeginIsolation(c, urgent)
      PROVE  \/ c = d /\ (timer'[d] \/ d \in Range(wq)')
             \/ /\ c # d /\ state[d] = "isolating"
                /\ (timer[d] => timer'[d])
                /\ (d \in Range(wq) => d \in Range(wq)')
  <2>1. CASE QueueOffline(c) /\ UNCHANGED <<state, timer>>
    BY <2>1, QueueFacts
  <2>2. CASE ~(QueueOffline(c) /\ UNCHANGED <<state, timer>>)
    BY <1>2, <2>2 DEF BeginIsolation
  <2> QED
    BY <2>1, <2>2
<1>3. ASSUME NEW c \in CPU, ReporterBegin(c)
      PROVE  HasDriver(d)'
  <2>1. BeginIsolation(c, rep[c] = "urgent")
    BY <1>3 DEF ReporterBegin
  <2> QED
    BY <1>2, <1>3, <2>1 DEF ReporterBegin
<1>4. ASSUME NEW c \in CPU, IsolateBegin(c)
      PROVE  HasDriver(d)'
  BY <1>2, <1>4 DEF IsolateBegin
<1>5. ASSUME NEW c \in CPU, Isolate(c)
      PROVE  HasDriver(d)'
  BY <1>5 DEF Isolate, NetlinkFree
<1>6. ASSUME NEW c \in CPU, AckIsolate(c) \/ Unisolate(c)
      PROVE  HasDriver(d)'
  BY <1>6 DEF AckIsolate, Unisolate, NetlinkFree
<1>7. ASSUME NEW c \in CPU, AckProceed(c) \/ DeferTimer(c)
      PROVE  HasDriver(d)'
  BY <1>7, QueueFacts DEF AckProceed, DeferTimer
<1>8. ASSUME NEW c \in CPU, WorkRun(c)
      PROVE  HasDriver(d)'
  <2>1. \A b \in CPU : b \in Range(wq) => b = c \/ b \in Range(wq)'
    BY <1>8, DequeueFacts DEF WorkRun
  <2>2. CASE c \in Protected
    BY <1>8, <2>1, <2>2 DEF WorkRun, WorkRefuse
  <2>3. CASE c \notin Protected
    <3>1. /\ work'[c] \in {"markOk", "markErr"}
          /\ \A b \in CPU : b # c => work'[b] = work[b]
      BY <1>8, <2>3 DEF WorkRun, WorkPerMode, TakeDown, IsolationModes
    <3> QED
      BY <1>8, <2>1, <2>3, <3>1 DEF WorkRun
  <2> QED
    BY <2>2, <2>3
<1>9. ASSUME NEW c \in CPU, WorkMark(c)
      PROVE  HasDriver(d)'
  BY <1>9 DEF WorkMark
<1>10. ASSUME NEW c \in CPU, BringUp(c)
       PROVE  state[d] = "isolating"
  <2>1. state' = state \/ state' = [state EXCEPT ![c] = "online"]
    BY <1>10 DEF BringUp
  <2> QED
    BY <2>1
<1>11. ASSUME NEW c \in CPU, UnisolateRestore(c)
       PROVE  HasDriver(d)'
  <2>1. /\ state[d] = "isolating"
        /\ nl[c] = "restore"
        /\ \A b \in CPU : b # c => nl'[b] = nl[b]
    BY <1>10, <1>11 DEF UnisolateRestore, RestoreFull, IsolationModes
  <2> QED
    BY <1>11, <2>1 DEF UnisolateRestore
<1>12. ASSUME NEW c \in CPU, UnisolateFinish(c)
       PROVE  HasDriver(d)'
  BY <1>12 DEF UnisolateFinish
<1>13. ASSUME NEW c \in CPU, OperatorOffline(c) \/ OperatorOnline(c) \/ Pin(c)
       PROVE  HasDriver(d)'
  BY <1>10, <1>13 DEF OperatorOffline, OperatorOnline, Pin
<1>14. ASSUME NEW q \in Policies, SetPolicy(q)
       PROVE  HasDriver(d)'
  BY <1>14 DEF SetPolicy
<1> QED
  BY <1>0, <1>1, <1>3, <1>4, <1>5, <1>6, <1>7, <1>8, <1>9, <1>11, <1>12, <1>13, <1>14
     DEF Next, UnattendedNext, Machinery

(* No interleaving strands a CPU in ISOLATING with nothing left to finish  *)
(* or refuse the isolation.                                                *)
THEOREM IsolationNeverStranded == Spec => []InFlightHasDriver
<1>1. Init => Shape /\ InFlightHasDriver
  BY InitShape DEF Init, InFlightHasDriver
<1>2. Shape /\ InFlightHasDriver /\ [Next]_vars => (Shape /\ InFlightHasDriver)'
  BY NextShape, NextInFlight
<1> QED
  BY <1>1, <1>2, PTL DEF Spec

-----------------------------------------------------------------------------
(* Unattended behaviours.  A CPU that serves has nothing in flight, so the *)
(* worker only ever takes down a CPU that has been claimed, and what it    *)
(* took down stays down.                                                   *)
Undisturbed(c) ==
    /\ rep[c] = "idle" /\ nl[c] = "idle" /\ ~timer[c]
    /\ c \notin Range(wq) /\ work[c] = "idle"

Withdrawn(c) ==
    /\ nl[c] \notin {"restore", "finish"}
    /\ c \notin Protected /\ state[c] \in {"online", "degraded"} => Undisturbed(c)
    /\ work[c] = "markOk" /\ mode # "soft" => Gone(c)
    /\ state[c] = "isolated" /\ mode # "soft" => Gone(c)
    /\ Gone(c) => state[c] \in {"isolated", "failed"} \/ work[c] = "markOk"
    /\ c \in Protected => /\ c \in online /\ c \in active
                          /\ work[c] = "idle"
                          /\ state[c] \notin {"isolated", "failed"}

UnattendedInv == \A c \in CPU : Withdrawn(c)

(* Unattended steps are steps of the whole system. *)
LEMMA UnattendedShape == Shape /\ [UnattendedNext]_vars => Shape'
BY NextShape DEF Next

(* At load nothing is in flight, and the CPUs that are down are isolated. *)
LEMMA InitUnattendedInv == Init => UnattendedInv
<1> SUFFICES ASSUME Init, NEW c \in CPU
             PROVE  Withdrawn(c)
  BY DEF UnattendedInv
<1>1. c \notin Range(wq)
  BY DEF Init, Range
<1> QED
  BY <1>1, ModeAssumption DEF Init, Withdrawn, Undisturbed, Gone, IsolationModes

(* No unattended step brings a claimed CPU back or starts on one in service. *)
LEMMA NextUnattendedInv ==
    Shape /\ UnattendedInv /\ [UnattendedNext]_vars => UnattendedInv'
<1> SUFFICES ASSUME Shape, UnattendedInv, [UnattendedNext]_vars, NEW d \in CPU
             PROVE  Withdrawn(d)'
  BY DEF UnattendedInv
<1>d. Withdrawn(d)
  BY DEF UnattendedInv
<1> USE <1>d DEF Withdrawn, Undisturbed, Gone, SetState, Shape
<1>0. CASE UNCHANGED vars
  BY <1>0 DEF vars
<1>1. ASSUME NEW c \in CPU, Errors(c)
      PROVE  Withdrawn(d)'
  <2>1. PICK sev \in Severities, l3 \in BOOLEAN, expired \in BOOLEAN :
            ReportError(c, sev, l3, expired)
    BY <1>1 DEF Errors
  <2>2. PICK v : /\ state' = [state EXCEPT ![c] = v]
                 /\ v = Verdict(c, l3, CeAfter(c, sev, expired), UceAfter(c, sev, expired))
    BY <2>1 DEF ReportError
  <2>3. \/ v = state[c]
        \/ state[c] \in {"online", "degraded"} /\ v \in {"degraded", "isolating"}
    BY <2>2 DEF Verdict
  <2>4. v # "isolating" => rep' = rep
    BY <2>1, <2>2 DEF ReportError
  <2>5. /\ state[c] # "isolating" /\ state[c] # "isolated"
        /\ rep[c] = "idle"
        /\ UNCHANGED <<mode, timer, wq, work, nl, online, active>>
    BY <2>1 DEF ReportError
  <2>6. CASE c = d
    BY <2>2, <2>3, <2>4, <2>5, <2>6
  <2>7. CASE c # d
    <3>1. state'[d] = state[d] /\ rep'[d] = rep[d]
      BY <2>1, <2>7 DEF ReportError
    <3> QED
      BY <3>1, <2>5
  <2> QED
    BY <2>6, <2>7
<1>2. ASSUME NEW c \in CPU, NEW urgent \in BOOLEAN, BeginIsolation(c, urgent),
             state[c] = "isolating" \/ ~Undisturbed(c),
             UNCHANGED <<mode, work, online, active>>,
             c # d => rep'[d] = rep[d] /\ nl'[d] = nl[d],
             nl'[d] \notin {"restore", "finish"}
      PROVE  Withdrawn(d)'
  <2>1. CASE c \in Protected
    BY <1>2, <2>1 DEF BeginIsolation
  <2>2. CASE c \notin Protected /\ LastOnline
    BY <1>2, <2>2 DEF BeginIsolation
  <2>3. CASE c \notin Protected /\ ~LastOnline
    <3>1. state' = state
      BY <1>2, <2>3 DEF BeginIsolation
    <3>2. c # d => timer'[d] = timer[d] /\ (d \in Range(wq)' => d \in Range(wq))
      BY <1>2, <2>3, QueueFacts DEF BeginIsolation
    <3> QED
      BY <1>2, <2>3, <3>1, <3>2
  <2> QED
    BY <2>1, <2>2, <2>3
<1>3. ASSUME NEW c \in CPU, ReporterBegin(c)
      PROVE  Withdrawn(d)'
  <2>1. BeginIsolation(c, rep[c] = "urgent") /\ ~Undisturbed(c)
    BY <1>3 DEF ReporterBegin
  <2> QED
    BY <1>2, <1>3, <2>1 DEF ReporterBegin
<1>4. ASSUME NEW c \in CPU, IsolateBegin(c)
      PROVE  Withdrawn(d)'
  <2>1. BeginIsolation(c, FALSE) /\ ~Undisturbed(c)
    BY <1>4 DEF IsolateBegin
  <2> QED
    BY <1>2, <1>4, <2>1 DEF IsolateBegin
<1>5. ASSUME NEW c \in CPU, Isolate(c) \/ AckIsolate(c) \/ Pin(c)
      PROVE  Withdrawn(d)'
  BY <1>5 DEF Isolate, AckIsolate, Pin
<1>6. ASSUME NEW c \in CPU, AckProceed(c) \/ DeferTimer(c)
      PROVE  Withdrawn(d)'
  <2>1. c # d => (d \in Range(wq)' => d \in Range(wq))
    BY <1>6, QueueFacts DEF AckProceed, DeferTimer
  <2> QED
    BY <1>6, <2>1 DEF AckProceed, DeferTimer
<1>7. ASSUME NEW c \in CPU, WorkRun(c)
      PROVE  Withdrawn(d)'
  <2>1. c \in Range(wq) /\ (d \in Range(wq)' => d \in Range(wq))
    BY <1>7, DequeueFacts DEF WorkRun
  <2>2. CASE c \in Protected
    <3>1. /\ d # c => state'[d] = state[d]
          /\ UNCHANGED <<mode, timer, rep, nl, work, online, active>>
          /\ state'[c] = "online"
      BY <1>7, <2>2 DEF WorkRun, WorkRefuse
    <3> QED
      BY <2>1, <2>2, <3>1
  <2>3. CASE c \notin Protected
    <3>1. UNCHANGED <<mode, timer, rep, nl, state>>
      BY <1>7, <2>3 DEF WorkRun
    <3>2. /\ d # c => /\ work'[d] = work[d]
                      /\ (d \in online') <=> (d \in online)
                      /\ (d \in active') <=> (d \in active)
          /\ d = c => \/ work'[d] = "markOk" /\ (mode # "soft" => Gone(d)')
                      \/ work'[d] = "markErr" /\ UNCHANGED <<online, active>> /\ d \in online
                         /\ mode = "full"
          /\ mode = "soft" => Gone(d)' = FALSE
      BY <1>7, <2>3, <3>1 DEF WorkRun, WorkPerMode, TakeDown, IsolationModes
    <3>3. d = c => state[d] \notin {"online", "degraded"}
      BY <2>1, <2>3
    <3> QED
      BY <2>1, <2>3, <3>1, <3>2, <3>3
  <2> QED
    BY <2>2, <2>3
<1>8. ASSUME NEW c \in CPU, WorkMark(c)
      PROVE  Withdrawn(d)'
  BY <1>8 DEF WorkMark
<1>9. ASSUME NEW c \in CPU, UnisolateRestore(c) \/ UnisolateFinish(c)
      PROVE  Withdrawn(d)'
  <2>1. Withdrawn(c)
    BY DEF UnattendedInv
  <2> QED
    BY <1>9, <2>1 DEF UnisolateRestore, UnisolateFinish
<1>10. ASSUME NEW q \in Policies, SetPolicy(q)
       PROVE  Withdrawn(d)'
  BY <1>10 DEF SetPolicy
<1> QED
  BY <1>0, <1>1, <1>3, <1>4, <1>5, <1>6, <1>7, <1>8, <1>9, <1>10
     DEF UnattendedNext, Machinery

(* While nobody undoes isolations by hand, an isolated CPU is out of       *)
(* service in the sense of its mode, for every number of CPUs.             *)
THEOREM IsolatedCpuIsGone == UnattendedSpec => []IsolatedIsGone
<1>1. Init => Shape /\ UnattendedInv
  BY InitShape, InitUnattendedInv
<1>2. Shape /\ UnattendedInv /\ [UnattendedNext]_vars => (Shape /\ UnattendedInv)'
  BY UnattendedShape, NextUnattendedInv
<1>3. UnattendedInv => IsolatedIsGone
  BY DEF UnattendedInv, Withdrawn, IsolatedIsGone
<1> QED
  BY <1>1, <1>2, <1>3, PTL DEF UnattendedSpec

(* ... and whatever the module took out of service can be had back with    *)
(* UNISOLATE.                                                              *)
THEOREM GoneCpuIsRecoverable == UnattendedSpec => []GoneIsRecoverable
<1>1. Init => Shape /\ UnattendedInv
  BY InitShape, InitUnattendedInv
<1>2. Shape /\ UnattendedInv /\ [UnattendedNext]_vars => (Shape /\ UnattendedInv)'
  BY UnattendedShape, NextUnattendedInv
<1>3. UnattendedInv => GoneIsRecoverable
  BY DEF UnattendedInv, Withdrawn, GoneIsRecoverable
<1> QED
  BY <1>1, <1>2, <1>3, PTL DEF UnattendedSpec

-----------------------------------------------------------------------------
(* The safety half of the refinement, without its fairness: unattended and *)
(* not in soft mode, the module implements IsolationPromise step by step.  *)
HardMode == mode \in {"full", "inactive"}

(* The mode is chosen at load and never changes. *)
LEMMA NextHardMode == HardMode /\ [UnattendedNext]_vars => HardMode'
<1> SUFFICES ASSUME [UnattendedNext]_vars
             PROVE  mode' = mode
  BY DEF HardMode
<1>1. CASE UNCHANGED vars
  BY <1>1 DEF vars
<1>2. ASSUME NEW c \in CPU, Errors(c) \/ Isolate(c) \/ AckIsolate(c) \/ Pin(c)
      PROVE  mode' = mode
  BY <1>2 DEF Errors, ReportError, Isolate, AckIsolate, Pin
<1>3. ASSUME NEW c \in CPU, Machinery(c)
      PROVE  mode' = mode
  BY <1>3 DEF Machinery, ReporterBegin, IsolateBegin, AckProceed, DeferTimer, WorkRun,
              WorkMark, UnisolateRestore, UnisolateFinish
<1>4. ASSUME NEW p \in Policies, SetPolicy(p)
      PROVE  mode' = mode
  BY <1>4 DEF SetPolicy
<1> QED
  BY <1>1, <1>2, <1>3, <1>4 DEF UnattendedNext

(* A load is an initial state of the promise. *)
LEMMA InitKeepsPromise == Init /\ HardMode => Promise!Init
<1> SUFFICES ASSUME Init, HardMode
             PROVE  Promise!Init
  OBVIOUS
<1>1. \A c \in CPU : Gone(c) <=> c \notin online
  BY DEF Init, HardMode, Gone
<1>2. \A c \in Protected : c \in online
  BY DEF Init
<1> QED
  BY <1>1, <1>2 DEF Init, Promise!Init

(* What a step may do to one CPU, in the terms of the abstract machine. *)
LEMMA StepKeepsPromise ==
    Shape /\ UnattendedInv /\ HardMode /\ [UnattendedNext]_vars
        => [Promise!Next]_(Promise!pvars)
<1> SUFFICES ASSUME Shape, UnattendedInv, HardMode, [UnattendedNext]_vars
             PROVE  Promise!Next \/ UNCHANGED Promise!pvars
  BY DEF Promise!pvars
<1> DEFINE W == {c \in CPU : Gone(c)}
<1>w. \A c \in CPU : Withdrawn(c)
  BY DEF UnattendedInv
<1>q. ASSUME UNCHANGED <<mode, online, active>>
      PROVE  W' = W
  BY <1>q DEF Gone
<1>u. ASSUME UNCHANGED state, W' = W
      PROVE  UNCHANGED Promise!pvars
  BY <1>u DEF Promise!pvars
<1>0. CASE UNCHANGED vars
  BY <1>0, <1>q, <1>u DEF vars
<1>1. ASSUME NEW c \in CPU, Errors(c)
      PROVE  Promise!Next \/ UNCHANGED Promise!pvars
  <2>1. PICK sev \in Severities, l3 \in BOOLEAN, expired \in BOOLEAN :
            ReportError(c, sev, l3, expired)
    BY <1>1 DEF Errors
  <2>2. W' = W
    BY <2>1, <1>q DEF ReportError
  <2>3. PICK v : /\ state' = [state EXCEPT ![c] = v]
                 /\ v = Verdict(c, l3, CeAfter(c, sev, expired), UceAfter(c, sev, expired))
    BY <2>1 DEF ReportError, SetState
  <2>4. \/ v = state[c]
        \/ v = "degraded" /\ state[c] = "online"
        \/ v = "isolating" /\ state[c] \in {"online", "degraded"}
    BY <2>3 DEF Verdict
  <2>5. CASE v = state[c]
    BY <2>2, <2>3, <2>5, <1>u DEF Shape
  <2>6. CASE v = "degraded" /\ state[c] = "online"
    BY <2>2, <2>3, <2>6 DEF Promise!Next, Promise!Degrade
  <2>7. CASE v = "isolating" /\ state[c] \in {"online", "degraded"}
    BY <2>2, <2>3, <2>7 DEF Promise!Next, Promise!Claim, Promise!InService
  <2> QED
    BY <2>4, <2>5, <2>6, <2>7
<1>2. ASSUME NEW c \in CPU, NEW urgent \in BOOLEAN, BeginIsolation(c, urgent),
             ~Undisturbed(c), W' = W
      PROVE  Promise!Next \/ UNCHANGED Promise!pvars
  <2>1. CASE c \in Protected
    BY <1>2, <2>1 DEF BeginIsolation, SetState, Promise!Next, Promise!Refuse
  <2>2. CASE c \notin Protected /\ LastOnline
    <3>1. state[c] \in Promise!Claimed
      BY <1>2, <1>w, <2>2 DEF Withdrawn, Shape, States, Promise!Claimed
    <3>2. state' = [state EXCEPT ![c] = "failed"]
      BY <1>2, <2>2 DEF BeginIsolation, SetState
    <3> QED
      BY <1>2, <2>2, <3>1, <3>2 DEF Promise!Next, Promise!Verdict
  <2>3. CASE c \notin Protected /\ ~LastOnline
    BY <1>2, <2>3, <1>u DEF BeginIsolation
  <2> QED
    BY <2>1, <2>2, <2>3
<1>3. ASSUME NEW c \in CPU, ReporterBegin(c) \/ IsolateBegin(c)
      PROVE  Promise!Next \/ UNCHANGED Promise!pvars
  <2>1. W' = W
    BY <1>3, <1>q DEF ReporterBegin, IsolateBegin
  <2>2. ~Undisturbed(c)
    BY <1>3 DEF ReporterBegin, IsolateBegin, Undisturbed
  <2>3. \E urgent \in BOOLEAN : BeginIsolation(c, urgent)
    BY <1>3 DEF ReporterBegin, IsolateBegin
  <2> QED
    BY <1>2, <2>1, <2>2, <2>3
<1>4. ASSUME NEW c \in CPU, Isolate(c)
      PROVE  Promise!Next \/ UNCHANGED Promise!pvars
  <2>1. W' = W
    BY <1>4, <1>q DEF Isolate
  <2> QED
    BY <1>4, <2>1 DEF Isolate, SetState, Promise!Next, Promise!Claim, Promise!InService
<1>5. ASSUME NEW c \in CPU, AckIsolate(c) \/ Pin(c) \/ AckProceed(c) \/ DeferTimer(c)
      PROVE  UNCHANGED Promise!pvars
  BY <1>5, <1>q, <1>u DEF AckIsolate, Pin, AckProceed, DeferTimer
<1>6. ASSUME NEW c \in CPU, WorkRun(c)
      PROVE  Promise!Next \/ UNCHANGED Promise!pvars
  <2>1. CASE c \in Protected
    <3>1. W' = W
      BY <1>6, <2>1, <1>q DEF WorkRun, WorkRefuse
    <3> QED
      BY <1>6, <2>1, <3>1 DEF WorkRun, WorkRefuse, SetState, Promise!Next, Promise!Refuse
  <2>2. CASE c \notin Protected
    <3>1. UNCHANGED <<mode, state>>
      BY <1>6, <2>2 DEF WorkRun
    <3>2. W' = W \cup {c} \/ W' = W
      BY <1>6, <2>2, <3>1 DEF WorkRun, WorkPerMode, TakeDown, HardMode, Gone
    <3>3. c \in Range(wq)
      BY <1>6 DEF WorkRun, Range, Shape
    <3>4. state[c] \in Promise!Claimed
      BY <1>w, <2>2, <3>3 DEF Withdrawn, Undisturbed, Shape, States, Promise!Claimed
    <3>5. CASE W' = W \cup {c}
      BY <2>2, <3>1, <3>4, <3>5 DEF Promise!Next, Promise!Withdraw
    <3> QED
      BY <3>1, <3>2, <3>5, <1>u
  <2> QED
    BY <2>1, <2>2
<1>7. ASSUME NEW c \in CPU, WorkMark(c)
      PROVE  Promise!Next \/ UNCHANGED Promise!pvars
  <2>1. W' = W
    BY <1>7, <1>q DEF WorkMark
  <2>2. c \notin Protected /\ ~Undisturbed(c)
    BY <1>7, <1>w DEF WorkMark, Withdrawn, Undisturbed
  <2>3. state[c] \in Promise!Claimed
    BY <1>w, <2>2 DEF Withdrawn, Shape, States, Promise!Claimed
  <2>4. \/ c \in W /\ state' = [state EXCEPT ![c] = "isolated"]
        \/ state' = [state EXCEPT ![c] = "failed"]
    BY <1>7, <1>w DEF WorkMark, Withdrawn, HardMode, SetState
  <2> QED
    BY <2>1, <2>2, <2>3, <2>4 DEF Promise!Next, Promise!Verdict
<1>8. ASSUME NEW c \in CPU, UnisolateRestore(c) \/ UnisolateFinish(c)
      PROVE  FALSE
  BY <1>8, <1>w DEF UnisolateRestore, UnisolateFinish, Withdrawn
<1>9. ASSUME NEW p \in Policies, SetPolicy(p)
      PROVE  UNCHANGED Promise!pvars
  BY <1>9, <1>q, <1>u DEF SetPolicy
<1> QED
  BY <1>0, <1>1, <1>3, <1>4, <1>5, <1>6, <1>7, <1>8, <1>9 DEF UnattendedNext, Machinery

(* Every unattended behaviour in full or inactive mode is, seen through    *)
(* the states and the CPUs out of service, a behaviour the promise allows. *)
THEOREM PromiseKeptStepwise ==
    UnattendedSpec /\ HardMode => Promise!Init /\ [][Promise!Next]_(Promise!pvars)
<1>1. Init => Shape /\ UnattendedInv
  BY InitShape, InitUnattendedInv
<1>2. Shape /\ UnattendedInv /\ HardMode /\ [UnattendedNext]_vars
        => (Shape /\ UnattendedInv /\ HardMode)'
  BY UnattendedShape, NextUnattendedInv, NextHardMode
<1> QED
  BY <1>1, <1>2, InitKeepsPromise, StepKeepsPromise, PTL DEF UnattendedSpec

-----------------------------------------------------------------------------
(* No old window survives a return to service, where every error counts:   *)
(* automatic isolation on, L3 errors included, nobody pinning, thresholds  *)
(* above zero that are not moved.                                          *)
EveryErrorCounts ==
    /\ Pinnable = {}
    /\ \A p, q \in Policies : /\ p.auto /\ p.l3 /\ p.ce > 0 /\ p.uce > 0
                              /\ p.ce = q.ce /\ p.uce = q.uce

Below(c) ==
    /\ state[c] = "online" => ce[c] < policy.ce
    /\ state[c] \in {"online", "degraded"} => uce[c] < policy.uce

Unpinned == \A c \in CPU : ~pinned[c]

LEMMA NextUnpinned == EveryErrorCounts /\ Unpinned /\ [Next]_vars => Unpinned'
<1> SUFFICES ASSUME EveryErrorCounts, Unpinned, [Next]_vars PROVE pinned' = pinned
  BY DEF Unpinned
<1>0. CASE UNCHANGED vars
  BY <1>0 DEF vars
<1>1. ASSUME NEW c \in CPU, Errors(c)
      PROVE  pinned' = pinned
  BY <1>1 DEF Errors, ReportError
<1>2. ASSUME NEW c \in CPU, Machinery(c)
      PROVE  pinned' = pinned
  BY <1>2 DEF Machinery, ReporterBegin, IsolateBegin, AckProceed, DeferTimer,
              WorkRun, WorkMark, UnisolateRestore, UnisolateFinish
<1>3. ASSUME NEW c \in CPU, \/ Isolate(c) \/ AckIsolate(c) \/ Unisolate(c)
                              \/ OperatorOffline(c) \/ OperatorOnline(c)
      PROVE  pinned' = pinned
  BY <1>3 DEF Isolate, AckIsolate, Unisolate, OperatorOffline, OperatorOnline
<1>4. ASSUME NEW c \in CPU, Pin(c)
      PROVE  FALSE
  BY <1>4 DEF Pin, EveryErrorCounts
<1>5. ASSUME NEW p \in Policies, SetPolicy(p)
      PROVE  pinned' = pinned
  BY <1>5 DEF SetPolicy
<1> QED
  BY <1>0, <1>1, <1>2, <1>3, <1>4, <1>5 DEF Next, UnattendedNext

(* A CPU that is not protected comes back to service with an empty window, *)
(* and stays there only below the thresholds.                              *)
LEMMA NextBelow ==
    ASSUME EveryErrorCounts, Shape, Unpinned, [Next]_vars,
           NEW d \in CPU \ Protected, Below(d)
    PROVE  Below(d)'
<1>a. /\ policy.ce \in Nat /\ policy.ce > 0 /\ policy.uce \in Nat /\ policy.uce > 0
      /\ policy.auto /\ policy.l3 /\ ~pinned[d] /\ d \in CPU
  BY CapAssumption, PolicyAssumption DEF EveryErrorCounts, Shape, Unpinned
<1>b. Shape /\ d \in CPU
  OBVIOUS
<1> USE DEF Below, SetState, Shape
<1>0. CASE UNCHANGED vars
  BY <1>0 DEF vars
<1>1. ASSUME NEW c \in CPU, Errors(c)
      PROVE  Below(d)'
  <2>1. PICK sev \in Severities, l3 \in BOOLEAN, expired \in BOOLEAN :
            ReportError(c, sev, l3, expired)
    BY <1>1 DEF Errors
  <2>2. CASE c # d
    BY <2>1, <2>2 DEF ReportError
  <2>3. CASE c = d
    <3> DEFINE e == CeAfter(d, sev, expired)
               u == UceAfter(d, sev, expired)
               v == Verdict(d, l3, e, u)
    <3>0. CeAfter(d, sev, expired) \in 0..CountCap /\ UceAfter(d, sev, expired) \in 0..CountCap
      <4> HIDE DEF Shape
      <4> QED
        BY <1>b, AccountingFacts
    <3>1. e \in Nat /\ u \in Nat
      BY <3>0, CapAssumption
    <3>2. /\ state'[d] = v /\ ce'[d] = e /\ uce'[d] = u /\ policy' = policy
      BY <1>a, <2>1, <2>3 DEF ReportError
    <3> HIDE DEF e, u
    <3>3. CASE state[d] \in {"online", "degraded"} /\ u >= policy.uce
      <4>1. v = "isolating"
        BY <1>a, <3>3 DEF Verdict, MayAct, L3Held
      <4> QED
        BY <3>2, <4>1
    <3>4. CASE state[d] \in {"online", "degraded"} /\ ~(u >= policy.uce)
      <4>1. u < policy.uce
        BY <1>a, <3>1, <3>4
      <4>2. v = IF state[d] = "online" /\ e >= policy.ce THEN "degraded" ELSE state[d]
        BY <1>a, <3>4 DEF Verdict, MayAct, L3Held
      <4>3. v = "online" => e < policy.ce
        BY <1>a, <3>1, <4>2
      <4> QED
        BY <3>2, <4>1, <4>3
    <3>5. CASE state[d] = "failed"
      <4>1. v = "failed"
        BY <3>5 DEF Verdict
      <4> QED
        BY <3>2, <4>1
    <3>6. state[d] \in {"online", "degraded", "failed"}
      BY <1>a, <2>1, <2>3 DEF ReportError, States
    <3> QED
      BY <3>3, <3>4, <3>5, <3>6
  <2> QED
    BY <2>2, <2>3
<1>2. ASSUME NEW c \in CPU, NEW urgent \in BOOLEAN, BeginIsolation(c, urgent)
      PROVE  state'[d] \in {state[d], "failed"}
  BY <1>a, <1>2 DEF BeginIsolation
<1>3. ASSUME NEW c \in CPU, ReporterBegin(c) \/ IsolateBegin(c)
      PROVE  Below(d)'
  BY <1>2, <1>3 DEF ReporterBegin, IsolateBegin
<1>4. ASSUME NEW c \in CPU, Isolate(c) \/ AckIsolate(c) \/ AckProceed(c) \/ DeferTimer(c)
      PROVE  Below(d)'
  BY <1>a, <1>4 DEF Isolate, AckIsolate, AckProceed, DeferTimer
<1>5. ASSUME NEW c \in CPU, WorkRun(c) \/ WorkMark(c)
      PROVE  Below(d)'
  BY <1>a, <1>5 DEF WorkRun, WorkRefuse, WorkMark
<1>6. ASSUME NEW c \in CPU, BringUp(c), policy' = policy
      PROVE  Below(d)'
  BY <1>a, <1>6 DEF BringUp, ResetWindow
<1>7. ASSUME NEW c \in CPU, Unisolate(c) \/ UnisolateRestore(c) \/ UnisolateFinish(c)
      PROVE  Below(d)'
  <2>1. CASE Unisolate(c)
    BY <2>1 DEF Unisolate
  <2>2. CASE UnisolateRestore(c)
    <3>1. policy' = policy /\ (BringUp(c) \/ UNCHANGED <<state, ce, uce>>)
      BY <2>2 DEF UnisolateRestore, RestoreFull, IsolationModes
    <3> QED
      BY <1>6, <3>1
  <2>3. CASE UnisolateFinish(c)
    BY <1>a, <2>3 DEF UnisolateFinish, ResetWindow
  <2> QED
    BY <1>7, <2>1, <2>2, <2>3
<1>8. ASSUME NEW c \in CPU, OperatorOffline(c) \/ OperatorOnline(c) \/ Pin(c)
      PROVE  Below(d)'
  BY <1>6, <1>8 DEF OperatorOffline, OperatorOnline, Pin
<1>9. ASSUME NEW q \in Policies, SetPolicy(q)
      PROVE  Below(d)'
  BY <1>9 DEF SetPolicy, EveryErrorCounts
<1> QED
  BY <1>0, <1>1, <1>3, <1>4, <1>5, <1>7, <1>8, <1>9
     DEF Next, UnattendedNext, Machinery

Counted == Shape /\ Unpinned /\ BelowThresholds

LEMMA AlwaysCounted == EveryErrorCounts => (Spec => []Counted)
<1> SUFFICES ASSUME EveryErrorCounts PROVE Spec => []Counted
  OBVIOUS
<1>1. Init => Counted
  BY InitShape, CapAssumption, PolicyAssumption
     DEF Init, Counted, Unpinned, BelowThresholds, EveryErrorCounts, Shape
<1>2. Counted /\ [Next]_vars => Counted'
  BY NextShape, NextUnpinned, NextBelow DEF Counted, BelowThresholds, Below
<1> QED
  BY <1>1, <1>2, PTL DEF Spec

(* Where every error counts, no way back to service (UNISOLATE, the        *)
(* hotplug callback, an operator) leaves a CPU at a threshold: it is not   *)
(* isolated again for the errors it was isolated for.                      *)
THEOREM NoOldWindowSurvives == EveryErrorCounts => (Spec => []BelowThresholds)
<1> SUFFICES ASSUME EveryErrorCounts PROVE Spec => []BelowThresholds
  OBVIOUS
<1>1. Counted => BelowThresholds
  BY DEF Counted
<1> QED
  BY <1>1, AlwaysCounted, PTL

(* What CorrectedErrorNeverIsolates says, of one CPU. *)
CorrectedErrorSpares(c) ==
    (\E l3, expired \in BOOLEAN : ReportError(c, "CE", l3, expired))
        => state'[c] # "isolating"

LEMMA BelowSpares ==
    ASSUME EveryErrorCounts, Counted, NEW c \in CPU \ Protected
    PROVE  CorrectedErrorSpares(c)
<1> SUFFICES ASSUME NEW l3 \in BOOLEAN, NEW expired \in BOOLEAN,
                    ReportError(c, "CE", l3, expired)
             PROVE  state'[c] # "isolating"
  BY DEF CorrectedErrorSpares
<1> DEFINE e == CeAfter(c, "CE", expired)
           u == UceAfter(c, "CE", expired)
<1>1. Shape /\ policy.uce \in Nat /\ policy.uce > 0 /\ uce[c] \in Nat
  BY CapAssumption, PolicyAssumption DEF Counted, Shape, EveryErrorCounts
<1>2. u = IF expired THEN 0 ELSE uce[c]
  BY DEF UceAfter
<1>3. /\ state'[c] = Verdict(c, l3, e, u)
      /\ state[c] # "isolating"
  BY <1>1 DEF ReportError, SetState, Shape
<1>4. state[c] \in {"online", "degraded"} => ~(u >= policy.uce)
  BY <1>1, <1>2 DEF Counted, BelowThresholds
<1> HIDE DEF e, u
<1> QED
  BY <1>3, <1>4 DEF Verdict

(* The counterpart of the finding on CorrectedErrorNeverIsolates: where    *)
(* every uncorrected error is acted upon, a corrected error never isolates *)
(* a CPU that can be isolated at all.  It takes an error that was held     *)
(* back, by isolate_on_l3_uce, user_pinned or auto_isolate, or a threshold *)
(* moved below the count, for a corrected error to do so.                  *)
THEOREM CorrectedErrorIsolatesNobody ==
    EveryErrorCounts => (Spec => [][\A c \in CPU \ Protected : CorrectedErrorSpares(c)]_vars)
<1> SUFFICES ASSUME EveryErrorCounts
             PROVE  Spec => [][\A c \in CPU \ Protected : CorrectedErrorSpares(c)]_vars
  OBVIOUS
<1>1. Counted => \A c \in CPU \ Protected : CorrectedErrorSpares(c)
  BY BelowSpares
<1> QED
  BY <1>1, AlwaysCounted, PTL

-----------------------------------------------------------------------------
(* That the last-CPU check can be passed by a CPU the scheduler cannot     *)
(* spare needs inactive mode: elsewhere the two masks are one, and neither *)
(* the module nor an operator takes down the last CPU.                     *)
SchedulerKeepsCpu == active # {}

OneMask == mode # "inactive" => active = online /\ online # {}

LEMMA AnotherOneStays ==
    ASSUME Shape, NEW c \in CPU, c \notin online \/ ~LastOnline, online # {}
    PROVE  online \ {c} # {}
<1> SUFFICES ASSUME online = {c} PROVE FALSE
  OBVIOUS
<1>1. Cardinality(online) = 1
  BY FS_Singleton
<1> QED
  BY <1>1 DEF LastOnline

LEMMA NextOneMask == Shape /\ OneMask /\ [Next]_vars => OneMask'
<1> SUFFICES ASSUME Shape, OneMask, [Next]_vars PROVE OneMask'
  OBVIOUS
<1> DEFINE Stands == UNCHANGED <<mode, online, active>>
<1>0. ASSUME Stands PROVE OneMask'
  BY <1>0 DEF OneMask
<1>1. CASE UNCHANGED vars
  BY <1>0, <1>1 DEF vars
<1>2. ASSUME NEW c \in CPU, Errors(c) \/ Isolate(c) \/ AckIsolate(c) \/ Pin(c) \/ Unisolate(c)
      PROVE  Stands
  BY <1>2 DEF Errors, ReportError, Isolate, AckIsolate, Pin, Unisolate
<1>3. ASSUME NEW c \in CPU, \/ ReporterBegin(c) \/ IsolateBegin(c) \/ AckProceed(c)
                            \/ DeferTimer(c) \/ WorkMark(c) \/ UnisolateFinish(c)
      PROVE  Stands
  BY <1>3 DEF ReporterBegin, IsolateBegin, AckProceed, DeferTimer, WorkMark,
              UnisolateFinish
<1>4. ASSUME NEW c \in CPU, WorkRun(c)
      PROVE  OneMask'
  <2>1. CASE c \in Protected
    BY <1>0, <1>4, <2>1 DEF WorkRun, WorkRefuse
  <2>2. CASE c \notin Protected /\ mode = "full"
    <3>1. mode' = mode /\ TakeDown(c)
      BY <1>4, <2>2 DEF WorkRun, WorkPerMode
    <3> QED
      BY <2>2, <3>1, AnotherOneStays DEF TakeDown, OneMask
  <2>3. CASE c \notin Protected /\ mode = "soft"
    BY <1>0, <1>4, <2>3 DEF WorkRun, WorkPerMode
  <2>4. CASE mode = "inactive"
    BY <1>4, <2>4 DEF WorkRun, OneMask
  <2> QED
    BY <2>1, <2>2, <2>3, <2>4 DEF Shape, IsolationModes
<1>5. ASSUME NEW c \in CPU, UnisolateRestore(c)
      PROVE  OneMask'
  <2>1. CASE mode = "full"
    BY <1>5, <2>1 DEF UnisolateRestore, RestoreFull, BringUp, OneMask
  <2>2. CASE mode = "soft"
    BY <1>0, <1>5, <2>2 DEF UnisolateRestore
  <2>3. CASE mode = "inactive"
    BY <1>5, <2>3 DEF UnisolateRestore, OneMask
  <2> QED
    BY <2>1, <2>2, <2>3 DEF Shape, IsolationModes
<1>6. ASSUME NEW c \in CPU, OperatorOffline(c) \/ OperatorOnline(c)
      PROVE  OneMask'
  BY <1>6, AnotherOneStays DEF OperatorOffline, OperatorOnline, BringUp, OneMask
<1>7. ASSUME NEW p \in Policies, SetPolicy(p)
      PROVE  Stands
  BY <1>7 DEF SetPolicy
<1> QED
  BY <1>0, <1>1, <1>2, <1>3, <1>4, <1>5, <1>6, <1>7 DEF Next, UnattendedNext, Machinery

(* In full and soft mode the scheduler always has a CPU, whatever          *)
(* operators, errors and commands do.                                      *)
THEOREM SchedulerKeepsCpuByMode == Spec => [](mode # "inactive" => SchedulerKeepsCpu)
<1>1. Init => Shape /\ OneMask
  BY InitShape DEF Init, OneMask
<1>2. Shape /\ OneMask /\ [Next]_vars => (Shape /\ OneMask)'
  BY NextShape, NextOneMask
<1>3. OneMask => (mode # "inactive" => SchedulerKeepsCpu)
  BY DEF OneMask, SchedulerKeepsCpu
<1> QED
  BY <1>1, <1>2, <1>3, PTL DEF Spec

(* In every mode it has a CPU while a protected one is online: inactive     *)
(* mode takes the last one only where protect_cpu0 is switched off, or an   *)
(* operator has unplugged CPU 0 by hand.                                    *)
COROLLARY SchedulerKeepsProtected ==
    Spec => [](Protected \cap online # {} => SchedulerKeepsCpu)
<1>1. ProtectedSafe => (Protected \cap online # {} => SchedulerKeepsCpu)
  BY DEF ProtectedSafe, SchedulerKeepsCpu
<1> QED
  BY <1>1, ProtectedIsSafe, PTL
=============================================================================
