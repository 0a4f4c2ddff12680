------------------------ MODULE CpuWithdrawalProofs ------------------------
(***************************************************************************)
(* Proofs about CpuWithdrawal: success is reported of CPUs that really     *)
(* moved, the device model's flag never locks a CPU in or out, and what    *)
(* the module does step by step is what CpuIsolation does at once.         *)
(***************************************************************************)
EXTENDS CpuWithdrawal, FiniteSetTheorems, TLAPS

(* A bypass that succeeded found an entry point, which is what excuses a   *)
(* flag another context has set against the CPU's state.                   *)
SyncWasFound ==
    \A x \in Ways : job[x].at = "sync" => \E r \in Rungs : <<x, r>> \in box.found

(* What the history variable knows in every mode; interrupts are steered   *)
(* where nothing is known of success.                                      *)
SawKnows ==
    \A x \in Ways :
        /\ job[x].at # "idle" /\ There(x) => x \in saw
        /\ job[x].at = "sync" => x \in saw
        /\ job[x].at \in {"irqs", "undo"} => mode # "full"

(* NeverShortCircuited, whoever is busy: a CPU that cannot be moved back   *)
(* has somebody about to set its flag right.                               *)
Syncing(x, c) == job[x].at = "sync" /\ job[x].cpu = c

Openable ==
    \A c \in CPU :
        /\ c \in online => Passable("off", c) \/ Syncing("on", c)
        /\ c \notin online => Passable("on", c) \/ Syncing("off", c)

IInv == TypeOK /\ SyncWasFound /\ SawKnows /\ Openable /\ SuccessIsReal

LEMMA IdleIsJob == Idle \in Jobs
BY CpuAssumption DEF Idle, Jobs, Positions

LEMMA InitIInv == Init => IInv
<1> SUFFICES ASSUME Init PROVE IInv
    OBVIOUS
<1>1. TypeOK
    BY IdleIsJob, ModeAssumption DEF Init, TypeOK, Idle, Ways
<1>2. SyncWasFound /\ SawKnows /\ SuccessIsReal
    BY DEF Init, SyncWasFound, SawKnows, SuccessIsReal, Idle, Ways
<1>3. Openable
    BY DEF Init, Openable, Passable, Flagged
<1> QED
    BY <1>1, <1>2, <1>3 DEF IInv

(* Where a context goes. *)
LEMMA GoFacts ==
    ASSUME TypeOK, NEW x \in Ways, NEW pos \in Positions, Go(x, pos)
    PROVE  /\ job' \in [Ways -> Jobs]
           /\ job'[x].at = pos /\ job'[x].cpu = job[x].cpu /\ job'[x].ok = job[x].ok
           /\ \A y \in Ways \ {x} : job'[y] = job[y]
BY DEF TypeOK, Go, Jobs

LEMMA ReturnFacts ==
    ASSUME TypeOK, NEW x \in Ways, NEW ok \in BOOLEAN, Return(x, ok)
    PROVE  /\ job' \in [Ways -> Jobs]
           /\ job'[x].at = "done" /\ job'[x].cpu = job[x].cpu /\ job'[x].ok = ok
           /\ \A y \in Ways \ {x} : job'[y] = job[y]
<1>1. job[x] \in Jobs /\ "done" \in Positions
    BY DEF TypeOK, Positions
<1>2. job' = [job EXCEPT ![x] = [job[x] EXCEPT !.at = "done", !.ok = ok]]
    BY DEF Return
<1>3. /\ [job[x] EXCEPT !.at = "done", !.ok = ok] \in Jobs
      /\ [job[x] EXCEPT !.at = "done", !.ok = ok].at = "done"
      /\ [job[x] EXCEPT !.at = "done", !.ok = ok].cpu = job[x].cpu
      /\ [job[x] EXCEPT !.at = "done", !.ok = ok].ok = ok
    BY <1>1 DEF Jobs
<1> QED
    BY <1>2, <1>3 DEF TypeOK

(* What the hotplug core does to a CPU. *)
LEMMA MoveFacts ==
    ASSUME TypeOK, NEW x \in Ways, NEW c \in CPU, Move(x, c)
    PROVE  /\ online' \subseteq CPU /\ active' \subseteq CPU
           /\ aff' \in [Irq -> SUBSET CPU]
           /\ rec' \in [CPU -> {"online", "isolated", "failed"}]
           /\ saw' \subseteq Ways /\ saw \subseteq saw' /\ saw' \subseteq saw \cup {x}
           /\ IF x = "off" THEN c \notin online' ELSE c \in online'
           /\ \A d \in CPU \ {c} : d \in online' <=> d \in online
           /\ job[x].at # "idle" /\ job[x].cpu = c => x \in saw'
BY DEF TypeOK, Move, Ways

(* The flag follows the direction it is set for. *)
LEMMA FlagFacts ==
    ASSUME TypeOK, NEW x \in Ways, NEW c \in CPU, FlagAs(x, c)
    PROVE  /\ flag' \subseteq CPU
           /\ c \in flag' <=> x = "off"
           /\ \A d \in CPU \ {c} : d \in flag' <=> d \in flag
BY DEF TypeOK, FlagAs, Ways

-----------------------------------------------------------------------------
(* Nobody looks at the flag, the masks or the ladder here. *)
LEMMA StartIInv ==
    ASSUME IInv, NEW x \in Ways, NEW c \in CPU, Start(x, c)
    PROVE  IInv'
<1> DEFINE entered(pos, ok) == [at |-> pos, cpu |-> c, left |-> Irq, ok |-> ok]
<1>1. TypeOK /\ box' = box /\ mode' = mode /\ online' = online /\ flag' = flag
    BY DEF IInv, Start
<1>2. PICK pos \in {"model", "irqs", "undo"}, ok \in BOOLEAN :
          /\ job' = [job EXCEPT ![x] = entered(pos, ok)]
          /\ mode = "full" => pos = "model"
    BY <1>1 DEF Start, TypeOK, Ways
<1>3. /\ job' \in [Ways -> Jobs]
      /\ job'[x].at = pos /\ job'[x].cpu = c
      /\ \A y \in Ways \ {x} : job'[y] = job[y]
    BY <1>1, <1>2 DEF TypeOK, Jobs, Positions
<1>4. /\ saw' \subseteq Ways
      /\ \A y \in Ways \ {x} : y \in saw' <=> y \in saw
      /\ (IF x = "off" THEN c \notin online ELSE c \in online) => x \in saw'
    BY <1>1 DEF Start, TypeOK
<1>5. TypeOK'
    <2>1. active' \subseteq CPU
        BY <1>1 DEF Start, TypeOK, Ways
    <2> QED
        BY <1>1, <1>3, <1>4, <2>1 DEF Start, TypeOK
<1>6. SyncWasFound'
    BY <1>1, <1>3 DEF IInv, SyncWasFound
<1>7. SawKnows'
    BY <1>1, <1>2, <1>3, <1>4 DEF IInv, SawKnows, There
<1>8. Openable'
    <2>1. job[x].at = "idle"
        BY DEF Start
    <2>2. \A y \in Ways, d \in CPU : Syncing(y, d) => Syncing(y, d)'
        BY <1>3, <2>1 DEF Syncing
    <2> QED
        BY <1>1, <2>2 DEF IInv, Openable, Passable, Flagged, Ways
<1>9. SuccessIsReal'
    BY <1>1, <1>2, <1>3, <1>4 DEF IInv, SuccessIsReal
<1> QED
    BY <1>5, <1>6, <1>7, <1>8, <1>9 DEF IInv

(* Acting through the device model sets flag and CPU in one step. *)
LEMMA ModelIInv ==
    ASSUME IInv, NEW x \in Ways, ModelCall(x)
    PROVE  IInv'
<1>1. TypeOK /\ box' = box /\ mode' = mode /\ job[x].cpu \in CPU /\ job[x].at = "model"
    BY DEF IInv, TypeOK, Jobs, ModelCall
<1>2. CASE Go(x, "look") /\ UNCHANGED <<masks, flag, saw>>
    <2>1. UNCHANGED <<online, active, aff, rec, flag, saw>>
        BY <1>2 DEF masks
    <2>2. /\ job' \in [Ways -> Jobs]
          /\ job'[x].at = "look" /\ job'[x].cpu = job[x].cpu
          /\ \A y \in Ways \ {x} : job'[y] = job[y]
        BY <1>1, <1>2, GoFacts DEF Positions
    <2>3. TypeOK' /\ SyncWasFound' /\ SawKnows' /\ SuccessIsReal'
        BY <1>1, <2>1, <2>2 DEF IInv, TypeOK, SyncWasFound, SawKnows, SuccessIsReal, There
    <2>4. Openable'
        BY <1>1, <2>1, <2>2 DEF IInv, Openable, Passable, Flagged, Syncing, Ways
    <2> QED
        BY <2>3, <2>4 DEF IInv
<1>3. CASE /\ ~Flagged(x, job[x].cpu) /\ Move(x, job[x].cpu) /\ FlagAs(x, job[x].cpu)
           /\ Return(x, TRUE)
    <2>1. /\ job' \in [Ways -> Jobs]
          /\ job'[x].at = "done" /\ job'[x].cpu = job[x].cpu
          /\ \A y \in Ways \ {x} : job'[y] = job[y]
        BY <1>1, <1>3, ReturnFacts
    <2>2. /\ flag' \subseteq CPU
          /\ job[x].cpu \in flag' <=> x = "off"
          /\ \A d \in CPU \ {job[x].cpu} : d \in flag' <=> d \in flag
        BY <1>1, <1>3, FlagFacts
    <2>3. /\ online' \subseteq CPU /\ active' \subseteq CPU
          /\ aff' \in [Irq -> SUBSET CPU]
          /\ rec' \in [CPU -> {"online", "isolated", "failed"}]
          /\ saw' \subseteq Ways /\ saw \subseteq saw' /\ x \in saw'
          /\ IF x = "off" THEN job[x].cpu \notin online' ELSE job[x].cpu \in online'
          /\ \A d \in CPU \ {job[x].cpu} : d \in online' <=> d \in online
        BY <1>1, <1>3, MoveFacts
    <2>4. TypeOK' /\ SyncWasFound'
        BY <1>1, <2>1, <2>2, <2>3 DEF IInv, TypeOK, SyncWasFound
    <2>5. SawKnows' /\ SuccessIsReal'
        BY <1>1, <2>1, <2>3 DEF IInv, TypeOK, Jobs, SawKnows, SuccessIsReal, There, Ways
    <2>6. Openable'
        BY <1>1, <2>1, <2>2, <2>3 DEF IInv, Openable, Passable, Flagged, Syncing, Ways
    <2> QED
        BY <2>4, <2>5, <2>6 DEF IInv
<1> QED
    BY <1>2, <1>3 DEF ModelCall

LEMMA LookIInv ==
    ASSUME IInv, NEW x \in Ways, Look(x)
    PROVE  IInv'
<1>1. /\ TypeOK /\ box' = box /\ mode' = mode /\ job[x].at = "look"
      /\ UNCHANGED <<online, active, aff, rec, flag, saw>>
    BY DEF IInv, Look, masks
<1>2. /\ job' \in [Ways -> Jobs]
      /\ job'[x].at \in {"device", "done"} /\ job'[x].cpu = job[x].cpu
      /\ job'[x].at = "device" => box.bypass
      /\ job'[x].at = "done" /\ job'[x].ok => There(x)
      /\ \A y \in Ways \ {x} : job'[y] = job[y]
    <2>1. CASE There(x) /\ Return(x, TRUE)
        BY <1>1, <2>1, ReturnFacts
    <2>2. CASE Return(x, FALSE)
        BY <1>1, <2>2, ReturnFacts
    <2>3. CASE box.bypass /\ Go(x, "device")
        BY <1>1, <2>3, GoFacts DEF Positions
    <2>4. box.bypass \in BOOLEAN
        BY <1>1, BoxAssumption DEF TypeOK
    <2> QED
        BY <2>1, <2>2, <2>3, <2>4 DEF Look
<1>3. TypeOK' /\ SyncWasFound' /\ SawKnows' /\ SuccessIsReal'
    BY <1>1, <1>2 DEF IInv, TypeOK, SyncWasFound, SawKnows, SuccessIsReal, There
<1>4. Openable'
    BY <1>1, <1>2 DEF IInv, Openable, Passable, Flagged, Syncing, Ways
<1> QED
    BY <1>3, <1>4 DEF IInv

(* A bypass moves the CPU and leaves the flag wrong until Sync. *)
LEMMA BypassIInv ==
    ASSUME IInv, NEW x \in Ways, NEW rung \in Rungs, Bypass(x, rung)
    PROVE  IInv'
<1>1. /\ TypeOK /\ box' = box /\ mode' = mode /\ flag' = flag
      /\ job[x].at = rung /\ job[x].cpu \in CPU /\ box.bypass
      /\ job[x].at \notin {"idle", "sync"}
    BY DEF IInv, TypeOK, Jobs, Bypass, Rungs
<1>2. CASE /\ Go(x, "core") \/ Return(x, FALSE)
           /\ UNCHANGED <<masks, saw>>
    <2>1. UNCHANGED <<online, active, aff, rec, saw>>
        BY <1>2 DEF masks
    <2>2. /\ job' \in [Ways -> Jobs]
          /\ job'[x].at \in {"core", "done"} /\ job'[x].cpu = job[x].cpu
          /\ job'[x].at = "done" => ~job'[x].ok
          /\ \A y \in Ways \ {x} : job'[y] = job[y]
        <3>1. CASE Go(x, "core")
            BY <1>1, <3>1, GoFacts DEF Positions
        <3>2. CASE Return(x, FALSE)
            BY <1>1, <3>2, ReturnFacts
        <3> QED
            BY <1>2, <3>1, <3>2
    <2>3. TypeOK' /\ SyncWasFound' /\ SawKnows' /\ SuccessIsReal'
        BY <1>1, <2>1, <2>2 DEF IInv, TypeOK, SyncWasFound, SawKnows, SuccessIsReal, There
    <2>4. Openable'
        BY <1>1, <2>1, <2>2 DEF IInv, Openable, Passable, Flagged, Syncing, Ways
    <2> QED
        BY <2>3, <2>4 DEF IInv
<1>3. CASE /\ <<x, rung>> \in box.found /\ Go(x, "sync")
           /\ \/ Move(x, job[x].cpu)
              \/ There(x) /\ UNCHANGED <<masks, saw>>
    <2>1. /\ job' \in [Ways -> Jobs]
          /\ job'[x].at = "sync" /\ job'[x].cpu = job[x].cpu
          /\ \A y \in Ways \ {x} : job'[y] = job[y]
        BY <1>1, <1>3, GoFacts DEF Positions
    <2>2. /\ online' \subseteq CPU /\ active' \subseteq CPU
          /\ aff' \in [Irq -> SUBSET CPU]
          /\ rec' \in [CPU -> {"online", "isolated", "failed"}]
          /\ saw' \subseteq Ways /\ saw \subseteq saw' /\ x \in saw'
          /\ IF x = "off" THEN job[x].cpu \notin online' ELSE job[x].cpu \in online'
          /\ \A d \in CPU \ {job[x].cpu} : d \in online' <=> d \in online
        <3>1. CASE Move(x, job[x].cpu)
            BY <1>1, <3>1, MoveFacts
        <3>2. CASE There(x) /\ UNCHANGED <<masks, saw>>
            BY <1>1, <3>2 DEF IInv, TypeOK, SawKnows, There, masks
        <3> QED
            BY <1>3, <3>1, <3>2
    <2>3. TypeOK' /\ SyncWasFound'
        BY <1>1, <1>3, <2>1, <2>2 DEF IInv, TypeOK, SyncWasFound
    <2>4. SawKnows' /\ SuccessIsReal'
        BY <1>1, <2>1, <2>2 DEF IInv, TypeOK, Jobs, SawKnows, SuccessIsReal, There, Ways
    <2>5. Openable'
        BY <1>1, <2>1, <2>2 DEF IInv, Openable, Passable, Flagged, Syncing, Ways
    <2> QED
        BY <2>3, <2>4, <2>5 DEF IInv
<1> QED
    BY <1>2, <1>3 DEF Bypass

LEMMA SyncIInv ==
    ASSUME IInv, NEW x \in Ways, Sync(x)
    PROVE  IInv'
<1>1. /\ TypeOK /\ box' = box /\ mode' = mode
      /\ job[x].at = "sync" /\ job[x].cpu \in CPU /\ x \in saw
      /\ UNCHANGED <<online, active, aff, rec, saw>>
      /\ \E r \in Rungs : <<x, r>> \in box.found
    BY DEF IInv, TypeOK, Jobs, Sync, SawKnows, SyncWasFound, masks
<1>2. /\ job' \in [Ways -> Jobs]
      /\ job'[x].at = "done" /\ job'[x].cpu = job[x].cpu
      /\ \A y \in Ways \ {x} : job'[y] = job[y]
    BY <1>1, ReturnFacts DEF Sync
<1>3. /\ flag' \subseteq CPU
      /\ job[x].cpu \in flag' <=> x = "off"
      /\ \A d \in CPU \ {job[x].cpu} : d \in flag' <=> d \in flag
    BY <1>1, FlagFacts DEF Sync
<1>4. TypeOK' /\ SyncWasFound' /\ SawKnows' /\ SuccessIsReal'
    BY <1>1, <1>2, <1>3 DEF IInv, TypeOK, SyncWasFound, SawKnows, SuccessIsReal, There
<1>5. Openable'
    BY <1>1, <1>2, <1>3 DEF IInv, Openable, Passable, Flagged, Syncing, Ways
<1> QED
    BY <1>4, <1>5 DEF IInv

LEMMA RecordIInv ==
    ASSUME IInv, NEW x \in Ways, Record(x)
    PROVE  IInv'
<1>1. /\ TypeOK /\ job[x] \in Jobs /\ job[x].at = "done"
      /\ UNCHANGED <<mode, box, online, active, flag, aff, saw>>
    BY DEF IInv, TypeOK, Record
<1>2. /\ job' \in [Ways -> Jobs] /\ job'[x].at = "idle"
      /\ \A y \in Ways \ {x} : job'[y] = job[y]
    BY <1>1, IdleIsJob DEF TypeOK, Record, Idle
<1>3. rec' \in [CPU -> {"online", "isolated", "failed"}]
    BY <1>1 DEF TypeOK, Record, Jobs, Ways
<1>4. TypeOK' /\ SyncWasFound' /\ SawKnows' /\ SuccessIsReal'
    BY <1>1, <1>2, <1>3 DEF IInv, TypeOK, SyncWasFound, SawKnows, SuccessIsReal, There
<1>5. Openable'
    BY <1>1, <1>2 DEF IInv, Openable, Passable, Flagged, Syncing, Ways
<1> QED
    BY <1>4, <1>5 DEF IInv

(* The operator is let through by the flag, and leaves it right. *)
LEMMA OperatorIInv ==
    ASSUME IInv, NEW x \in Ways, NEW c \in CPU, Operator(x, c)
    PROVE  IInv'
<1>1. TypeOK /\ box' = box /\ mode' = mode /\ job' = job
    BY DEF IInv, Operator
<1>2. /\ flag' \subseteq CPU
      /\ c \in flag' <=> x = "off"
      /\ \A d \in CPU \ {c} : d \in flag' <=> d \in flag
    BY <1>1, FlagFacts DEF Operator
<1>3. /\ online' \subseteq CPU /\ active' \subseteq CPU
      /\ aff' \in [Irq -> SUBSET CPU]
      /\ rec' \in [CPU -> {"online", "isolated", "failed"}]
      /\ saw' \subseteq Ways /\ saw \subseteq saw'
      /\ IF x = "off" THEN c \notin online' ELSE c \in online'
      /\ \A d \in CPU \ {c} : d \in online' <=> d \in online
      /\ job[x].at # "idle" /\ job[x].cpu = c => x \in saw'
    BY <1>1, MoveFacts DEF Operator
<1>4. TypeOK' /\ SyncWasFound'
    BY <1>1, <1>2, <1>3 DEF IInv, TypeOK, SyncWasFound
<1>5. SawKnows' /\ SuccessIsReal'
    BY <1>1, <1>3 DEF IInv, TypeOK, Jobs, SawKnows, SuccessIsReal, There, Ways
<1>6. Openable'
    BY <1>1, <1>2, <1>3 DEF IInv, Openable, Passable, Flagged, Syncing, Ways
<1> QED
    BY <1>4, <1>5, <1>6 DEF IInv

(* Interrupts and stuttering disturb nothing but affinities. *)
LEMMA IrqIInv ==
    ASSUME IInv,
           (\E i \in Irq : Steer(i) \/ \E m \in SUBSET CPU : Rebalance(i, m))
               \/ SteeredAll \/ UNCHANGED vars
    PROVE  IInv'
<1>1. /\ TypeOK
      /\ UNCHANGED <<mode, box, online, active, flag, rec, saw>>
    BY DEF IInv, Steer, Rebalance, SteeredAll, masks, vars
<1>2. aff' \in [Irq -> SUBSET CPU]
    BY <1>1 DEF TypeOK, Steer, Steered, Narrowed, Rebalance, SteeredAll, masks, vars
<1>3. /\ job' \in [Ways -> Jobs]
      /\ \A y \in Ways : \/ job'[y] = job[y]
                         \/ /\ job[y].at = "irqs" /\ job'[y].cpu = job[y].cpu
                            /\ job'[y].at = "irqs"
                            /\ job'[y].ok = job[y].ok
                         \/ job[y].at = "irqs" /\ job'[y].at = "done"
                            /\ job'[y].cpu = job[y].cpu
    <2>1. CASE \E i \in Irq : Steer(i)
        BY <1>1, <2>1 DEF TypeOK, Jobs, Steer, Ways
    <2>2. CASE SteeredAll
        BY <1>1, <2>2, GoFacts DEF SteeredAll, Positions, Ways
    <2>3. CASE job' = job
        BY <1>1, <2>3 DEF TypeOK
    <2> QED
        BY <2>1, <2>2, <2>3 DEF Rebalance, vars
<1>4. TypeOK' /\ SyncWasFound' /\ SawKnows' /\ SuccessIsReal'
    BY <1>1, <1>2, <1>3 DEF IInv, TypeOK, SyncWasFound, SawKnows, SuccessIsReal, There
<1>5. Openable'
    BY <1>1, <1>3 DEF IInv, Openable, Passable, Flagged, Syncing, Ways
<1> QED
    BY <1>4, <1>5 DEF IInv

(* The scheduler's mask is nothing the ladder looks at. *)
LEMMA UndoIInv ==
    ASSUME IInv, Undo
    PROVE  IInv'
<1>1. /\ TypeOK /\ job["on"] \in Jobs /\ job["on"].at = "undo"
      /\ UNCHANGED <<mode, box, online, aff, rec, flag, saw>>
    BY DEF IInv, TypeOK, Undo, Ways
<1>2. /\ job' \in [Ways -> Jobs]
      /\ job'["on"].at = "done" /\ job'["on"].cpu = job["on"].cpu
      /\ \A y \in Ways \ {"on"} : job'[y] = job[y]
    BY <1>1, ReturnFacts DEF Undo, Ways
<1>3. TypeOK'
    <2>1. active' \subseteq CPU
        BY <1>1 DEF Undo, TypeOK, Jobs
    <2> QED
        BY <1>1, <1>2, <2>1 DEF TypeOK
<1>4. SyncWasFound' /\ SawKnows' /\ SuccessIsReal'
    BY <1>1, <1>2 DEF IInv, SyncWasFound, SawKnows, SuccessIsReal, There, Ways
<1>5. Openable'
    BY <1>1, <1>2 DEF IInv, Openable, Passable, Flagged, Syncing, Ways
<1> QED
    BY <1>3, <1>4, <1>5 DEF IInv

-----------------------------------------------------------------------------
LEMMA NextIInv == IInv /\ [Next]_vars => IInv'
<1> SUFFICES ASSUME IInv, [Next]_vars PROVE IInv'
    OBVIOUS
<1>1. CASE \E x \in Ways : Climb(x)
    BY <1>1, ModelIInv, LookIInv, SyncIInv, RecordIInv, BypassIInv DEF Climb
<1>2. CASE \E x \in Ways, c \in CPU : Start(x, c) \/ Operator(x, c)
    BY <1>2, StartIInv, OperatorIInv
<1>3. CASE (\E i \in Irq : Steer(i) \/ \E m \in SUBSET CPU : Rebalance(i, m))
               \/ SteeredAll \/ UNCHANGED vars
    BY <1>3, IrqIInv
<1>4. CASE Undo
    BY <1>4, UndoIInv
<1> QED
    BY <1>1, <1>2, <1>3, <1>4 DEF Next

LEMMA Invariance == Spec => []IInv
<1>1. Init => IInv
    BY InitIInv
<1>2. IInv /\ [Next]_vars => IInv'
    BY NextIInv
<1> QED
    BY <1>1, <1>2, PTL DEF Spec

(* Every variable keeps its shape, and the lower rungs are only tried where *)
(* offline_bypass allows it, on every host and for any number of CPUs.      *)
THEOREM WithdrawalTypeCorrect == Spec => []TypeOK
<1>1. IInv => TypeOK
    BY DEF IInv
<1> QED
    BY <1>1, Invariance, PTL

(* The ladder only reports success of a CPU that has been where it was     *)
(* wanted, whatever flags other contexts and operators leave behind.       *)
THEOREM LadderSucceedsTruly == Spec => []SuccessIsReal
<1>1. IInv => SuccessIsReal
    BY DEF IInv
<1> QED
    BY <1>1, Invariance, PTL

(* A CPU nobody is busy with is never locked out, or in, by dev->offline:  *)
(* where the flag may be wrong there is an entry point that does not ask.  *)
THEOREM LadderNeverShortCircuited == Spec => []NeverShortCircuited
<1>1. IInv => NeverShortCircuited
    BY DEF IInv, Openable, NeverShortCircuited, Syncing, Busy, Ways
<1> QED
    BY <1>1, Invariance, PTL

-----------------------------------------------------------------------------
(* CpuWithdrawal implements CpuIsolation.  The ladder belongs to full mode, *)
(* where nobody touches the scheduler's mask, so that a CPU that is down is *)
(* in neither mask; steering counts as done.                                *)
Placed ==
    /\ mode = "full" => active = online
    /\ \A x \in Ways :
           /\ job[x].at \in {"model", "look", "device", "core", "sync"} => mode = "full"
           /\ job[x].at = "irqs" => job[x].ok

IsoStep ==
    \/ IsoStands
    \/ \E c \in CPU :
          \/ IsoWork(c) \/ Iso!WorkMark(c)
          \/ Iso!Unisolate(c) \/ Iso!UnisolateRestore(c) \/ Iso!UnisolateFinish(c)
          \/ Iso!OperatorOffline(c) \/ Iso!OperatorOnline(c)

LEMMA InitPlaced == Init => Placed
BY DEF Init, Placed, Idle, Ways

LEMMA MovePlaced ==
    ASSUME IInv, NEW x \in Ways, NEW c \in CPU, Move(x, c), active = online
    PROVE  active' = online'
BY DEF Move, Ways, IInv, TypeOK

(* How a context sets out. *)
LEMMA StartFacts ==
    ASSUME TypeOK, NEW x \in Ways, NEW c \in CPU, Start(x, c)
    PROVE  /\ UNCHANGED <<mode, box, online, flag, aff, rec>>
           /\ job[x].at = "idle" /\ job'[x].cpu = c
           /\ \A y \in Ways \ {x} : job'[y] = job[y]
           /\ \/ mode = "full" /\ job'[x].at = "model" /\ active' = active
              \/ /\ x = "off" /\ mode = "inactive"
                 /\ job'[x].at = "irqs" /\ job'[x].ok /\ active' = active \ {c}
              \/ /\ x = "off" /\ mode = "soft"
                 /\ job'[x].at = "irqs" /\ job'[x].ok /\ active' = active
              \/ x = "on" /\ mode # "full" /\ job'[x].at = "undo" /\ active' = active
<1> DEFINE entered(pos, ok) == [at |-> pos, cpu |-> c, left |-> Irq, ok |-> ok]
<1>1. \/ /\ mode = "full" /\ active' = active
         /\ job' = [job EXCEPT ![x] = entered("model", FALSE)]
      \/ /\ x = "off" /\ mode = "inactive" /\ active' = active \ {c}
         /\ job' = [job EXCEPT ![x] = entered("irqs", TRUE)]
      \/ /\ x = "off" /\ mode = "soft" /\ active' = active
         /\ job' = [job EXCEPT ![x] = entered("irqs", TRUE)]
      \/ /\ x = "on" /\ mode # "full" /\ active' = active
         /\ job' = [job EXCEPT ![x] = entered("undo", FALSE)]
    <2>1. CASE mode = "full"
        BY <2>1 DEF Start
    <2>2. CASE mode = "inactive" /\ x = "off"
        BY <2>2 DEF Start
    <2>3. CASE mode = "soft" /\ x = "off"
        BY <2>3 DEF Start
    <2>4. CASE mode # "full" /\ x = "on"
        BY <2>4 DEF Start
    <2> QED
        BY <2>1, <2>2, <2>3, <2>4 DEF TypeOK, Ways
<1>2. UNCHANGED <<mode, box, online, flag, aff, rec>> /\ job[x].at = "idle"
    BY DEF Start
<1> QED
    BY <1>1, <1>2 DEF TypeOK

LEMMA PlacedNext ==
    ASSUME IInv, Placed, [Next]_vars
    PROVE  Placed'
<1>1. TypeOK
    BY DEF IInv
<1>2. ASSUME NEW x \in Ways, NEW c \in CPU, Start(x, c) PROVE Placed'
    <2>1. /\ mode' = mode /\ online' = online
          /\ mode = "full" => active' = active
          /\ \A y \in Ways \ {x} : job'[y] = job[y]
          /\ job'[x].at = "model" => mode = "full"
          /\ job'[x].at \in {"model", "irqs", "undo"}
          /\ job'[x].at = "irqs" => job'[x].ok
        BY <1>1, <1>2, StartFacts
    <2> QED
        BY <2>1 DEF Placed
<1>3. ASSUME NEW x \in Ways, ModelCall(x) PROVE Placed'
    <2>1. mode' = mode /\ job[x].cpu \in CPU /\ mode = "full" /\ active = online
        BY <1>1, <1>3 DEF ModelCall, TypeOK, Jobs, Placed
    <2>2. active' = online'
        BY <1>3, <2>1, MovePlaced DEF ModelCall, masks
    <2>3. \A y \in Ways \ {x} : job'[y] = job[y]
        BY <1>1, <1>3 DEF ModelCall, Go, Return, TypeOK
    <2>4. job'[x].at # "irqs"
        BY <1>1, <1>3 DEF ModelCall, Go, Return, TypeOK, Jobs
    <2> QED
        BY <2>1, <2>2, <2>3, <2>4 DEF Placed
<1>4. ASSUME NEW x \in Ways, Look(x) \/ Sync(x) PROVE Placed'
    <2>1. mode' = mode /\ mode = "full" /\ active = online
        BY <1>4 DEF Look, Sync, Placed
    <2>2. active' = online'
        BY <1>4, <2>1 DEF Look, Sync, masks
    <2>3. \A y \in Ways \ {x} : job'[y] = job[y]
        BY <1>1, <1>4 DEF Look, Sync, Go, Return, TypeOK
    <2>4. job'[x].at # "irqs"
        BY <1>1, <1>4 DEF Look, Sync, Go, Return, TypeOK, Jobs
    <2> QED
        BY <2>1, <2>2, <2>3, <2>4 DEF Placed
<1>5. ASSUME NEW x \in Ways, NEW rung \in Rungs, Bypass(x, rung) PROVE Placed'
    <2>1. mode' = mode /\ job[x].cpu \in CPU /\ mode = "full" /\ active = online
        BY <1>1, <1>5 DEF Bypass, TypeOK, Jobs, Placed, Rungs
    <2>2. active' = online'
        BY <1>5, <2>1, MovePlaced DEF Bypass, masks
    <2>3. \A y \in Ways \ {x} : job'[y] = job[y]
        BY <1>1, <1>5 DEF Bypass, Go, Return, TypeOK
    <2>4. job'[x].at # "irqs"
        BY <1>1, <1>5 DEF Bypass, Go, Return, TypeOK, Jobs
    <2> QED
        BY <2>1, <2>2, <2>3, <2>4 DEF Placed
<1>6. ASSUME NEW x \in Ways, Record(x) PROVE Placed'
    <2>1. /\ UNCHANGED <<mode, online, active>>
          /\ job'[x].at = "idle"
          /\ \A y \in Ways \ {x} : job'[y] = job[y]
        BY <1>1, <1>6 DEF Record, TypeOK, Idle
    <2> QED
        BY <2>1 DEF Placed
<1>7. ASSUME NEW x \in Ways, NEW c \in CPU, Operator(x, c) PROVE Placed'
    <2>1. mode' = mode /\ job' = job
        BY <1>7 DEF Operator
    <2>2. mode = "full" => active' = online'
        BY <1>7, MovePlaced DEF Operator, Placed
    <2> QED
        BY <2>1, <2>2 DEF Placed
<1>8. CASE Undo
    <2>1. /\ mode' = mode /\ online' = online
          /\ mode # "full"
          /\ job'["on"].at = "done"
          /\ \A y \in Ways \ {"on"} : job'[y] = job[y]
        BY <1>1, <1>8 DEF Undo, Return, TypeOK, Jobs, IInv, SawKnows, Ways
    <2> QED
        BY <2>1 DEF Placed
<1>9. CASE SteeredAll \/ \E i \in Irq : Steer(i)
    <2>1. /\ UNCHANGED <<mode, online, active>>
          /\ job'["off"].at \in {"irqs", "done"} /\ job'["off"].ok = job["off"].ok
          /\ job["off"].at = "irqs"
          /\ \A y \in Ways \ {"off"} : job'[y] = job[y]
        BY <1>1, <1>9 DEF SteeredAll, Steer, Go, TypeOK, Jobs, Ways, masks
    <2> QED
        BY <2>1 DEF Placed, Ways
<1>10. CASE (\E i \in Irq, m \in SUBSET CPU : Rebalance(i, m)) \/ UNCHANGED vars
    <2>1. UNCHANGED <<mode, online, active, job>>
        BY <1>10 DEF Rebalance, vars
    <2> QED
        BY <2>1 DEF Placed
<1> QED
    BY <1>2, <1>3, <1>4, <1>5, <1>6, <1>7, <1>8, <1>9, <1>10 DEF Next, Climb

LEMMA AlwaysPlaced == Spec => [](IInv /\ Placed)
<1> QED
    BY InitIInv, NextIInv, InitPlaced, PlacedNext, PTL DEF Spec

(* A CPU may leave if there is another one. *)
LEMMA NotTheLast ==
    ASSUME TypeOK, NEW c \in online, online # {c}
    PROVE  ~(Cardinality(online) <= 1)
<1>1. IsFiniteSet(online)
    BY FS_Subset, CpuAssumption DEF TypeOK
<1>2. Cardinality(online) \in Nat
    BY <1>1, FS_CardinalityType
<1>3. Cardinality(online) # 0
    BY <1>1, FS_EmptySet
<1>4. Cardinality(online) # 1
    BY <1>1, FS_Singleton
<1> QED
    BY <1>2, <1>3, <1>4

(* CpuIsolation counts CPUs as this module does. *)
LEMMA SameCardinality == \A S : Iso!Cardinality(S) = Cardinality(S)
BY DEF Iso!Cardinality, Cardinality

-----------------------------------------------------------------------------
(* What CpuIsolation sees of a context. *)
Undecided(x) == ~Succeeded(x) /\ ~Failed(x)

LEMMA WorkStands ==
    ASSUME \/ Undecided("off") /\ Undecided("off")'
           \/ /\ job'["off"].cpu = job["off"].cpu
              /\ Succeeded("off")' <=> Succeeded("off")
              /\ Failed("off")' <=> Failed("off")
    PROVE  workOf' = workOf
BY DEF workOf, Undecided

LEMMA NlStands ==
    ASSUME \/ /\ job["on"].at = "idle" \/ Failed("on")
              /\ job'["on"].at = "idle" \/ Failed("on")'
           \/ /\ job'["on"].cpu = job["on"].cpu
              /\ job'["on"].at = "idle" <=> job["on"].at = "idle"
              /\ Succeeded("on")' <=> Succeeded("on")
              /\ Failed("on")' <=> Failed("on")
    PROVE  nlOf' = nlOf
BY DEF nlOf

(* A context that does nothing is seen to do nothing. *)
LEMMA OthersStand ==
    ASSUME NEW x \in Ways, job'[x] = job[x], box' = box
    PROVE  IF x = "off" THEN workOf' = workOf ELSE nlOf' = nlOf
<1>1. /\ Succeeded(x)' <=> Succeeded(x)
      /\ Failed(x)' <=> Failed(x)
    BY DEF Succeeded, Failed, Exhausted
<1> QED
    BY <1>1, WorkStands, NlStands DEF Ways

(* The worker's outcome falls. *)
LEMMA WorkerDecides ==
    ASSUME TypeOK, NEW c \in CPU, Undecided("off"),
           mode = "full", active = online,
           UNCHANGED <<mode, box, rec>>,
           job'["on"] = job["on"],
           job'["off"].cpu = c,
           \/ /\ Succeeded("off")'
              /\ c \notin online \/ online # {c}
              /\ online' = online \ {c} /\ active' = active \ {c}
           \/ /\ Failed("off")' /\ ~Succeeded("off")'
              /\ c \in online
              /\ UNCHANGED <<online, active>>
    PROVE  IsoStep
<1>1. workOf = [d \in CPU |-> "idle"]
    BY DEF workOf, Undecided
<1>2. nlOf' = nlOf
    BY OthersStand DEF Ways
<1>3. Iso!WorkerFree
    BY <1>1 DEF Iso!WorkerFree
<1>4. Iso!TakeDown(c)
    <2>1. CASE Succeeded("off")'
        <3>1. workOf' = [workOf EXCEPT ![c] = "markOk"]
            BY <1>1, <2>1 DEF workOf
        <3>2. c \notin online \/ ~(Cardinality(online) <= 1)
            BY <2>1, NotTheLast DEF Succeeded, Failed, Exhausted
        <3>3. online' = online \ {c} /\ active' = active \ {c}
            BY <2>1
        <3> QED
            BY <3>1, <3>2, <3>3, SameCardinality DEF Iso!TakeDown, Iso!LastOnline
    <2>2. CASE ~Succeeded("off")'
        <3>1. workOf' = [workOf EXCEPT ![c] = "markErr"]
            BY <1>1, <2>2 DEF workOf
        <3> QED
            BY <2>2, <3>1 DEF Iso!TakeDown
    <2> QED
        BY <2>1, <2>2
<1>5. IsoWork(c)
    BY <1>2, <1>3, <1>4 DEF IsoWork, Iso!WorkPerMode
<1> QED
    BY <1>5 DEF IsoStep

(* UNISOLATE's restore has its outcome. *)
LEMMA RestoreDecides ==
    ASSUME TypeOK, NEW c \in CPU,
           Undecided("on"), job["on"].at # "idle",
           job["on"].cpu = c,
           mode = "full", active = online,
           UNCHANGED <<mode, box>>,
           job'["off"] = job["off"],
           job'["on"].cpu = c, job'["on"].at # "idle",
           \/ Succeeded("on")' /\ ~Failed("on")' /\ Move("on", c)
           \/ /\ Succeeded("on")' /\ ~Failed("on")'
              /\ c \in online /\ UNCHANGED <<online, active, rec>>
           \/ /\ Failed("on")'
              /\ c \notin online /\ UNCHANGED <<online, active, rec>>
    PROVE  IsoStep
<1>1. nlOf[c] = "restore"
    BY DEF nlOf, Undecided
<1>2. workOf' = workOf
    BY OthersStand DEF Ways
<1>3. Iso!RestoreFull(c)
    <2>1. CASE ~Failed("on")'
        <3>1. nlOf' = [nlOf EXCEPT ![c] = "finish"]
            BY <2>1 DEF nlOf
        <3>2. CASE c \in online
            <4>1. UNCHANGED <<online, active, rec>>
                BY <2>1, <3>2 DEF Move, TypeOK
            <4> QED
                BY <3>1, <3>2, <4>1 DEF Iso!RestoreFull
        <3>3. CASE c \notin online
            <4>1. /\ online' = online \cup {c} /\ active' = active \cup {c}
                  /\ rec' = IF rec[c] = "isolated" THEN [rec EXCEPT ![c] = "online"] ELSE rec
                BY <2>1, <3>3 DEF Move
            <4>2. Iso!BringUp(c)
                BY <4>1 DEF Iso!BringUp, Iso!SetState, Iso!ResetWindow
            <4> QED
                BY <3>1, <3>3, <4>2 DEF Iso!RestoreFull
        <3> QED
            BY <3>2, <3>3
    <2>2. CASE Failed("on")'
        <3>1. nlOf' = [nlOf EXCEPT ![c] = "idle"]
            BY <2>2 DEF nlOf
        <3> QED
            BY <2>2, <3>1 DEF Iso!RestoreFull
    <2> QED
        BY <2>1, <2>2
<1>4. Iso!UnisolateRestore(c)
    BY <1>1, <1>2, <1>3 DEF Iso!UnisolateRestore
<1> QED
    BY <1>4 DEF IsoStep

-----------------------------------------------------------------------------
LEMMA StartMaps ==
    ASSUME IInv, Placed, NEW x \in Ways, NEW c \in CPU, Start(x, c)
    PROVE  IsoStep
<1>1. /\ TypeOK /\ UNCHANGED <<mode, box, online, rec>>
      /\ job[x].at = "idle" /\ job'[x].cpu = c
      /\ \A y \in Ways \ {x} : job'[y] = job[y]
      /\ \/ mode = "full" /\ job'[x].at = "model" /\ active' = active
         \/ /\ x = "off" /\ mode = "inactive"
            /\ job'[x].at = "irqs" /\ job'[x].ok /\ active' = active \ {c}
         \/ /\ x = "off" /\ mode = "soft"
            /\ job'[x].at = "irqs" /\ job'[x].ok /\ active' = active
         \/ x = "on" /\ mode # "full" /\ job'[x].at = "undo" /\ active' = active
    BY StartFacts DEF IInv
<1>2. CASE x = "off"
    <2>1. nlOf' = nlOf /\ Undecided("off")
        BY <1>1, <1>2, OthersStand DEF Ways, Undecided, Succeeded, Failed, Exhausted
    <2>2. CASE mode = "full"
        <3>1. Undecided("off")'
            BY <1>1, <1>2, <2>2 DEF Undecided, Succeeded, Failed, Exhausted
        <3> QED
            BY <1>1, <2>1, <2>2, <3>1, WorkStands DEF IsoStep, IsoStands
    <2>3. CASE mode # "full"
        <3>1. workOf = [d \in CPU |-> "idle"]
            BY <2>1 DEF workOf, Undecided
        <3>2. workOf' = [workOf EXCEPT ![c] = "markOk"]
            BY <1>1, <1>2, <2>3, <3>1 DEF workOf, Succeeded
        <3>3. Iso!WorkerFree
            BY <3>1 DEF Iso!WorkerFree
        <3>4. CASE mode = "inactive"
            BY <1>1, <1>2, <2>1, <3>2, <3>3, <3>4 DEF IsoStep, IsoWork, Iso!WorkPerMode
        <3>5. CASE mode = "soft"
            BY <1>1, <1>2, <2>1, <3>2, <3>3, <3>5 DEF IsoStep, IsoWork, Iso!WorkPerMode
        <3> QED
            BY <1>1, <2>3, <3>4, <3>5 DEF TypeOK
    <2> QED
        BY <2>2, <2>3
<1>3. CASE x = "on"
    <2>1. workOf' = workOf
        BY <1>1, <1>3, OthersStand DEF Ways
    <2>2. nlOf = [d \in CPU |-> "idle"]
        BY <1>1, <1>3 DEF nlOf
    <2>3. nlOf' = [nlOf EXCEPT ![c] = "restore"]
        BY <1>1, <1>3, <2>2 DEF nlOf, Succeeded, Failed, Exhausted
    <2>4. rec[c] \in {"isolated", "failed"}
        BY <1>3 DEF Start
    <2>5. Iso!Unisolate(c)
        BY <1>1, <1>3, <2>1, <2>2, <2>3, <2>4 DEF Iso!Unisolate, Iso!NetlinkFree
    <2> QED
        BY <2>5 DEF IsoStep
<1> QED
    BY <1>2, <1>3 DEF Ways

(* Whoever is still on the way, in full mode: nothing is seen unless the    *)
(* outcome falls.                                                          *)
LEMMA OpenStands ==
    ASSUME NEW x \in Ways, box' = box,
           \A y \in Ways \ {x} : job'[y] = job[y],
           UNCHANGED <<mode, online, active, rec>>,
           job'[x].cpu = job[x].cpu,
           job[x].at # "idle" /\ job'[x].at # "idle",
           Succeeded(x)' <=> Succeeded(x),
           Failed(x)' <=> Failed(x)
    PROVE  IsoStep
<1>1. workOf' = workOf
    BY OthersStand, WorkStands DEF Ways
<1>2. nlOf' = nlOf
    BY OthersStand, NlStands DEF Ways
<1> QED
    BY <1>1, <1>2 DEF IsoStep, IsoStands

(* A context of the ladder has moved the CPU, found it there, or given up. *)
LEMMA LadderDecides ==
    ASSUME IInv, Placed, NEW x \in Ways, Undecided(x),
           job[x].at \in {"model", "look", "device", "core"},
           UNCHANGED <<mode, box>>,
           \A y \in Ways \ {x} : job'[y] = job[y],
           job'[x].cpu = job[x].cpu, job'[x].at # "idle",
           \/ Succeeded(x)' /\ ~Failed(x)' /\ Move(x, job[x].cpu)
           \/ /\ Succeeded(x)' /\ ~Failed(x)'
              /\ There(x) /\ UNCHANGED <<online, active, rec>>
           \/ /\ Failed(x)' /\ ~Succeeded(x)'
              /\ ~There(x) /\ UNCHANGED <<online, active, rec>>
    PROVE  IsoStep
<1> DEFINE c == job[x].cpu
<1>1. /\ TypeOK /\ c \in CPU /\ mode = "full" /\ active = online
      /\ job[x].at # "idle"
    BY DEF IInv, TypeOK, Jobs, Placed
<1>2. CASE x = "off"
    <2>1. CASE Succeeded(x)'
        <3>1. c \notin online \/ online # {c}
            BY <1>2, <2>1 DEF Move, There
        <3>2. rec' = rec
            BY <1>2, <2>1 DEF Move
        <3>3. online' = online \ {c} /\ active' = active \ {c}
            BY <1>1, <1>2, <2>1 DEF Move, There
        <3> HIDE DEF c
        <3> QED
            BY <1>1, <1>2, <2>1, <3>1, <3>2, <3>3, WorkerDecides DEF c, Ways
    <2>2. CASE ~Succeeded(x)'
        BY <1>1, <1>2, <2>2, WorkerDecides DEF There, Ways
    <2> QED
        BY <2>1, <2>2
<1>3. CASE x = "on"
    BY <1>1, <1>3, RestoreDecides DEF There, Ways
<1> QED
    BY <1>2, <1>3 DEF Ways

LEMMA ModelMaps ==
    ASSUME IInv, Placed, NEW x \in Ways, ModelCall(x)
    PROVE  IsoStep
<1>1. /\ TypeOK /\ UNCHANGED <<mode, box>> /\ job[x].at = "model"
    BY DEF IInv, ModelCall
<1>2. Undecided(x)
    BY <1>1 DEF Undecided, Succeeded, Failed, Exhausted
<1>3. CASE Move(x, job[x].cpu) /\ Return(x, TRUE)
    <2>1. /\ job'[x].at = "done" /\ job'[x].cpu = job[x].cpu /\ job'[x].ok
          /\ \A y \in Ways \ {x} : job'[y] = job[y]
        BY <1>1, <1>3, ReturnFacts
    <2>2. Succeeded(x)' /\ ~Failed(x)'
        BY <2>1 DEF Succeeded, Failed, Exhausted
    <2> QED
        BY <1>1, <1>2, <1>3, <2>1, <2>2, LadderDecides
<1>4. CASE Go(x, "look") /\ UNCHANGED <<masks, flag, saw>>
    <2>1. /\ job'[x].at = "look" /\ job'[x].cpu = job[x].cpu
          /\ \A y \in Ways \ {x} : job'[y] = job[y]
        BY <1>1, <1>4, GoFacts DEF Positions
    <2>2. Undecided(x)'
        BY <2>1 DEF Undecided, Succeeded, Failed, Exhausted
    <2> QED
        BY <1>1, <1>2, <1>4, <2>1, <2>2, OpenStands DEF Undecided, masks
<1> QED
    BY <1>3, <1>4 DEF ModelCall

LEMMA LookMaps ==
    ASSUME IInv, Placed, NEW x \in Ways, Look(x)
    PROVE  IsoStep
<1>1. /\ TypeOK /\ UNCHANGED <<mode, box, online, active, rec>> /\ job[x].at = "look"
    BY DEF IInv, Look, masks
<1>2. Undecided(x)
    BY <1>1 DEF Undecided, Succeeded, Failed, Exhausted
<1>3. ASSUME NEW ok \in BOOLEAN, Return(x, ok), ok <=> There(x) PROVE IsoStep
    <2>1. /\ job'[x].at = "done" /\ job'[x].cpu = job[x].cpu /\ job'[x].ok = ok
          /\ \A y \in Ways \ {x} : job'[y] = job[y]
        BY <1>1, <1>3, ReturnFacts
    <2>2. /\ Succeeded(x)' <=> ok
          /\ Failed(x)' <=> ~ok
        BY <2>1 DEF Succeeded, Failed, Exhausted
    <2> QED
        BY <1>1, <1>2, <1>3, <2>1, <2>2, LadderDecides
<1>4. CASE Go(x, "device") /\ ~There(x)
    <2>1. /\ job'[x].at = "device" /\ job'[x].cpu = job[x].cpu
          /\ \A y \in Ways \ {x} : job'[y] = job[y]
        BY <1>1, <1>4, GoFacts DEF Positions
    <2>2. ~Succeeded(x)'
        BY <2>1 DEF Succeeded
    <2>3. CASE Failed(x)'
        BY <1>1, <1>2, <1>4, <2>1, <2>2, <2>3, LadderDecides
    <2>4. CASE ~Failed(x)'
        BY <1>1, <1>2, <2>1, <2>2, <2>4, OpenStands DEF Undecided
    <2> QED
        BY <2>3, <2>4
<1> QED
    BY <1>3, <1>4 DEF Look

LEMMA BypassMaps ==
    ASSUME IInv, Placed, NEW x \in Ways, NEW rung \in Rungs, Bypass(x, rung)
    PROVE  IsoStep
<1>1. /\ TypeOK /\ UNCHANGED <<mode, box>>
      /\ job[x].at = rung /\ rung \in {"device", "core"}
    BY DEF IInv, Bypass, Rungs
<1>2. ~Succeeded(x)
    BY <1>1 DEF Succeeded
<1>3. <<x, rung>> \in box.found => Undecided(x)
    BY <1>1, <1>2 DEF Undecided, Failed, Exhausted
<1>4. CASE /\ <<x, rung>> \in box.found /\ Go(x, "sync")
           /\ Move(x, job[x].cpu) \/ (There(x) /\ UNCHANGED <<masks, saw>>)
    <2>1. /\ job'[x].at = "sync" /\ job'[x].cpu = job[x].cpu
          /\ \A y \in Ways \ {x} : job'[y] = job[y]
        BY <1>1, <1>4, GoFacts DEF Positions
    <2>2. Succeeded(x)' /\ ~Failed(x)'
        BY <2>1 DEF Succeeded, Failed, Exhausted
    <2> QED
        BY <1>1, <1>3, <1>4, <2>1, <2>2, LadderDecides DEF masks
<1>5. CASE /\ \/ rung = "device" /\ Go(x, "core")
              \/ rung = "core" /\ Return(x, FALSE)
           /\ UNCHANGED <<masks, saw>>
           /\ <<x, rung>> \notin box.found \/ ~There(x)
    <2>1. /\ \/ rung = "device" /\ job'[x].at = "core"
             \/ rung = "core" /\ job'[x].at = "done" /\ ~job'[x].ok
          /\ job'[x].cpu = job[x].cpu
          /\ \A y \in Ways \ {x} : job'[y] = job[y]
        <3>1. CASE rung = "device" /\ Go(x, "core")
            BY <1>1, <3>1, GoFacts DEF Positions
        <3>2. CASE rung = "core" /\ Return(x, FALSE)
            BY <1>1, <3>2, ReturnFacts
        <3> QED
            BY <1>5, <3>1, <3>2
    <2>2. ~Succeeded(x)'
        BY <2>1 DEF Succeeded
    <2>3. UNCHANGED <<online, active, rec>>
        BY <1>5 DEF masks
    <2>4. Failed(x) => Failed(x)'
        BY <1>1, <2>1 DEF Failed, Exhausted, Rungs
    <2>5. CASE ~Failed(x) /\ Failed(x)'
        <3>1. <<x, rung>> \in box.found
            BY <1>1, <2>1, <2>5 DEF Failed, Exhausted, Rungs
        <3> QED
            BY <1>1, <1>3, <1>5, <2>1, <2>2, <2>3, <2>5, <3>1, LadderDecides
    <2>6. CASE Failed(x)' <=> Failed(x)
        BY <1>1, <1>2, <2>1, <2>2, <2>3, <2>6, OpenStands
    <2> QED
        BY <2>4, <2>5, <2>6
<1> QED
    BY <1>1, <1>4, <1>5 DEF Bypass

LEMMA SyncMaps ==
    ASSUME IInv, NEW x \in Ways, Sync(x)
    PROVE  IsoStep
<1>1. /\ TypeOK /\ UNCHANGED <<mode, box, online, active, rec>> /\ job[x].at = "sync"
    BY DEF IInv, Sync, masks
<1>2. /\ job'[x].at = "done" /\ job'[x].cpu = job[x].cpu /\ job'[x].ok
      /\ \A y \in Ways \ {x} : job'[y] = job[y]
    BY <1>1, ReturnFacts DEF Sync
<1>3. /\ Succeeded(x) /\ Succeeded(x)'
      /\ ~Failed(x) /\ ~Failed(x)'
    BY <1>1, <1>2 DEF Succeeded, Failed, Exhausted
<1> QED
    BY <1>1, <1>2, <1>3, OpenStands

LEMMA SteeringMaps ==
    ASSUME IInv, Placed, SteeredAll \/ \E i \in Irq : Steer(i)
    PROVE  IsoStep
<1>1. /\ UNCHANGED <<mode, box, online, active, rec>>
      /\ job["off"].at = "irqs" /\ job["off"].ok
      /\ job'["off"].at \in {"irqs", "done"} /\ job'["off"].ok
      /\ job'["off"].cpu = job["off"].cpu
      /\ \A y \in Ways \ {"off"} : job'[y] = job[y]
    <2>1. /\ TypeOK /\ UNCHANGED <<mode, box, online, active, rec>>
          /\ job["off"].at = "irqs" /\ job["off"].ok
        BY DEF IInv, Placed, SteeredAll, Steer, Ways, masks
    <2>2. CASE SteeredAll
        BY <2>1, <2>2, GoFacts DEF SteeredAll, Positions, Ways
    <2>3. CASE \E i \in Irq : Steer(i)
        <3>1. PICK i \in Irq : job' = [job EXCEPT !["off"].left = @ \ {i}]
            BY <2>3 DEF Steer
        <3> QED
            BY <2>1, <3>1 DEF TypeOK, Jobs, Ways
    <2> QED
        BY <2>2, <2>3
<1>2. /\ Succeeded("off") /\ Succeeded("off")'
      /\ ~Failed("off") /\ ~Failed("off")'
    BY <1>1 DEF Succeeded, Failed, Exhausted
<1> QED
    BY <1>1, <1>2, OpenStands DEF Ways

LEMMA UndoMaps ==
    ASSUME IInv, Placed, Undo
    PROVE  IsoStep
<1> DEFINE c == job["on"].cpu
<1>1. /\ TypeOK /\ UNCHANGED <<mode, box, online, rec>>
      /\ c \in CPU /\ job["on"].at = "undo" /\ mode # "full"
      /\ active' = IF mode = "inactive" THEN active \cup {c} ELSE active
    BY DEF IInv, TypeOK, Jobs, Undo, SawKnows, Ways
<1>2. /\ job'["on"].at = "done" /\ job'["on"].cpu = c /\ job'["on"].ok
      /\ job'["off"] = job["off"]
    BY <1>1, ReturnFacts DEF Undo, Ways
<1>3. workOf' = workOf
    BY <1>1, <1>2, OthersStand DEF Ways
<1>4. nlOf[c] = "restore" /\ nlOf' = [nlOf EXCEPT ![c] = "finish"]
    BY <1>1, <1>2 DEF nlOf, Succeeded, Failed, Exhausted
<1> HIDE DEF c
<1>5. CASE mode = "inactive"
    BY <1>1, <1>3, <1>4, <1>5 DEF IsoStep, Iso!UnisolateRestore
<1>6. CASE mode = "soft"
    BY <1>1, <1>3, <1>4, <1>6 DEF IsoStep, Iso!UnisolateRestore
<1> QED
    BY <1>1, <1>5, <1>6 DEF TypeOK

LEMMA RecordMaps ==
    ASSUME IInv, NEW x \in Ways, Record(x)
    PROVE  IsoStep
<1> DEFINE c == job[x].cpu
<1>1. /\ TypeOK /\ UNCHANGED <<mode, box, online, active>>
      /\ c \in CPU /\ job[x].at = "done" /\ job[x].ok \in BOOLEAN
    BY DEF IInv, TypeOK, Jobs, Record
<1>2. /\ job'[x].at = "idle"
      /\ \A y \in Ways \ {x} : job'[y] = job[y]
    BY <1>1 DEF TypeOK, Record, Idle
<1>3. Undecided(x)'
    BY <1>2 DEF Undecided, Succeeded, Failed, Exhausted
<1>4. CASE x = "off"
    <2>1. nlOf' = nlOf
        BY <1>1, <1>2, <1>4, OthersStand DEF Ways
    <2>2. /\ workOf[c] = IF job[x].ok THEN "markOk" ELSE "markErr"
          /\ workOf' = [workOf EXCEPT ![c] = "idle"]
        BY <1>1, <1>3, <1>4 DEF workOf, Undecided, Succeeded, Failed
    <2>3. rec' = [rec EXCEPT ![c] = IF job[x].ok THEN "isolated" ELSE "failed"]
        BY <1>1, <1>4 DEF Record
    <2> HIDE DEF c
    <2>4. Iso!WorkMark(c)
        BY <1>1, <2>1, <2>2, <2>3 DEF Iso!WorkMark, Iso!SetState
    <2> QED
        BY <1>1, <2>4 DEF IsoStep
<1>5. CASE x = "on" /\ job[x].ok
    <2>1. workOf' = workOf
        BY <1>1, <1>2, <1>5, OthersStand DEF Ways
    <2>2. nlOf[c] = "finish" /\ nlOf' = [nlOf EXCEPT ![c] = "idle"]
        BY <1>1, <1>2, <1>5 DEF nlOf, Succeeded, Failed, Exhausted
    <2>3. rec' = [rec EXCEPT ![c] = "online"]
        BY <1>1, <1>5 DEF Record
    <2> HIDE DEF c
    <2>4. Iso!UnisolateFinish(c)
        BY <1>1, <2>1, <2>2, <2>3 DEF Iso!UnisolateFinish, Iso!SetState, Iso!ResetWindow
    <2> QED
        BY <1>1, <2>4 DEF IsoStep
<1>6. CASE x = "on" /\ ~job[x].ok
    <2>1. workOf' = workOf
        BY <1>1, <1>2, <1>6, OthersStand DEF Ways
    <2>2. nlOf' = nlOf
        BY <1>1, <1>2, <1>6, NlStands DEF Failed
    <2>3. rec' = rec
        BY <1>1, <1>6 DEF Record
    <2> QED
        BY <1>1, <2>1, <2>2, <2>3 DEF IsoStep, IsoStands
<1> QED
    BY <1>1, <1>4, <1>5, <1>6 DEF Ways

LEMMA OperatorMaps ==
    ASSUME IInv, Placed, NEW x \in Ways, NEW c \in CPU, Operator(x, c)
    PROVE  IsoStep
<1>1. /\ TypeOK /\ UNCHANGED <<mode, box, job>> /\ Move(x, c)
    BY DEF IInv, Operator
<1>2. workOf' = workOf /\ nlOf' = nlOf
    BY <1>1, OthersStand DEF Ways
<1>3. CASE x = "off" /\ c \in online
    <2>1. /\ online' = online \ {c} /\ active' = active \ {c} /\ rec' = rec
          /\ online # {c}
        BY <1>1, <1>3 DEF Move
    <2>2. ~(Cardinality(online) <= 1)
        BY <1>1, <1>3, <2>1, NotTheLast
    <2>3. Iso!OperatorOffline(c)
        BY <1>1, <1>2, <1>3, <2>1, <2>2, SameCardinality
           DEF Iso!OperatorOffline, Iso!LastOnline
    <2> QED
        BY <2>3 DEF IsoStep
<1>4. CASE x = "on" /\ c \notin online
    <2>1. /\ online' = online \cup {c} /\ active' = active \cup {c}
          /\ rec' = IF rec[c] = "isolated" THEN [rec EXCEPT ![c] = "online"] ELSE rec
        BY <1>1, <1>4 DEF Move
    <2>2. Iso!OperatorOnline(c)
        BY <1>1, <1>2, <1>4, <2>1
           DEF Iso!OperatorOnline, Iso!BringUp, Iso!SetState, Iso!ResetWindow
    <2> QED
        BY <2>2 DEF IsoStep
<1>5. CASE c \in online <=> x = "on"
    <2>1. online' = online /\ active' = active /\ rec' = rec
        BY <1>1, <1>5 DEF Move, TypeOK, Ways
    <2> QED
        BY <1>1, <1>2, <2>1 DEF IsoStep, IsoStands
<1> QED
    BY <1>3, <1>4, <1>5 DEF Ways

LEMMA NextMaps == IInv /\ Placed /\ [Next]_vars => IsoStep \/ UNCHANGED vars
<1> SUFFICES ASSUME IInv, Placed, [Next]_vars PROVE IsoStep \/ UNCHANGED vars
    OBVIOUS
<1>1. CASE \E x \in Ways : Climb(x)
    BY <1>1, ModelMaps, LookMaps, SyncMaps, RecordMaps, BypassMaps DEF Climb
<1>2. CASE \E x \in Ways, c \in CPU : Start(x, c) \/ Operator(x, c)
    BY <1>2, StartMaps, OperatorMaps
<1>3. CASE SteeredAll \/ \E i \in Irq : Steer(i)
    BY <1>3, SteeringMaps
<1>4. CASE Undo
    BY <1>4, UndoMaps
<1>5. ASSUME NEW i \in Irq, NEW m \in SUBSET CPU, Rebalance(i, m) PROVE IsoStep
    <2>1. UNCHANGED <<mode, box, online, active, rec, job>>
        BY <1>5 DEF Rebalance
    <2>2. workOf' = workOf /\ nlOf' = nlOf
        BY <2>1, OthersStand DEF Ways
    <2> QED
        BY <2>1, <2>2 DEF IsoStep, IsoStands
<1> QED
    BY <1>1, <1>2, <1>3, <1>4, <1>5 DEF Next

LEMMA InitMaps == Init => Iso!Init
<1> SUFFICES ASSUME Init PROVE Iso!Init
    OBVIOUS
<1>1. /\ workOf = [c \in CPU |-> "idle"]
      /\ nlOf = [c \in CPU |-> "idle"]
    BY DEF Init, workOf, nlOf, Succeeded, Failed, Exhausted, Idle, Ways
<1> QED
    BY <1>1 DEF Init, Iso!Init

(* The ladder over the stubbed hotplug paths, the steering, the flag set    *)
(* by hand and the operators' writes implement the steps CpuIsolation       *)
(* takes: on every host, for any number of CPUs and in every mode.          *)
THEOREM LadderImplementsOutcome == Spec => OutcomeKept
<1>1. Init => Iso!Init
    BY InitMaps
<1>2. IInv /\ Placed /\ [Next]_vars => [IsoStep]_vars
    BY NextMaps
<1> QED
    BY <1>1, <1>2, AlwaysPlaced, PTL DEF Spec, OutcomeKept, IsoStep
=============================================================================
