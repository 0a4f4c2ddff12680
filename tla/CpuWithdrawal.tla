--------------------------- MODULE CpuWithdrawal ---------------------------
(***************************************************************************)
(* How kernel/core/cfi_hotplug.c takes a CPU out of service and back, which *)
(* CpuIsolation knows by its outcome only: in full mode the ladder of      *)
(* hotplug entry points with the device model's "offline" flag it has to   *)
(* keep right by hand, in inactive mode the scheduler's mask, in inactive  *)
(* and soft mode the steering of interrupts.                               *)
(*                                                                         *)
(* Two contexts climb the ladder: job["off"] is the worker of the ordered  *)
(* cfi_hotplug_wq, job["on"] the UNISOLATE being served.  A work that was  *)
(* queued twice runs again while UNISOLATE is under way, so they may be    *)
(* busy with one CPU at once.  Operators write cpuX/online meanwhile, and  *)
(* irqbalance or an administrator moves interrupts.  The device model and  *)
(* the hotplug core are the kernel's: device_offline() and device_online() *)
(* hold the device's lock and do nothing when the flag says it is done     *)
(* (cfi_hotplug.c:141-146).  Protected CPUs never get this far.            *)
(***************************************************************************)
EXTENDS Naturals, FiniteSets

CONSTANTS
    CPU,    \* the CPUs
    Irq,    \* the interrupts whose affinity can be read
    Modes,  \* the isolation modes a load may select
    Boxes   \* the hosts: [bypass, stub, found]

Ways    == {"off", "on"}
Rungs   == {"device", "core"}
Symbols == Ways \X Rungs

ASSUME CpuAssumption == IsFiniteSet(CPU) /\ CPU # {}
ASSUME ModeAssumption == Modes \subseteq {"full", "inactive", "soft"}
ASSUME BoxAssumption ==
    \A b \in Boxes : /\ b.bypass \in BOOLEAN       \* offline_bypass
                     /\ b.stub \subseteq Ways      \* cpu_subsys_offline/online is stubbed
                     /\ b.found \subseteq Symbols  \* bypass entry points resolved at load
                     /\ ~b.bypass => b.found = {}

VARIABLES
    mode,    \* cfi_isolation_mode
    box,     \* the host
    online,  \* the kernel's cpu_online_mask
    active,  \* the kernel's cpu_active_mask
    flag,    \* the CPUs whose dev->offline is set
    aff,     \* the affinity mask of each interrupt
    rec,     \* the CPU's record, as far as UNISOLATE and the callback look at it
    job,     \* what the worker and UNISOLATE are doing
    saw      \* history: the contexts whose CPU has been where they want it

vars == <<mode, box, online, active, flag, aff, rec, job, saw>>
masks == <<online, active, aff, rec>>

Positions == {"idle", "model", "look", "device", "core", "sync", "irqs", "undo",
              "done"}
Idle == [at |-> "idle", cpu |-> CHOOSE c \in CPU : TRUE, left |-> {}, ok |-> FALSE]
Jobs == [at : Positions, cpu : CPU, left : SUBSET Irq, ok : BOOLEAN]

(* The shape of every variable; the lower rungs are only tried where       *)
(* offline_bypass allows it.                                               *)
TypeOK ==
    /\ mode \in {"full", "inactive", "soft"} /\ box \in Boxes
    /\ online \subseteq CPU /\ active \subseteq CPU /\ flag \subseteq CPU
    /\ aff \in [Irq -> SUBSET CPU]
    /\ rec \in [CPU -> {"online", "isolated", "failed"}]
    /\ job \in [Ways -> Jobs]
    /\ \A x \in Ways : job[x].at \in {"device", "core", "sync"} => box.bypass
    /\ saw \subseteq Ways

Init ==
    /\ mode \in Modes /\ box \in Boxes
    /\ online \in (SUBSET CPU) \ {{}}
    /\ active = online /\ flag = CPU \ online
    /\ aff \in {a \in [Irq -> SUBSET CPU] : \A i \in Irq : a[i] \cap online # {}}
    /\ rec = [c \in CPU |-> IF c \in online THEN "online" ELSE "isolated"]
    /\ job = [x \in Ways |-> Idle]
    /\ saw = {}

-----------------------------------------------------------------------------
(* A definition whose comment starts with "Slip:" is no part of the model: *)
(* it is the definition after it as a plausible bug would have it, kept to *)
(* show which property would notice.                                       *)

(* The CPU is where the context wants it. *)
There(x) == IF x = "off" THEN job[x].cpu \notin online ELSE job[x].cpu \in online

(* dev->offline already says so. *)
Flagged(x, c) == IF x = "off" THEN c \in flag ELSE c \in CPU \ flag

FlagAs(x, c) == flag' = IF x = "off" THEN flag \cup {c} ELSE flag \ {c}

(* The hotplug core.  Going down, an interrupt left without an online CPU  *)
(* is given all of them; coming up, cfi_cpu_online() resets an isolated    *)
(* record.  The last CPU does not go down.                                 *)
Move(x, c) ==
    /\ x = "off" => online # {c}
    /\ online' = IF x = "off" THEN online \ {c} ELSE online \cup {c}
    /\ active' = IF c \in online <=> x = "on" THEN active
                 ELSE IF x = "off" THEN active \ {c} ELSE active \cup {c}
    /\ aff' = [i \in Irq |-> IF aff[i] \cap online' = {} THEN online' ELSE aff[i]]
    /\ rec' = IF x = "on" /\ c \notin online /\ rec[c] = "isolated"
              THEN [rec EXCEPT ![c] = "online"] ELSE rec
    /\ saw' = saw \cup {y \in {x} : job[y].at # "idle" /\ job[y].cpu = c}

Go(x, pos) == job' = [job EXCEPT ![x].at = pos]

Return(x, ok) == job' = [job EXCEPT ![x].at = "done", ![x].ok = ok]

-----------------------------------------------------------------------------
(* cfi_offline_work_fn() dequeues its work, or cfi_unisolate_cpu() finds   *)
(* the record isolated or failed and drops the lock.                       *)
Start(x, c) ==
    /\ job[x].at = "idle"
    /\ x = "on" => rec[c] \in {"isolated", "failed"}
    /\ LET begin(pos, ok) ==
               job' = [job EXCEPT ![x] = [at |-> pos, cpu |-> c, left |-> Irq, ok |-> ok]]
       IN  CASE mode = "full" -> begin("model", FALSE) /\ UNCHANGED active
             [] mode = "inactive" /\ x = "off" -> begin("irqs", TRUE) /\ active' = active \ {c}
             [] mode = "soft" /\ x = "off" -> begin("irqs", TRUE) /\ UNCHANGED active
             [] mode # "full" /\ x = "on" -> begin("undo", FALSE) /\ UNCHANGED active
    /\ saw' = (saw \ {x}) \cup {y \in {x} : IF x = "off" THEN c \notin online ELSE c \in online}
    /\ UNCHANGED <<mode, box, online, flag, aff, rec>>

(* Slip: any result but an error code counts as success. *)
ModelCallLenient(x) ==
    LET c == job[x].cpu
    IN  /\ job[x].at = "model"
        /\ \/ /\ ~Flagged(x, c) /\ x \notin box.stub
              /\ Move(x, c) /\ FlagAs(x, c)
              /\ Return(x, TRUE)
           \/ Flagged(x, c) /\ Return(x, TRUE) /\ UNCHANGED <<masks, flag, saw>>
           \/ ~Flagged(x, c) /\ Go(x, "look") /\ UNCHANGED <<masks, flag, saw>>
        /\ UNCHANGED <<mode, box>>

(* Level 1, remove_cpu() or add_cpu().  It fails, or returns 1 for a CPU   *)
(* whose flag says it is done, or does it and sets the flag.               *)
ModelCall(x) ==
    LET c == job[x].cpu
    IN  /\ job[x].at = "model"
        /\ \/ /\ ~Flagged(x, c) /\ x \notin box.stub
              /\ Move(x, c) /\ FlagAs(x, c)
              /\ Return(x, TRUE)
           \/ Go(x, "look") /\ UNCHANGED <<masks, flag, saw>>
        /\ UNCHANGED <<mode, box>>

(* Slip: the offline_bypass parameter is only looked at when symbols are   *)
(* resolved.                                                               *)
LookOnward(x) ==
    /\ job[x].at = "look"
    /\ IF There(x) THEN Return(x, TRUE) ELSE Go(x, "device")
    /\ UNCHANGED <<mode, box, masks, flag, saw>>

(* It failed: if the CPU is there all the same that is success. *)
Look(x) ==
    /\ job[x].at = "look"
    /\ IF There(x) THEN Return(x, TRUE)
       ELSE IF ~box.bypass THEN Return(x, FALSE)
       ELSE Go(x, "device")
    /\ UNCHANGED <<mode, box, masks, flag, saw>>

(* Slip: the flag is left to the entry point that was called. *)
BypassUnsynced(x, rung) ==
    LET onward == IF rung = "device" THEN Go(x, "core") ELSE Return(x, FALSE)
    IN  /\ job[x].at = rung
        /\ \/ <<x, rung>> \notin box.found /\ onward /\ UNCHANGED <<masks, saw>>
           \/ <<x, rung>> \in box.found /\ Move(x, job[x].cpu) /\ Return(x, TRUE)
           \/ /\ <<x, rung>> \in box.found
              /\ IF There(x) THEN Return(x, TRUE) ELSE onward
              /\ UNCHANGED <<masks, saw>>
        /\ UNCHANGED <<mode, box, flag>>

(* Levels 2 and 3, cpu_device_down() or _up() and cpu_down() or _up(): a   *)
(* level that was not resolved is skipped, one that succeeds, or fails     *)
(* with the CPU there, leaves the flag to be set.                          *)
Bypass(x, rung) ==
    LET onward == IF rung = "device" THEN Go(x, "core") ELSE Return(x, FALSE)
    IN  /\ job[x].at = rung
        /\ \/ <<x, rung>> \notin box.found /\ onward /\ UNCHANGED <<masks, saw>>
           \/ <<x, rung>> \in box.found /\ Move(x, job[x].cpu) /\ Go(x, "sync")
           \/ /\ <<x, rung>> \in box.found
              /\ IF There(x) THEN Go(x, "sync") ELSE onward
              /\ UNCHANGED <<masks, saw>>
        /\ UNCHANGED <<mode, box, flag>>

(* cfi_sync_dev_offline(), which does not look at the CPU again. *)
Sync(x) ==
    /\ job[x].at = "sync"
    /\ FlagAs(x, job[x].cpu)
    /\ Return(x, TRUE)
    /\ UNCHANGED <<mode, box, masks, saw>>

-----------------------------------------------------------------------------
(* cfi_migrate_irqs_off_cpu(): one interrupt after the other, without the  *)
(* hotplug lock.  The mask keeps its other online CPUs; without any, the   *)
(* interrupt is spread over all others; the last CPU keeps it.  The kernel *)
(* may refuse, and does so when none of the mask is online any more.       *)
Narrowed(m, c) == (m \cap online) \ {c}

Steered(m, c) == IF Narrowed(m, c) # {} THEN Narrowed(m, c)
                 ELSE IF online \ {c} # {} THEN online \ {c} ELSE m

Steer(i) ==
    LET c == job["off"].cpu
    IN  /\ job["off"].at = "irqs" /\ i \in job["off"].left
        /\ job' = [job EXCEPT !["off"].left = @ \ {i}]
        /\ aff' \in {aff, [aff EXCEPT ![i] = IF c \in @ THEN Steered(@, c) ELSE @]}
        /\ UNCHANGED <<mode, box, online, active, flag, rec, saw>>

SteeredAll ==
    /\ job["off"].at = "irqs" /\ job["off"].left = {}
    /\ Go("off", "done")
    /\ UNCHANGED <<mode, box, masks, flag, saw>>

(* Slip: the mask is left to the scheduler. *)
UndoNothing ==
    /\ job["on"].at = "undo"
    /\ Return("on", TRUE)
    /\ UNCHANGED <<mode, box, masks, flag, saw>>

(* cfi_unisolate_cpu() without the ladder: in inactive mode the CPU is put *)
(* back into the scheduler's mask, in soft mode there is nothing to undo.  *)
Undo ==
    /\ job["on"].at = "undo"
    /\ active' = IF mode = "inactive" THEN active \cup {job["on"].cpu} ELSE active
    /\ Return("on", TRUE)
    /\ UNCHANGED <<mode, box, online, aff, rec, flag, saw>>

(* The verdict is recorded under the lock; an UNISOLATE that failed leaves *)
(* the record as it is.                                                    *)
Record(x) ==
    /\ job[x].at = "done"
    /\ job' = [job EXCEPT ![x] = Idle]
    /\ rec' = CASE x = "off" /\ job[x].ok -> [rec EXCEPT ![job[x].cpu] = "isolated"]
                [] x = "off" /\ ~job[x].ok -> [rec EXCEPT ![job[x].cpu] = "failed"]
                [] x = "on" /\ job[x].ok -> [rec EXCEPT ![job[x].cpu] = "online"]
                [] x = "on" /\ ~job[x].ok -> rec
    /\ UNCHANGED <<mode, box, online, active, flag, aff, saw>>

-----------------------------------------------------------------------------
(* An operator writes cpuX/online. *)
Operator(x, c) ==
    /\ ~Flagged(x, c) /\ x \notin box.stub
    /\ Move(x, c) /\ FlagAs(x, c)
    /\ UNCHANGED <<mode, box, job>>

(* Somebody writes an interrupt's affinity; it takes an online CPU. *)
Rebalance(i, m) ==
    /\ mode # "full"
    /\ m \cap online # {}
    /\ aff' = [aff EXCEPT ![i] = m]
    /\ UNCHANGED <<mode, box, online, active, flag, rec, job, saw>>

Climb(x) == \/ ModelCall(x) \/ Look(x) \/ Sync(x) \/ Record(x)
            \/ \E rung \in Rungs : Bypass(x, rung)

Next ==
    \/ \E x \in Ways : Climb(x) \/ \E c \in CPU : Start(x, c) \/ Operator(x, c)
    \/ \E i \in Irq : Steer(i) \/ \E m \in SUBSET CPU : Rebalance(i, m)
    \/ SteeredAll \/ Undo

Spec == Init /\ [][Next]_vars
-----------------------------------------------------------------------------
(* Properties.                                                             *)

Busy(c) == \E x \in Ways : job[x].at # "idle" /\ job[x].cpu = c

(* cfi_cpu_do_offline() and cfi_cpu_do_online() return 0 for a CPU that    *)
(* was where they want it at some moment since they were called, and not   *)
(* because a stale dev->offline made the first rung return without doing   *)
(* anything (cfi_hotplug.c:171-178, 223-228).                              *)
SuccessIsReal ==
    mode = "full" => \A x \in Ways : job[x].at = "done" /\ job[x].ok => x \in saw

(* Once nobody is busy with a CPU it can be moved back the way it came: a  *)
(* later add_cpu() or remove_cpu() is let through by dev->offline, unless  *)
(* there is an entry point on this host that does not ask it.  The flag is *)
(* set by hand after a bypass, in a step of its own, for the very purpose  *)
(* (cfi_hotplug.c:141-146), and two contexts do so for one CPU.            *)
Passable(x, c) == ~Flagged(x, c) \/ \E r \in Rungs : <<x, r>> \in box.found

NeverShortCircuited ==
    \A c \in CPU : ~Busy(c) => Passable(IF c \in online THEN "off" ELSE "on", c)

-----------------------------------------------------------------------------
(* CpuIsolation knows the ladder by its outcome: a CPU is down, or it is   *)
(* not and the worker has an error, in one step.  Here that step is the    *)
(* one from which only one outcome is left: the CPU has been moved, or     *)
(* found there, or was seen elsewhere when nothing was left to be tried.   *)
Exhausted(x) ==
    \/ job[x].at = "device" /\ \A r \in Rungs : <<x, r>> \notin box.found
    \/ job[x].at = "core" /\ <<x, "core">> \notin box.found

Succeeded(x) == job[x].at \in {"sync", "irqs"} \/ (job[x].at = "done" /\ job[x].ok)
Failed(x)    == Exhausted(x) \/ (job[x].at = "done" /\ ~job[x].ok)

workOf == [c \in CPU |->
    IF c = job["off"].cpu /\ Succeeded("off") THEN "markOk"
    ELSE IF c = job["off"].cpu /\ Failed("off") THEN "markErr" ELSE "idle"]

nlOf == [c \in CPU |->
    IF c # job["on"].cpu \/ job["on"].at = "idle" \/ Failed("on") THEN "idle"
    ELSE IF Succeeded("on") THEN "finish" ELSE "restore"]

(* Errors, policy, ISOLATE and the queue stand still, and no CPU is        *)
(* protected.                                                              *)
Stub == [ce |-> 0, uce |-> 0, auto |-> FALSE, l3 |-> FALSE, defer |-> FALSE]
Iso == INSTANCE CpuIsolation
    WITH Protected <- {}, Pinnable <- {}, CountCap <- 0, Policies <- {Stub}, policy <- Stub,
         state <- rec, work <- workOf, nl <- nlOf, rep <- [c \in CPU |-> "idle"],
         ce <- [c \in CPU |-> 0], uce <- [c \in CPU |-> 0], wq <- << >>,
         pinned <- [c \in CPU |-> FALSE], timer <- [c \in CPU |-> FALSE]

(* CpuIsolation's worker, running an item it has dequeued. *)
IsoWork(c) ==
    /\ Iso!WorkerFree /\ Iso!WorkPerMode(c)
    /\ UNCHANGED <<mode, rec, nlOf>>

(* CpuIsolation sees nothing of the step. *)
IsoStands == UNCHANGED <<mode, online, active, rec, workOf, nlOf>>

(* The ladder, the flag, the mask and the operators' writes, in whichever  *)
(* order they come, show CpuIsolation nothing but steps of its own: the    *)
(* worker's outcome, UNISOLATE's check, restore and verdict, and the       *)
(* hotplug callback.                                                       *)
OutcomeKept ==
    /\ Iso!Init
    /\ [][\/ IsoStands
          \/ \E c \in CPU :
                \/ IsoWork(c) \/ Iso!WorkMark(c)
                \/ Iso!Unisolate(c) \/ Iso!UnisolateRestore(c) \/ Iso!UnisolateFinish(c)
                \/ Iso!OperatorOffline(c) \/ Iso!OperatorOnline(c)]_vars

-----------------------------------------------------------------------------
(* What the documents state and the code does not keep: to an isolated CPU *)
(* of inactive or soft mode interrupts are "no longer delivered"           *)
(* (docs/slides-technical.md:321).  Here, of the module's own doing: the   *)
(* steering of an interrupt gives it to no isolated CPU while another one  *)
(* is in service.                                                          *)
InService(c) == c \in online /\ rec[c] = "online" /\ c # job["off"].cpu

NotSteeredBack ==
    [][\A i \in Irq : Steer(i) /\ (\E c \in CPU : InService(c)) =>
          \A c \in aff'[i] \ aff[i] : InService(c)]_vars
=============================================================================
