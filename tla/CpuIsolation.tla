---------------------------- MODULE CpuIsolation ----------------------------
(***************************************************************************)
(* The CPU fault domain: the per-CPU error accounting and state machine of *)
(* kernel/core/cfi_core.c, the isolation machinery of                      *)
(* kernel/core/cfi_hotplug.c (deferral timer, ordered workqueue, hotplug   *)
(* callback) and the netlink commands of kernel/core/cfi_netlink.c that    *)
(* drive them.                                                             *)
(*                                                                         *)
(* Several threads of control act on one CPU's record.  Each has a         *)
(* position per CPU, and one step of it is what it does between two points *)
(* where another thread can get in (it takes or drops ci->lock, queues     *)
(* work, arms or cancels the timer):                                       *)
(*   rep[c]    the caller of cfi_report_error, after it dropped the lock   *)
(*   nl[c]     a netlink command on c; genetlink runs one at a time        *)
(*   timer[c]  ci->defer_timer is armed                                    *)
(*   wq        ci->offline_work pending on the ordered cfi_hotplug_wq      *)
(*   work[c]   cfi_offline_work_fn, between taking the CPU out of service  *)
(*             and recording the verdict                                   *)
(* Errors about one CPU are reported one at a time.  Left out: statistics  *)
(* nobody decides on (ce_count_total, isolation_count, the error log), the *)
(* multicasts, IRQ migration, and daemon_acked, which is written and never *)
(* read.                                                                   *)
(***************************************************************************)
EXTENDS Naturals, Sequences, FiniteSets, Functions

CONSTANTS
    CPU,        \* the possible CPUs
    Protected,  \* the CPUs cfi_cpu_is_protected() answers true for
    Modes,      \* the isolation modes a load of the module may select
    Policies,   \* the run-time tunables an administrator may set
    Pinnable,   \* the CPUs whose user_pinned attribute somebody writes
    CountCap    \* error counters saturate here, at or above every threshold

IsolationModes == {"full", "inactive", "soft"}

ASSUME CpuAssumption ==
    IsFiniteSet(CPU) /\ CPU # {} /\ Protected \subseteq CPU /\ Pinnable \subseteq CPU
ASSUME ModeAssumption == Modes \subseteq IsolationModes
ASSUME CapAssumption == CountCap \in Nat
ASSUME PolicyAssumption ==
    \A p \in Policies : /\ p.ce \in 0..CountCap
                        /\ p.uce \in 0..CountCap
                        /\ p.auto \in BOOLEAN   \* auto_isolate
                        /\ p.l3 \in BOOLEAN     \* isolate_on_l3_uce
                        /\ p.defer \in BOOLEAN  \* defer_to_daemon

VARIABLES
    mode,    \* cfi_isolation_mode, fixed at load
    policy,  \* thresholds and switches now in force
    state,   \* ci->state
    ce,      \* ci->ce_count of the current window, saturating at CountCap
    uce,     \* ci->uce_count of the current window, saturating at CountCap
    pinned,  \* ci->user_pinned
    timer,   \* ci->defer_timer is pending
    wq,      \* the CPUs whose offline_work is pending, in queueing order
    work,    \* where cfi_offline_work_fn is, per CPU
    rep,     \* where cfi_report_error's caller is, per CPU
    nl,      \* where the netlink command being served is, per CPU
    online,  \* the kernel's cpu_online_mask
    active   \* the kernel's cpu_active_mask

vars == <<mode, policy, state, ce, uce, pinned, timer, wq, work, rep, nl,
          online, active>>

States  == {"online", "degraded", "isolating", "isolated", "failed"}
WorkPos == {"idle", "markOk", "markErr"}
RepPos  == {"idle", "begin", "urgent"}
NlPos   == {"idle", "begin", "cancel", "restore", "finish"}

Shape ==
    /\ mode \in IsolationModes
    /\ policy \in Policies
    /\ state \in [CPU -> States]
    /\ ce \in [CPU -> 0..CountCap]
    /\ uce \in [CPU -> 0..CountCap]
    /\ pinned \in [CPU -> BOOLEAN]
    /\ timer \in [CPU -> BOOLEAN]
    /\ wq \in Seq(CPU)
    /\ work \in [CPU -> WorkPos]
    /\ rep \in [CPU -> RepPos]
    /\ nl \in [CPU -> NlPos]
    /\ online \subseteq CPU
    /\ active \subseteq CPU

AtMostOne(at) == \A c, d \in CPU : at[c] # "idle" /\ at[d] # "idle" => c = d

(* The shape of every variable, and that the ordered workqueue runs the    *)
(* work of one CPU at a time, netlink one command (cfi_hotplug.c:312,      *)
(* cfi_netlink.c:119).                                                     *)
TypeOK == Shape /\ AtMostOne(work) /\ AtMostOne(nl)

-----------------------------------------------------------------------------
(* A load: every record is zeroed, and a CPU that is down is taken to be   *)
(* isolated already.  CPU 0, the boot CPU, is up.                          *)
Init ==
    /\ mode \in Modes
    /\ policy \in Policies
    /\ online \in {up \in SUBSET CPU : up # {} /\ Protected \subseteq up}
    /\ active = online
    /\ state = [c \in CPU |-> IF c \in online THEN "online" ELSE "isolated"]
    /\ ce = [c \in CPU |-> 0]
    /\ uce = [c \in CPU |-> 0]
    /\ pinned = [c \in CPU |-> FALSE]
    /\ timer = [c \in CPU |-> FALSE]
    /\ wq = << >>
    /\ work = [c \in CPU |-> "idle"]
    /\ rep = [c \in CPU |-> "idle"]
    /\ nl = [c \in CPU |-> "idle"]

(* A definition whose comment starts with "Slip:" is no part of the model: *)
(* it is the definition after it as a plausible bug would have it, kept to *)
(* show which property would notice.                                       *)

(* Slip: the workqueue is created without ordering its items. *)
WorkerFreeUnordered == wq # << >> => work[Head(wq)] = "idle"

(* The family allows no parallel commands, the workqueue is ordered. *)
NetlinkFree == \A c \in CPU : nl[c] = "idle"
WorkerFree  == \A c \in CPU : work[c] = "idle"

Bump(n) == IF n < CountCap THEN n + 1 ELSE n

(* Slip: one pending item is taken for all of them. *)
QueueOfflineAlone(c) == wq' = IF wq # << >> THEN wq ELSE Append(wq, c)

(* queue_work(): nothing happens when the item is pending already. *)
QueueOffline(c) == wq' = IF c \in Range(wq) THEN wq ELSE Append(wq, c)

SetState(c, s) == state' = [state EXCEPT ![c] = s]

(* cfi_reset_cpu_window(). *)
ResetWindow(c) == ce' = [ce EXCEPT ![c] = 0] /\ uce' = [uce EXCEPT ![c] = 0]

-----------------------------------------------------------------------------
(* cfi_report_error(): account the error and decide, under ci->lock.  An   *)
(* error on a CPU that is isolated or on its way is dropped.  expired says *)
(* whether the counting window has run out; l3 whether the error's type is *)
(* exactly CFI_ERR_CACHE_L3.                                               *)
CeAfter(c, sev, expired) ==
    LET n == IF expired THEN 0 ELSE ce[c]
    IN  IF sev = "CE" THEN Bump(n) ELSE n

UceAfter(c, sev, expired) ==
    LET n == IF expired THEN 0 ELSE uce[c]
    IN  IF sev \in {"UCR", "UCF"} THEN Bump(n) ELSE n

L3Held(c, l3, u) == /\ l3 /\ ~policy.l3
                    /\ state[c] \in {"online", "degraded"}
                    /\ u >= policy.uce

MayAct(c, l3, u) == policy.auto /\ ~pinned[c] /\ ~L3Held(c, l3, u)

(* Slip: a failed isolation is retried on the next uncorrected error. *)
VerdictRetrying(c, l3, e, u) ==
    IF MayAct(c, l3, u) /\ state[c] # "isolated" /\ u >= policy.uce
    THEN "isolating"
    ELSE IF MayAct(c, l3, u) /\ state[c] = "online" /\ e >= policy.ce
         THEN "degraded"
         ELSE state[c]

Verdict(c, l3, e, u) ==
    IF /\ MayAct(c, l3, u)
       /\ state[c] \in {"online", "degraded"}
       /\ u >= policy.uce
    THEN "isolating"
    ELSE IF MayAct(c, l3, u) /\ state[c] = "online" /\ e >= policy.ce
         THEN "degraded"
         ELSE state[c]

ReportError(c, sev, l3, expired) ==
    LET e == CeAfter(c, sev, expired)
        u == UceAfter(c, sev, expired)
        v == Verdict(c, l3, e, u)
    IN  /\ rep[c] = "idle"
        /\ state[c] \notin {"isolated", "isolating"}
        /\ ce' = [ce EXCEPT ![c] = e]
        /\ uce' = [uce EXCEPT ![c] = u]
        /\ SetState(c, v)
        /\ rep' = IF v = "isolating"
                  THEN [rep EXCEPT ![c] = IF sev = "UCF" THEN "urgent" ELSE "begin"]
                  ELSE rep
        /\ UNCHANGED <<mode, policy, pinned, timer, wq, work, nl, online, active>>

-----------------------------------------------------------------------------
(* cfi_begin_isolation(), run after the caller dropped the lock: refuse a  *)
(* protected CPU, fail the last online one, else wait for the daemon or    *)
(* queue the offline work.  Then is where the caller goes next.            *)
LastOnline == Cardinality(online) <= 1

(* Slip: the last online CPU is put back to ONLINE, not to FAILED. *)
BeginIsolationReverting(c, urgent) ==
    IF c \in Protected \/ LastOnline
    THEN SetState(c, "online") /\ UNCHANGED <<timer, wq>>
    ELSE IF policy.defer /\ ~urgent
         THEN timer' = [timer EXCEPT ![c] = TRUE] /\ UNCHANGED <<state, wq>>
         ELSE QueueOffline(c) /\ UNCHANGED <<state, timer>>

BeginIsolation(c, urgent) ==
    IF c \in Protected THEN SetState(c, "online") /\ UNCHANGED <<timer, wq>>
    ELSE IF LastOnline THEN SetState(c, "failed") /\ UNCHANGED <<timer, wq>>
    ELSE IF policy.defer /\ ~urgent
         THEN timer' = [timer EXCEPT ![c] = TRUE] /\ UNCHANGED <<state, wq>>
         ELSE QueueOffline(c) /\ UNCHANGED <<state, timer>>

ReporterBegin(c) ==
    /\ rep[c] \in {"begin", "urgent"}
    /\ BeginIsolation(c, rep[c] = "urgent")
    /\ rep' = [rep EXCEPT ![c] = "idle"]
    /\ UNCHANGED <<mode, policy, ce, uce, pinned, work, nl, online, active>>

-----------------------------------------------------------------------------
(* CFI_CMD_ISOLATE: claim the CPU, announce it, begin the isolation. *)
Isolate(c) ==
    /\ NetlinkFree
    /\ state[c] \in {"online", "degraded"}
    /\ SetState(c, "isolating")
    /\ nl' = [nl EXCEPT ![c] = "begin"]
    /\ UNCHANGED <<mode, policy, ce, uce, pinned, timer, wq, work, rep, online,
                   active>>

IsolateBegin(c) ==
    /\ nl[c] = "begin"
    /\ BeginIsolation(c, FALSE)
    /\ nl' = [nl EXCEPT ![c] = "idle"]
    /\ UNCHANGED <<mode, policy, ce, uce, pinned, work, rep, online, active>>

(* CFI_CMD_ACK_ISOLATE: accepted only while isolating; then, with the lock *)
(* dropped, cancel the timer and queue the offline work.                   *)
AckIsolate(c) ==
    /\ NetlinkFree
    /\ state[c] = "isolating"
    /\ nl' = [nl EXCEPT ![c] = "cancel"]
    /\ UNCHANGED <<mode, policy, state, ce, uce, pinned, timer, wq, work, rep,
                   online, active>>

AckProceed(c) ==
    /\ nl[c] = "cancel"
    /\ timer' = [timer EXCEPT ![c] = FALSE]
    /\ QueueOffline(c)
    /\ nl' = [nl EXCEPT ![c] = "idle"]
    /\ UNCHANGED <<mode, policy, state, ce, uce, pinned, work, rep, online,
                   active>>

(* cfi_defer_timer_fn(): the daemon did not answer in time.  It looks at   *)
(* nothing but the work item.                                              *)
DeferTimer(c) ==
    /\ timer[c]
    /\ timer' = [timer EXCEPT ![c] = FALSE]
    /\ QueueOffline(c)
    /\ UNCHANGED <<mode, policy, state, ce, uce, pinned, work, rep, nl, online,
                   active>>

-----------------------------------------------------------------------------
(* cfi_offline_work_fn() on the ordered workqueue: one item at a time, in  *)
(* queueing order.  Dequeuing clears the pending bit, so the item may be   *)
(* queued again while it runs.  Nothing here looks at ci->state.           *)

(* cfi_cpu_do_offline() by its outcome: it returns 0 exactly when the CPU  *)
(* is down in the end.  The kernel refuses to take down the last CPU.      *)
TakeDown(c) ==
    \/ /\ c \notin online \/ ~LastOnline
       /\ online' = online \ {c}
       /\ active' = active \ {c}
       /\ work' = [work EXCEPT ![c] = "markOk"]
    \/ /\ c \in online
       /\ work' = [work EXCEPT ![c] = "markErr"]
       /\ UNCHANGED <<online, active>>

WorkPerMode(c) ==
    CASE mode = "soft" -> /\ work' = [work EXCEPT ![c] = "markOk"]
                          /\ UNCHANGED <<online, active>>
      [] mode = "inactive" -> /\ active' = active \ {c}
                              /\ work' = [work EXCEPT ![c] = "markOk"]
                              /\ UNCHANGED online
      [] mode = "full" -> TakeDown(c)

WorkRefuse(c) ==
    /\ SetState(c, "online")
    /\ UNCHANGED <<work, online, active>>

(* Slip: the last-line guard for protected CPUs is missing. *)
WorkRunUnguarded(c) ==
    /\ WorkerFree
    /\ wq # << >> /\ c = Head(wq)
    /\ wq' = Tail(wq)
    /\ WorkPerMode(c) /\ UNCHANGED state
    /\ UNCHANGED <<mode, policy, ce, uce, pinned, timer, rep, nl>>

WorkRun(c) ==
    /\ WorkerFree
    /\ wq # << >> /\ c = Head(wq)
    /\ wq' = Tail(wq)
    /\ IF c \in Protected THEN WorkRefuse(c)
                          ELSE WorkPerMode(c) /\ UNCHANGED state
    /\ UNCHANGED <<mode, policy, ce, uce, pinned, timer, rep, nl>>

(* Slip: the result of the offline attempt is ignored. *)
WorkMarkRegardless(c) ==
    /\ work[c] \in {"markOk", "markErr"}
    /\ SetState(c, "isolated")
    /\ work' = [work EXCEPT ![c] = "idle"]
    /\ UNCHANGED <<mode, policy, ce, uce, pinned, timer, wq, rep, nl, online, active>>

(* Slip: a failed attempt only logs. *)
WorkMarkOnlyOk(c) ==
    /\ work[c] \in {"markOk", "markErr"}
    /\ IF work[c] = "markOk" THEN SetState(c, "isolated") ELSE UNCHANGED state
    /\ work' = [work EXCEPT ![c] = "idle"]
    /\ UNCHANGED <<mode, policy, ce, uce, pinned, timer, wq, rep, nl, online, active>>

WorkMark(c) ==
    /\ work[c] \in {"markOk", "markErr"}
    /\ SetState(c, IF work[c] = "markOk" THEN "isolated" ELSE "failed")
    /\ work' = [work EXCEPT ![c] = "idle"]
    /\ UNCHANGED <<mode, policy, ce, uce, pinned, timer, wq, rep, nl, online,
                   active>>

-----------------------------------------------------------------------------
(* Slip: the error window survives the CPU's absence. *)
BringUpKeepingWindow(c) ==
    /\ online' = online \cup {c}
    /\ active' = active \cup {c}
    /\ IF state[c] = "isolated" THEN SetState(c, "online") ELSE UNCHANGED state
    /\ UNCHANGED <<ce, uce>>

(* The kernel brings c up; the hotplug callback cfi_cpu_online() resets an *)
(* isolated record.  It announces nothing.                                 *)
BringUp(c) ==
    /\ online' = online \cup {c}
    /\ active' = active \cup {c}
    /\ IF state[c] = "isolated" THEN SetState(c, "online") /\ ResetWindow(c)
                                ELSE UNCHANGED <<state, ce, uce>>

(* cfi_unisolate_cpu(): check the state under the lock, undo the isolation *)
(* without it, then write ONLINE whatever the state has become meanwhile.  *)
Unisolate(c) ==
    /\ NetlinkFree
    /\ state[c] \in {"isolated", "failed"}
    /\ nl' = [nl EXCEPT ![c] = "restore"]
    /\ UNCHANGED <<mode, policy, state, ce, uce, pinned, timer, wq, work, rep,
                   online, active>>

(* cfi_cpu_do_online() by its outcome: 0 exactly when the CPU is up. *)
RestoreFull(c) ==
    \/ /\ IF c \in online THEN UNCHANGED <<online, active, state, ce, uce>>
                          ELSE BringUp(c)
       /\ nl' = [nl EXCEPT ![c] = "finish"]
    \/ /\ c \notin online
       /\ nl' = [nl EXCEPT ![c] = "idle"]
       /\ UNCHANGED <<online, active, state, ce, uce>>

UnisolateRestore(c) ==
    /\ nl[c] = "restore"
    /\ CASE mode = "full" -> RestoreFull(c)
         [] mode = "inactive" -> /\ active' = active \cup {c}
                                 /\ nl' = [nl EXCEPT ![c] = "finish"]
                                 /\ UNCHANGED <<online, state, ce, uce>>
         [] mode = "soft" -> /\ nl' = [nl EXCEPT ![c] = "finish"]
                             /\ UNCHANGED <<online, active, state, ce, uce>>
    /\ UNCHANGED <<mode, policy, pinned, timer, wq, work, rep>>

UnisolateFinish(c) ==
    /\ nl[c] = "finish"
    /\ SetState(c, "online")
    /\ ResetWindow(c)
    /\ nl' = [nl EXCEPT ![c] = "idle"]
    /\ UNCHANGED <<mode, policy, pinned, timer, wq, work, rep, online, active>>

(* An operator writes cpuN/online in sysfs.  The module has no say; its    *)
(* offline callback does nothing, its online callback is in BringUp.       *)
OperatorOffline(c) ==
    /\ c \in online /\ ~LastOnline
    /\ online' = online \ {c}
    /\ active' = active \ {c}
    /\ UNCHANGED <<mode, policy, state, ce, uce, pinned, timer, wq, work, rep,
                   nl>>

OperatorOnline(c) ==
    /\ c \notin online
    /\ BringUp(c)
    /\ UNCHANGED <<mode, policy, pinned, timer, wq, work, rep, nl>>

(* user_pinned_store(). *)
Pin(c) ==
    /\ c \in Pinnable
    /\ pinned' = [pinned EXCEPT ![c] = ~pinned[c]]
    /\ UNCHANGED <<mode, policy, state, ce, uce, timer, wq, work, rep, nl,
                   online, active>>

(* CFI_CMD_SET_POLICY, the sysfs attributes and the module parameters. *)
SetPolicy(p) ==
    /\ policy' = p
    /\ UNCHANGED <<mode, state, ce, uce, pinned, timer, wq, work, rep, nl,
                   online, active>>

-----------------------------------------------------------------------------
Severities == {"CE", "UCR", "UCF"}

Errors(c) == \E sev \in Severities, l3, expired \in BOOLEAN :
                 ReportError(c, sev, l3, expired)

(* What the module does on its own once something has started it. *)
Machinery(c) ==
    \/ ReporterBegin(c)
    \/ IsolateBegin(c) \/ AckProceed(c)
    \/ DeferTimer(c)
    \/ WorkRun(c) \/ WorkMark(c)
    \/ UnisolateRestore(c) \/ UnisolateFinish(c)

(* Errors, ISOLATE requests and the daemon's ACKs, with nobody undoing an  *)
(* isolation or plugging CPUs by hand.                                     *)
UnattendedNext ==
    \/ \E c \in CPU : Errors(c) \/ Isolate(c) \/ AckIsolate(c) \/ Pin(c) \/ Machinery(c)
    \/ \E p \in Policies : SetPolicy(p)

Next ==
    \/ UnattendedNext
    \/ \E c \in CPU : Unisolate(c) \/ OperatorOffline(c) \/ OperatorOnline(c)

(* The kernel runs what is runnable: a handler that has started goes on, a *)
(* pending timer expires and the ordered workqueue executes its items.     *)
Fairness ==
    \A c \in CPU : /\ WF_vars(ReporterBegin(c))
                   /\ WF_vars(IsolateBegin(c) \/ AckProceed(c)
                              \/ UnisolateRestore(c) \/ UnisolateFinish(c))
                   /\ WF_vars(DeferTimer(c))
                   /\ WF_vars(WorkRun(c) \/ WorkMark(c))

UnattendedSpec == Init /\ [][UnattendedNext]_vars /\ Fairness
Spec == Init /\ [][Next]_vars /\ Fairness
-----------------------------------------------------------------------------
(* Properties.                                                             *)

(* A protected CPU is never isolated, failed, put on a timer or kept from  *)
(* the scheduler, whatever ISOLATE, ACK and error reports race: an ACK can *)
(* queue its offline work before cfi_begin_isolation() has refused it, and *)
(* only the guard in cfi_offline_work_fn() is left (cfi_hotplug.c:477,     *)
(* 568).                                                                   *)
ProtectedSafe ==
    \A c \in Protected : /\ state[c] \notin {"isolated", "failed"}
                         /\ ~timer[c]
                         /\ c \in online => c \in active

(* A CPU that is isolating is in somebody's hands: a handler about to      *)
(* begin or to proceed, the timer, the queue or the worker.  Otherwise the *)
(* record would stay ISOLATING for good, dropping every further error and  *)
(* refusing both ISOLATE and UNISOLATE.                                    *)
HasDriver(c) == \/ rep[c] \in {"begin", "urgent"}
                \/ nl[c] \in {"begin", "cancel"}
                \/ timer[c]
                \/ c \in Range(wq)
                \/ work[c] \in {"markOk", "markErr"}

InFlightHasDriver == \A c \in CPU : state[c] = "isolating" => HasDriver(c)

(* Every isolation comes to an end, with the daemon answering or not. *)
IsolationSettles == \A c \in CPU : state[c] = "isolating" ~> state[c] # "isolating"

(* What being withdrawn means in each mode. *)
Gone(c) == \/ mode = "full" /\ c \notin online
           \/ mode = "inactive" /\ c \notin active

(* Unattended: "isolated" is never claimed of a CPU that still serves.  In *)
(* soft mode nothing can be said, the CPU keeps serving by design.         *)
IsolatedIsGone ==
    mode # "soft" => \A c \in CPU : state[c] = "isolated" => Gone(c)

(* Unattended: a CPU the module took out of service is, once the work has  *)
(* recorded its verdict, in a state from which UNISOLATE takes it back     *)
(* (cfi_hotplug.c:658).                                                    *)
GoneIsRecoverable ==
    \A c \in CPU : Gone(c) => state[c] \in {"isolated", "failed"} \/ work[c] = "markOk"

(* With every kind of uncorrected error acted upon and nobody pinning, a   *)
(* CPU in service holds fewer errors than the thresholds: no path back to  *)
(* service keeps an old window, so none re-isolates a CPU for errors it    *)
(* has already been isolated for.                                          *)
BelowThresholds ==
    \A c \in CPU \ Protected :
        /\ state[c] = "online" => ce[c] < policy.ce
        /\ state[c] \in {"online", "degraded"} => uce[c] < policy.uce

(* The unattended module keeps the promise of IsolationPromise. *)
Promise == INSTANCE IsolationPromise WITH withdrawn <- {c \in CPU : Gone(c)}
PromiseKept == Promise!Spec

-----------------------------------------------------------------------------
(* Properties the code's own words state and the code does not keep.       *)

(* cfi_main.c:83, of an L3 error that is not to isolate, "account the UCE  *)
(* and emit netlink event so a userspace daemon can decide ... CPU stays   *)
(* online", and cfi_main.c:33, "Uncorrected errors per window to trigger   *)
(* isolation": a corrected error by itself never starts an isolation.      *)
CorrectedErrorNeverIsolates ==
    [][\A c \in CPU : (\E l3, expired \in BOOLEAN : ReportError(c, "CE", l3, expired))
                         => state'[c] # "isolating"]_vars

(* docs/design-document.md:258 and the comment at cfi_hotplug.c:577: the    *)
(* last CPU cannot be isolated.  Whoever the check in                      *)
(* cfi_begin_isolation() lets through leaves the scheduler another CPU.    *)
LetThrough(c) == (ReporterBegin(c) \/ IsolateBegin(c)) /\ c \notin Protected /\ ~LastOnline

LastCpuIsRefused == [][\A c \in CPU : LetThrough(c) => active \ {c} # {}]_vars
=============================================================================
